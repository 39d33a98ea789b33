--------------------------- MODULE PublisherProofs ---------------------------
(***************************************************************************)
(* Proofs about what acts on the publisher's peer connection:              *)
(* OfferNegotiation, for ids of any width, any number of debounce timers,  *)
(* calls and faults, and queues of any length; and LocalTrack, for any     *)
(* number of connections, providers, pumps and negotiations.               *)
(***************************************************************************)
EXTENDS OfferNegotiation, LocalTrack, SequenceTheorems, TLAPS

(***************************************************************************)
(* OfferNegotiation.                                                       *)
(***************************************************************************)

\* The answers in a queue, when localID is id and n offers have been made: each
\* is for the newest offer or for the one before, and carries that one's id.
AnswersMatch(q, id, n) ==
    \A i \in 1 .. Len(q) : q[i].kind = "answer" =>
        /\ q[i].id \in Id \ {invalidNegotiationID}
        /\ \/ q[i].of = n /\ q[i].id = id
           \/ q[i].of = n - 1 /\ id = nextNegotiationID(q[i].id)

\* They come in the order of their offers.
AnswersInOrder(q) ==
    \A i, j \in 1 .. Len(q) :
        i < j /\ q[i].kind = "answer" /\ q[j].kind = "answer" => q[i].of <= q[j].of

\* They are all for the newest offer.
AnswersNewest(q, n) == \A i \in 1 .. Len(q) : q[i].kind = "answer" => q[i].of = n

\* Once an answer has settled the newest offer, no older one is left behind it.
AnswersQueued ==
    /\ AnswersMatch(queue, localID, sent)
    /\ AnswersInOrder(queue)
    /\ signaling = "stable" => AnswersNewest(queue, sent)

\* The ids are equal, or one apart while an offer is outstanding.
IdsAdjacent ==
    /\ signaling = "stable" => remoteID = localID /\ settled = sent
    /\ signaling # "stable" => localID = nextNegotiationID(remoteID)

\* OnOffer runs for the outstanding offer only.
OfferingOutstanding == loop = "offering" => signaling # "stable"

ExchangeInv == IdleMeansStable /\ IdsAdjacent /\ OfferingOutstanding

IInv == OfferTypeOK /\ DebounceTracked /\ ExchangeInv /\ AnswersQueued

\* A restart waits for the next offer only when gathering is over.
RestartHeldGathered == restartAtNextOffer => gathering = "complete"

-----------------------------------------------------------------------------
(* The ids. *)

\* The next id is an id, is none that means "no id", and is another one.
LEMMA NextId ==
    ASSUME NEW id \in Id
    PROVE  /\ nextNegotiationID(id) \in Id
           /\ nextNegotiationID(id) # invalidNegotiationID
           /\ nextNegotiationID(id) # id
<1>1. CASE id + 1 = Ring
  BY <1>1, RingAssumption, (Ring) % Ring = 0 DEF nextNegotiationID, invalidNegotiationID, Id
<1>2. CASE id + 1 # Ring
  <2>1. (id + 1) % Ring = id + 1
    BY <1>2, RingAssumption DEF Id
  <2> QED
    BY <2>1, <1>2, RingAssumption DEF nextNegotiationID, invalidNegotiationID, Id
<1> QED
  BY <1>1, <1>2

\* The next id is ahead, also across the wrap.
LEMMA NextIsAhead ==
    ASSUME NEW id \in Id PROVE delta(nextNegotiationID(id), id) >= 0
<1> DEFINE d == (nextNegotiationID(id) - id) % Ring
<1>1. d \in {1, 2}
  <2>1. CASE id + 1 = Ring
    <3>1. nextNegotiationID(id) = 1
      BY <2>1, RingAssumption DEF nextNegotiationID, invalidNegotiationID, Id
    <3>2. (1 - id) % Ring = 2
      BY <2>1, RingAssumption DEF Id
    <3> QED
      BY <3>1, <3>2
  <2>2. CASE id + 1 # Ring
    <3>1. nextNegotiationID(id) = id + 1
      BY <2>2, RingAssumption DEF nextNegotiationID, invalidNegotiationID, Id
    <3>2. 1 % Ring = 1
      BY RingAssumption
    <3> QED
      BY <3>1, <3>2 DEF Id
  <2> QED
    BY <2>1, <2>2
<1>2. 2 < Ring \div 2
  BY RingAssumption
<1> QED
  BY <1>1, <1>2, RingAssumption DEF delta

\* With the ids one apart, the answer that carries the new one is accepted.
LEMMA NextAccepted ==
    ASSUME NEW remote \in Id
    PROVE  classifyAnswerNegotiationID(nextNegotiationID(remote), remote,
                                       nextNegotiationID(remote)) = "accept"
<1> DEFINE id == nextNegotiationID(remote)
<1>1. id # invalidNegotiationID /\ id # remote
  BY NextId
<1>2. ~(delta(id, remote) < 0)
  <2>1. delta(id, remote) \in Int
    BY NextId, RingAssumption DEF delta, Id
  <2> QED
    BY <2>1, NextIsAhead
<1> HIDE DEF id
<1> QED
  BY <1>1, <1>2 DEF classifyAnswerNegotiationID, id

\* An accepted answer that has an id has the outstanding one.
LEMMA AcceptedIsLocal ==
    ASSUME NEW id \in Id, NEW remote \in Id, NEW local \in Id, id # invalidNegotiationID,
           classifyAnswerNegotiationID(id, remote, local) = "accept"
    PROVE  id = local /\ id # remote
BY DEF classifyAnswerNegotiationID

-----------------------------------------------------------------------------
(* The queue. *)

\* Taking the head of the queue keeps what is known of the answers behind it,
\* and an answer for the newest offer has only such answers behind it.
LEMMA TailAnswers ==
    ASSUME NEW q \in Seq(Event), q # <<>>, NEW id \in Id, NEW n \in Nat
    PROVE  /\ Tail(q) \in Seq(Event)
           /\ AnswersMatch(q, id, n) => AnswersMatch(Tail(q), id, n)
           /\ AnswersInOrder(q) => AnswersInOrder(Tail(q))
           /\ AnswersNewest(q, n) => AnswersNewest(Tail(q), n)
           /\ AnswersMatch(q, id, n) /\ AnswersInOrder(q)
                /\ Head(q).kind = "answer" /\ Head(q).of = n => AnswersNewest(Tail(q), n)
<1>1. /\ Tail(q) \in Seq(Event) /\ Len(Tail(q)) = Len(q) - 1 /\ Len(q) \in Nat
      /\ \A i \in 1 .. Len(Tail(q)) : Tail(q)[i] = q[i + 1] /\ i + 1 \in 1 .. Len(q)
  BY HeadTailProperties
<1>2. Head(q) = q[1] /\ 1 \in 1 .. Len(q)
  BY HeadTailProperties, EmptySeq
<1>3. AnswersMatch(q, id, n) => AnswersMatch(Tail(q), id, n)
  BY <1>1 DEF AnswersMatch
<1>4. AnswersInOrder(q) => AnswersInOrder(Tail(q))
  BY <1>1 DEF AnswersInOrder
<1>5. AnswersNewest(q, n) => AnswersNewest(Tail(q), n)
  BY <1>1 DEF AnswersNewest
<1>6. ASSUME AnswersMatch(q, id, n), AnswersInOrder(q), Head(q).kind = "answer", Head(q).of = n
      PROVE  AnswersNewest(Tail(q), n)
  <2> SUFFICES ASSUME NEW i \in 1 .. Len(Tail(q)), q[i + 1].kind = "answer"
               PROVE  q[i + 1].of = n
    BY <1>1 DEF AnswersNewest
  <2>1. n <= q[i + 1].of
    BY <1>1, <1>2, <1>6 DEF AnswersInOrder
  <2>2. q[i + 1].of \in {n, n - 1}
    BY <1>1, <1>6 DEF AnswersMatch
  <2> QED
    BY <2>1, <2>2
<1> QED
  BY <1>1, <1>3, <1>4, <1>5, <1>6

\* An event that is no answer changes nothing for the answers.
LEMMA AppendOther ==
    ASSUME NEW q \in Seq(Event), NEW ev \in Event, ev.kind # "answer", NEW id \in Id, NEW n \in Nat
    PROVE  /\ Append(q, ev) \in Seq(Event)
           /\ AnswersMatch(q, id, n) => AnswersMatch(Append(q, ev), id, n)
           /\ AnswersInOrder(q) => AnswersInOrder(Append(q, ev))
           /\ AnswersNewest(q, n) => AnswersNewest(Append(q, ev), n)
<1>1. /\ Append(q, ev) \in Seq(Event) /\ Len(Append(q, ev)) = Len(q) + 1 /\ Len(q) \in Nat
      /\ \A i \in 1 .. Len(q) : Append(q, ev)[i] = q[i]
      /\ Append(q, ev)[Len(q) + 1] = ev
  BY AppendProperties
<1>2. AnswersMatch(q, id, n) => AnswersMatch(Append(q, ev), id, n)
  BY <1>1 DEF AnswersMatch
<1>3. AnswersInOrder(q) => AnswersInOrder(Append(q, ev))
  BY <1>1 DEF AnswersInOrder
<1>4. AnswersNewest(q, n) => AnswersNewest(Append(q, ev), n)
  BY <1>1 DEF AnswersNewest
<1> QED
  BY <1>1, <1>2, <1>3, <1>4

\* The answer of the newest offer goes behind all others.
LEMMA AppendAnswer ==
    ASSUME NEW q \in Seq(Event), NEW id \in Id \ {invalidNegotiationID}, NEW n \in Nat,
           AnswersMatch(q, id, n), AnswersInOrder(q)
    PROVE  LET r == Append(q, Ev("answer", id, n)) IN
           r \in Seq(Event) /\ AnswersMatch(r, id, n) /\ AnswersInOrder(r)
<1> DEFINE ev == Ev("answer", id, n)
<1>0. ev \in Event /\ ev.kind = "answer" /\ ev.id = id /\ ev.of = n
  BY RingAssumption DEF Ev, Event, Id
<1> HIDE DEF ev
<1>1. /\ Append(q, ev) \in Seq(Event) /\ Len(Append(q, ev)) = Len(q) + 1 /\ Len(q) \in Nat
      /\ \A i \in 1 .. Len(q) : Append(q, ev)[i] = q[i]
      /\ Append(q, ev)[Len(q) + 1] = ev
  BY <1>0, AppendProperties
<1>2. AnswersMatch(Append(q, ev), id, n)
  BY <1>0, <1>1 DEF AnswersMatch
<1>3. \A i \in 1 .. Len(q) : q[i].kind = "answer" => q[i].of <= n
  BY DEF AnswersMatch
<1>4. AnswersInOrder(Append(q, ev))
  <2> SUFFICES ASSUME NEW i \in 1 .. Len(q) + 1, NEW j \in 1 .. Len(q) + 1, i < j,
                      Append(q, ev)[i].kind = "answer", Append(q, ev)[j].kind = "answer"
               PROVE  Append(q, ev)[i].of <= Append(q, ev)[j].of
    BY <1>1 DEF AnswersInOrder
  <2>1. i \in 1 .. Len(q) /\ Append(q, ev)[i] = q[i]
    BY <1>1
  <2>2. CASE j = Len(q) + 1
    BY <2>1, <2>2, <1>0, <1>1, <1>3
  <2>3. CASE j # Len(q) + 1
    <3>1. j \in 1 .. Len(q) /\ Append(q, ev)[j] = q[j]
      BY <1>1, <2>3
    <3> QED
      BY <2>1, <3>1 DEF AnswersInOrder
  <2> QED
    BY <2>2, <2>3
<1> QED
  BY <1>1, <1>2, <1>4 DEF ev

\* With a new offer the newest answers become the ones before.
LEMMA OfferAges ==
    ASSUME NEW q, NEW id \in Id, NEW n \in Nat, AnswersMatch(q, id, n), AnswersNewest(q, n)
    PROVE  AnswersMatch(q, nextNegotiationID(id), n + 1)
BY DEF AnswersMatch, AnswersNewest

-----------------------------------------------------------------------------
(* The invariant. *)

\* NewTransport leaves a transport without an exchange; an earlier one has settled.
LEMMA IInvInit == OfferInit => IInv /\ RestartHeldGathered
<1> SUFFICES ASSUME OfferInit PROVE IInv /\ RestartHeldGathered
  OBVIOUS
<1>1. OfferTypeOK
  <2>1. queue \in Seq(Event) /\ debounce \in [Timer -> {"idle", "armed", "fired"}]
    BY EmptySeq DEF OfferInit
  <2>2. localID \in Id /\ remoteID \in Id
    BY OfferAssumption DEF OfferInit
  <2>3. connection \in {"new", "connecting", "connected", "closed"}
    BY DEF OfferInit
  <2>4. calls \in 0 .. MaxCalls /\ faults \in 0 .. MaxFaults
    BY OfferAssumption DEF OfferInit
  <2>5. /\ transportClosed \in BOOLEAN /\ owed \in BOOLEAN /\ restartAtNextOffer \in BOOLEAN
        /\ restartAfterGathering \in BOOLEAN /\ offerRestartsICE \in BOOLEAN
    BY DEF OfferInit
  <2>6. /\ negotiationGen \in Nat /\ negotiationTimer \in 0 .. negotiationGen
        /\ wanted \in Nat /\ offered \in 0 .. wanted /\ sent \in Nat /\ settled \in 0 .. sent
    BY DEF OfferInit
  <2>7. gathering \in {"new", "gathering", "complete"}
    BY DEF OfferInit
  <2> QED
    BY <2>1, <2>2, <2>3, <2>4, <2>5, <2>6, <2>7 DEF OfferInit, OfferTypeOK
<1>2. IdleMeansStable /\ DebounceTracked /\ IdsAdjacent /\ OfferingOutstanding /\ RestartHeldGathered
  BY DEF OfferInit, IdleMeansStable, DebounceTracked, IdsAdjacent, OfferingOutstanding,
         RestartHeldGathered
<1>3. AnswersQueued
  BY EmptySeq DEF OfferInit, AnswersQueued, AnswersMatch, AnswersInOrder, AnswersNewest
<1> QED
  BY <1>1, <1>2, <1>3 DEF IInv, ExchangeInv

\* Events enter the queue at its end, and none once it is closed.
LEMMA EnqueueType ==
    ASSUME queue \in Seq(Event), NEW ev \in Event, enqueueLocked(ev) PROVE queue' \in Seq(Event)
BY AppendProperties DEF enqueueLocked

\* The loop takes events from its head.
LEMMA TakesType ==
    ASSUME queue \in Seq(Event), NEW kind, Takes(kind)
    PROVE  queue' \in Seq(Event) /\ Head(queue) \in Event
BY HeadTailProperties DEF Takes

\* An offer, from whichever step it is made, keeps the types.
LEMMA SendType ==
    ASSUME OfferTypeOK, NEW restart \in BOOLEAN, NEW gen \in Nat, sendsOffer(restart, gen)
    PROVE  /\ restartAtNextOffer' \in BOOLEAN /\ offerRestartsICE' \in BOOLEAN
           /\ signaling' \in {"stable", "have-local-offer"}
           /\ gathering' \in {"new", "gathering", "complete"}
           /\ offered' = wanted /\ sent' = sent + 1 /\ owed' \in BOOLEAN /\ localID' \in Id
           /\ negotiationState' = "AwaitingAnswer" /\ loop' = "offering"
           /\ negotiationGen' \in Nat /\ negotiationTimer' = negotiationGen'
           /\ faults' \in 0 .. MaxFaults
<1>1. localID' \in Id
  BY NextId DEF sendsOffer, OfferTypeOK
<1>2. gathering' \in {"new", "gathering", "complete"}
  BY DEF sendsOffer, OfferTypeOK
<1>3. negotiationGen' \in Nat /\ negotiationTimer' = negotiationGen'
  BY DEF sendsOffer
<1> QED
  BY <1>1, <1>2, <1>3 DEF sendsOffer, OfferTypeOK

\* So does an offer that fails.
LEMMA FailType ==
    ASSUME OfferTypeOK, NEW gen \in Nat, NEW restarts \in BOOLEAN, offerFails(gen, restarts)
    PROVE  /\ restartAtNextOffer' \in BOOLEAN /\ offerRestartsICE' \in BOOLEAN
           /\ gathering' = gathering /\ offered' = offered /\ sent' = sent
           /\ owed' \in BOOLEAN /\ localID' = localID /\ loop' = loop
           /\ negotiationState' = "Idle" /\ negotiationGen' = gen
           /\ faults' \in 0 .. MaxFaults
<1>1. faults' \in 0 .. MaxFaults
  BY OfferAssumption DEF offerFails, Fault, OfferTypeOK
<1> QED
  BY <1>1 DEF offerFails

\* offer() changes the exchange and the peer connection, and keeps their types.
ExchangeTypeOK ==
    /\ loop \in {"idle", "offering", "done"}
    /\ negotiationState \in {"Idle", "AwaitingAnswer", "RenegotiatePending"}
    /\ localID \in Id /\ remoteID \in Id
    /\ restartAtNextOffer \in BOOLEAN /\ offerRestartsICE \in BOOLEAN
    /\ negotiationGen \in Nat /\ negotiationTimer \in 0 .. negotiationGen
    /\ signaling \in {"stable", "have-local-offer"}
    /\ gathering \in {"new", "gathering", "complete"}
    /\ offered \in 0 .. wanted /\ sent \in Nat /\ settled \in 0 .. sent
    /\ owed \in BOOLEAN /\ faults \in 0 .. MaxFaults

LEMMA OfferType ==
    ASSUME OfferTypeOK, NEW iceRestart \in BOOLEAN, offer(iceRestart), wanted' = wanted
    PROVE  ExchangeTypeOK'
<1> USE DEF OfferTypeOK, ExchangeTypeOK, timeoutVars
<1>1. CASE negotiationState # "Idle" /\ negotiationState' = "RenegotiatePending"
  BY <1>1 DEF offer, sendsOffer, offerFails, Fault
<1>2. CASE sendsOffer(iceRestart \/ restartAtNextOffer, negotiationGen + 1)
  BY <1>2, SendType DEF offer
<1>3. CASE offerFails(negotiationGen, offerRestartsICE) /\ UNCHANGED <<signaling, negotiationTimer>>
  BY <1>3, FailType DEF offer
<1> QED
  BY <1>1, <1>2, <1>3 DEF offer

LEMMA RestartType ==
    ASSUME OfferTypeOK, restartNow, wanted' = wanted PROVE ExchangeTypeOK'
<1>1. CASE negotiationState = "Idle" /\ offer(TRUE)
  BY <1>1, OfferType
<1>2. CASE ~(negotiationState = "Idle" /\ offer(TRUE))
  BY <1>2 DEF restartNow, OfferTypeOK, ExchangeTypeOK, timeoutVars
<1> QED
  BY <1>1, <1>2

LEMMA AcceptType ==
    ASSUME OfferTypeOK, NEW ev \in Event, ev.id \in Id, ev.of \in 0 .. sent, acceptAnswer(ev),
           wanted' = wanted
    PROVE  ExchangeTypeOK'
<1> DEFINE gen == negotiationGen + 1
           stable == signaling = "stable"
           settles == settled' \in 0 .. sent /\ remoteID' \in Id
<1> USE DEF OfferTypeOK, ExchangeTypeOK, timeoutVars, pcVars
<1>1. CASE Fault /\ UNCHANGED pcVars /\ negotiationGen' = gen /\ UNCHANGED <<loop, negotiationState,
             localID, remoteID, restartAtNextOffer, offerRestartsICE>> /\ owed' = FALSE
             /\ negotiationTimer' = 0
  <2>1. owed' \in BOOLEAN
    BY <1>1
  <2> QED
    BY <1>1, <2>1, OfferAssumption DEF Fault
<1>2. CASE settles /\ sendsOffer(restartAtNextOffer, gen + 1)
  BY <1>2, SendType
<1>3. CASE settles /\ offerFails(gen, FALSE) /\ signaling' = "stable" /\ negotiationTimer' = 0
  <2>1. gen \in Nat
    OBVIOUS
  <2>2. /\ restartAtNextOffer' \in BOOLEAN /\ offerRestartsICE' \in BOOLEAN
        /\ gathering' = gathering /\ offered' = offered /\ sent' = sent
        /\ owed' \in BOOLEAN /\ localID' = localID /\ loop' = loop
        /\ negotiationState' = "Idle" /\ negotiationGen' = gen /\ faults' \in 0 .. MaxFaults
    BY <1>3, <2>1, FailType, Zenon
  <2> QED
    BY <1>3, <2>2
<1>4. CASE /\ settles /\ negotiationState' = "Idle" /\ offerRestartsICE' = FALSE
           /\ signaling' = "stable" /\ negotiationGen' = gen /\ negotiationTimer' = 0
           /\ UNCHANGED <<restartAtNextOffer, gathering, offered, sent, localID, loop, owed, faults>>
  <2>1. offerRestartsICE' \in BOOLEAN
    BY <1>4
  <2> QED
    BY <1>4, <2>1
<1> QED
  BY <1>1, <1>2, <1>3, <1>4 DEF acceptAnswer

\* Every action keeps the types.
LEMMA TypeStep == ASSUME OfferTypeOK, AnswersQueued, [OfferNext]_offerVars PROVE OfferTypeOK'
<1> USE OfferAssumption DEF OfferTypeOK, callers, debounceVars
<1>0. /\ Ev("offer", 0, 0) \in Event /\ Ev("restart", 0, 0) \in Event /\ Ev("gathered", 0, 0) \in Event
      /\ Ev("timeout", negotiationTimer, 0) \in Event /\ Ev("answer", localID, sent) \in Event
  BY RingAssumption DEF Ev, Event, Id
<1>1. stopNegotiateTimer \in [Timer -> {"idle", "armed", "fired"}]
  BY DEF stopNegotiateTimer
<1>2. ASSUME NEW force \in BOOLEAN, Negotiate(force)
      PROVE  /\ queue' \in Seq(Event) /\ negotiateTimer' \in Timer \cup {NoTimer}
             /\ debounce' \in [Timer -> {"idle", "armed", "fired"}] /\ owed' \in BOOLEAN
  <2>1. queue' \in Seq(Event)
    BY <1>2, <1>0, EnqueueType DEF Negotiate
  <2>2. negotiateTimer' \in Timer \cup {NoTimer} /\ debounce' \in [Timer -> {"idle", "armed", "fired"}]
    BY <1>2, <1>1 DEF Negotiate
  <2>3. owed' \in BOOLEAN
    BY <1>2 DEF Negotiate
  <2> QED
    BY <2>1, <2>2, <2>3
<1>3. CASE AddTrack
  <2>1. Negotiate(FALSE)
    BY <1>3 DEF AddTrack
  <2>2. /\ queue' \in Seq(Event) /\ negotiateTimer' \in Timer \cup {NoTimer}
        /\ debounce' \in [Timer -> {"idle", "armed", "fired"}] /\ owed' \in BOOLEAN
    BY <2>1, <1>2
  <2> QED
    BY <1>3, <2>2 DEF AddTrack, restartVars, timeoutVars, pcVars
<1>4. CASE ForceNegotiate
  <2>1. Negotiate(TRUE)
    BY <1>4 DEF ForceNegotiate
  <2>2. /\ queue' \in Seq(Event) /\ negotiateTimer' \in Timer \cup {NoTimer}
        /\ debounce' \in [Timer -> {"idle", "armed", "fired"}] /\ owed' \in BOOLEAN
    BY <2>1, <1>2
  <2> QED
    BY <1>4, <2>2 DEF ForceNegotiate, restartVars, timeoutVars, pcVars
<1>5. CASE ICERestart
  <2>1. queue' \in Seq(Event)
    BY <1>5, <1>0, EnqueueType DEF ICERestart
  <2> QED
    BY <1>5, <2>1 DEF ICERestart, restartVars, timeoutVars, pcVars
<1>6. CASE CloseTransport
  <2>1. queue' \in Seq(Event) /\ transportClosed' \in BOOLEAN
    BY <1>6, EmptySeq DEF CloseTransport
  <2> QED
    BY <1>6, <1>1, <2>1 DEF CloseTransport, restartVars, timeoutVars, pcVars
<1>7. ASSUME NEW t \in Timer, DebounceFires(t) PROVE OfferTypeOK'
  BY <1>7 DEF DebounceFires, restartVars, timeoutVars, pcVars
<1>8. ASSUME NEW t \in Timer, DebounceCallback(t) PROVE OfferTypeOK'
  <2>1. queue' \in Seq(Event)
    BY <1>8, <1>0, EnqueueType DEF DebounceCallback
  <2> QED
    BY <1>8, <2>1 DEF DebounceCallback, restartVars, timeoutVars, pcVars
<1>9. CASE HandleOffer
  <2>1. queue' \in Seq(Event) /\ wanted' = wanted /\ offer(FALSE)
    BY <1>9, TakesType DEF HandleOffer
  <2>2. ExchangeTypeOK'
    BY <2>1, OfferType
  <2> QED
    BY <1>9, <2>1, <2>2 DEF HandleOffer, ExchangeTypeOK
<1>10. CASE HandleRestart
  <2>1. queue' \in Seq(Event) /\ wanted' = wanted /\ restartICE
    BY <1>10, TakesType DEF HandleRestart
  <2>2. ExchangeTypeOK'
    <3>1. CASE restartNow
      BY <2>1, <3>1, RestartType
    <3>2. CASE ~restartNow
      BY <2>1, <3>2 DEF restartICE, ExchangeTypeOK, timeoutVars, pcVars
    <3> QED
      BY <3>1, <3>2
  <2>3. restartAfterGathering' \in BOOLEAN
    BY <2>1 DEF restartICE
  <2> QED
    BY <1>10, <2>1, <2>2, <2>3 DEF HandleRestart, ExchangeTypeOK
<1>11. CASE HandleGathered
  <2>1. queue' \in Seq(Event) /\ wanted' = wanted
    BY <1>11, TakesType DEF HandleGathered
  <2>2. ExchangeTypeOK'
    <3>1. CASE restartNow
      BY <2>1, <3>1, RestartType
    <3>2. CASE ~restartNow
      BY <1>11, <2>1, <3>2 DEF HandleGathered, ExchangeTypeOK, timeoutVars, pcVars, restartVars
    <3> QED
      BY <3>1, <3>2
  <2>3. restartAfterGathering' \in BOOLEAN
    BY <1>11 DEF HandleGathered, restartVars
  <2> QED
    BY <1>11, <2>1, <2>2, <2>3 DEF HandleGathered, ExchangeTypeOK
<1>12. CASE HandleAnswer
  <2> DEFINE ev == Head(queue)
  <2>1. queue' \in Seq(Event) /\ wanted' = wanted /\ ev \in Event
    BY <1>12, TakesType DEF HandleAnswer
  <2>2. ev.id \in Id /\ ev.of \in 0 .. sent
    <3>1. ev = queue[1] /\ 1 \in 1 .. Len(queue) /\ ev.kind = "answer"
      BY <1>12, HeadTailProperties, EmptySeq DEF HandleAnswer, Takes
    <3>2. ev.id \in Id /\ ev.of \in {sent, sent - 1}
      BY <3>1 DEF AnswersQueued, AnswersMatch
    <3> QED
      BY <2>1, <3>2 DEF Event
  <2>3. ExchangeTypeOK'
    <3>1. CASE acceptAnswer(ev)
      BY <2>1, <2>2, <3>1, AcceptType
    <3>2. CASE ~acceptAnswer(ev)
      BY <1>12, <2>1, <3>2 DEF HandleAnswer, ExchangeTypeOK, timeoutVars, pcVars
    <3> QED
      BY <3>1, <3>2
  <2> QED
    BY <1>12, <2>1, <2>3 DEF HandleAnswer, ExchangeTypeOK
<1>13. CASE HandleTimeout
  <2>1. queue' \in Seq(Event)
    BY <1>13, TakesType DEF HandleTimeout
  <2>2. owed' \in BOOLEAN
    BY <1>13 DEF HandleTimeout
  <2> QED
    BY <1>13, <2>1, <2>2 DEF HandleTimeout, restartVars, pcVars
<1>14. CASE OnOffer
  <2>1. queue' \in Seq(Event)
    BY <1>14, <1>0, EnqueueType DEF OnOffer
  <2>2. owed' \in BOOLEAN
    BY <1>14 DEF OnOffer
  <2> QED
    BY <1>14, <2>1, <2>2 DEF OnOffer, Fault, restartVars, timeoutVars, pcVars
<1>15. CASE run
  BY <1>15 DEF run, restartVars, pcVars
<1>16. CASE GatheringCompletes
  <2>1. queue' \in Seq(Event)
    BY <1>16, <1>0, EnqueueType DEF GatheringCompletes
  <2> QED
    BY <1>16, <2>1 DEF GatheringCompletes, restartVars, timeoutVars
<1>17. CASE ConnectionChanges
  BY <1>17 DEF ConnectionChanges, restartVars, timeoutVars, pcVars
<1>18. CASE NegotiationTimeout
  <2>1. queue' \in Seq(Event)
    BY <1>18, <1>0, EnqueueType DEF NegotiationTimeout
  <2> QED
    BY <1>18, <2>1 DEF NegotiationTimeout, restartVars, timeoutVars, pcVars
<1>19. CASE UNCHANGED offerVars
  BY <1>19 DEF offerVars, restartVars, timeoutVars, pcVars
<1> QED
  BY <1>3, <1>4, <1>5, <1>6, <1>7, <1>8, <1>9, <1>10, <1>11, <1>12, <1>13, <1>14, <1>15, <1>16,
     <1>17, <1>18, <1>19 DEF OfferNext, Loop, Debounced

\* A debounce timer runs only while negotiateTimer names it.
LEMMA DebounceStep ==
    ASSUME OfferTypeOK, DebounceTracked, [OfferNext]_offerVars PROVE DebounceTracked'
<1> USE OfferAssumption DEF DebounceTracked, debounceVars
<1>0. debounce \in [Timer -> {"idle", "armed", "fired"}]
  BY DEF OfferTypeOK
<1>1. ASSUME NEW force \in BOOLEAN, Negotiate(force) PROVE DebounceTracked'
  BY <1>0, <1>1 DEF Negotiate, stopNegotiateTimer
<1>2. CASE AddTrack \/ ForceNegotiate
  BY <1>1, <1>2 DEF AddTrack, ForceNegotiate
<1>3. CASE CloseTransport
  BY <1>0, <1>3 DEF CloseTransport, stopNegotiateTimer
<1>4. ASSUME NEW t \in Timer, DebounceFires(t) PROVE DebounceTracked'
  BY <1>0, <1>4 DEF DebounceFires
<1>5. ASSUME NEW t \in Timer, DebounceCallback(t) PROVE DebounceTracked'
  BY <1>0, <1>5 DEF DebounceCallback
<1>6. CASE UNCHANGED debounceVars
  BY <1>6
<1> QED
  BY <1>2, <1>3, <1>4, <1>5, <1>6 DEF OfferNext, Loop, Debounced, ICERestart, HandleOffer,
     HandleRestart, HandleGathered, HandleAnswer, HandleTimeout, OnOffer, run, GatheringCompletes,
     ConnectionChanges, NegotiationTimeout, offerVars

\* A step that leaves the exchange alone and adds no answer to the queue.
LEMMA QuietStep ==
    ASSUME ExchangeInv, OfferTypeOK, AnswersQueued,
           UNCHANGED <<negotiationState, signaling, localID, remoteID, sent, settled>>,
           loop' \in {loop, "idle", "done"},
           \/ queue' \in {queue, <<>>}
           \/ queue # <<>> /\ queue' = Tail(queue)
           \/ \E ev \in Event : ev.kind # "answer" /\ enqueueLocked(ev)
    PROVE  ExchangeInv' /\ AnswersQueued'
<1>1. ExchangeInv'
  BY DEF ExchangeInv, IdleMeansStable, IdsAdjacent, OfferingOutstanding
<1> SUFFICES AnswersQueued'
  BY <1>1
<1>2. CASE queue' = queue
  BY <1>2 DEF AnswersQueued
<1>3. CASE queue' = <<>>
  BY <1>3 DEF AnswersQueued, AnswersMatch, AnswersInOrder, AnswersNewest
<1>4. CASE queue # <<>> /\ queue' = Tail(queue)
  BY <1>4, TailAnswers DEF AnswersQueued, OfferTypeOK
<1>5. ASSUME NEW ev \in Event, ev.kind # "answer", enqueueLocked(ev) PROVE AnswersQueued'
  BY <1>2, <1>5, AppendOther DEF AnswersQueued, OfferTypeOK, enqueueLocked
<1> QED
  BY <1>2, <1>3, <1>4, <1>5

\* An offer goes out when the one before is settled.
LEMMA SendKeeps ==
    ASSUME OfferTypeOK, NEW restart, NEW gen, sendsOffer(restart, gen), remoteID' = localID,
           AnswersMatch(queue', localID, sent), AnswersInOrder(queue'), AnswersNewest(queue', sent)
    PROVE  ExchangeInv' /\ AnswersQueued'
<1>1. /\ localID' = nextNegotiationID(localID) /\ sent' = sent + 1 /\ signaling' = "have-local-offer"
      /\ negotiationState' = "AwaitingAnswer"
  BY DEF sendsOffer
<1>2. ExchangeInv'
  BY <1>1 DEF ExchangeInv, IdleMeansStable, IdsAdjacent, OfferingOutstanding
<1>3. AnswersMatch(queue', localID', sent')
  BY <1>1, OfferAges DEF OfferTypeOK
<1> QED
  BY <1>1, <1>2, <1>3 DEF AnswersQueued

\* offer(), when the loop has taken the event it comes from.
LEMMA OfferKeeps ==
    ASSUME OfferTypeOK, ExchangeInv, loop = "idle", NEW iceRestart, offer(iceRestart),
           AnswersMatch(queue', localID, sent), AnswersInOrder(queue'),
           signaling = "stable" => AnswersNewest(queue', sent)
    PROVE  ExchangeInv' /\ AnswersQueued'
<1> USE DEF ExchangeInv, IdleMeansStable, IdsAdjacent, OfferingOutstanding, timeoutVars
<1>1. CASE negotiationState # "Idle"
  BY <1>1 DEF offer, AnswersQueued
<1>2. CASE negotiationState = "Idle" /\ sendsOffer(iceRestart \/ restartAtNextOffer, negotiationGen + 1)
  BY <1>2, SendKeeps DEF offer
<1>3. CASE negotiationState = "Idle" /\ offerFails(negotiationGen, offerRestartsICE)
           /\ UNCHANGED <<signaling, negotiationTimer>>
  BY <1>3 DEF offer, offerFails, AnswersQueued
<1> QED
  BY <1>1, <1>2, <1>3 DEF offer

\* restartICE: an offer, or the outstanding one once more.
LEMMA RestartKeeps ==
    ASSUME OfferTypeOK, ExchangeInv, loop = "idle", restartNow,
           AnswersMatch(queue', localID, sent), AnswersInOrder(queue'),
           signaling = "stable" => AnswersNewest(queue', sent)
    PROVE  ExchangeInv' /\ AnswersQueued'
<1>1. CASE negotiationState = "Idle"
  BY <1>1, OfferKeeps DEF restartNow
<1>2. CASE negotiationState # "Idle"
  BY <1>2 DEF restartNow, AnswersQueued, ExchangeInv, IdleMeansStable, IdsAdjacent,
              OfferingOutstanding, OfferTypeOK
<1> QED
  BY <1>1, <1>2

\* acceptAnswer, for the answer of the newest offer.
LEMMA AcceptKeeps ==
    ASSUME OfferTypeOK, ExchangeInv, loop = "idle", NEW ev, acceptAnswer(ev),
           ev.id = localID, ev.of = sent, ev.id # invalidNegotiationID, signaling # "stable",
           AnswersMatch(queue', localID, sent), AnswersInOrder(queue'), AnswersNewest(queue', sent)
    PROVE  ExchangeInv' /\ AnswersQueued'
<1> DEFINE gen == negotiationGen + 1
           settles == settled' = sent /\ remoteID' = localID
<1> USE DEF ExchangeInv, IdleMeansStable, IdsAdjacent, OfferingOutstanding
<1>1. CASE UNCHANGED <<loop, negotiationState, localID, remoteID, pcVars>>
  BY <1>1 DEF AnswersQueued, pcVars
<1>2. CASE settles /\ sendsOffer(restartAtNextOffer, gen + 1)
  BY <1>2, SendKeeps
<1>3. CASE settles /\ offerFails(gen, FALSE) /\ signaling' = "stable"
  BY <1>3 DEF offerFails, AnswersQueued
<1>4. CASE settles /\ negotiationState' = "Idle" /\ signaling' = "stable"
           /\ UNCHANGED <<sent, localID, loop>>
  BY <1>4 DEF AnswersQueued
<1> QED
  BY <1>1, <1>2, <1>3, <1>4 DEF acceptAnswer

\* The exchange, its ids and its answers, in one step of any action.
LEMMA ExchangeStep ==
    ASSUME OfferTypeOK, ExchangeInv, AnswersQueued, [OfferNext]_offerVars
    PROVE  ExchangeInv' /\ AnswersQueued'
<1> USE DEF timeoutVars, pcVars
<1>0. /\ Ev("offer", 0, 0) \in Event /\ Ev("offer", 0, 0).kind # "answer"
      /\ Ev("restart", 0, 0) \in Event /\ Ev("restart", 0, 0).kind # "answer"
      /\ Ev("gathered", 0, 0) \in Event /\ Ev("gathered", 0, 0).kind # "answer"
      /\ Ev("timeout", negotiationTimer, 0) \in Event
      /\ Ev("timeout", negotiationTimer, 0).kind # "answer"
  BY DEF Ev, Event, OfferTypeOK
<1>1. ASSUME NEW kind, Takes(kind)
      PROVE  /\ loop = "idle" /\ queue # <<>> /\ queue' = Tail(queue)
             /\ AnswersMatch(queue', localID, sent) /\ AnswersInOrder(queue')
             /\ signaling = "stable" => AnswersNewest(queue', sent)
  BY <1>1, TailAnswers DEF Takes, AnswersQueued, OfferTypeOK
<1>2. CASE AddTrack
  BY <1>0, <1>2, QuietStep DEF AddTrack, Negotiate
<1>3. CASE ForceNegotiate
  BY <1>0, <1>3, QuietStep DEF ForceNegotiate, Negotiate
<1>4. CASE ICERestart
  BY <1>0, <1>4, QuietStep DEF ICERestart
<1>5. CASE CloseTransport
  BY <1>5, QuietStep DEF CloseTransport
<1>6. ASSUME NEW t \in Timer, DebounceFires(t) PROVE ExchangeInv' /\ AnswersQueued'
  BY <1>6, QuietStep DEF DebounceFires
<1>7. ASSUME NEW t \in Timer, DebounceCallback(t) PROVE ExchangeInv' /\ AnswersQueued'
  BY <1>0, <1>7, QuietStep DEF DebounceCallback
<1>8. CASE HandleOffer
  BY <1>1, <1>8, OfferKeeps DEF HandleOffer
<1>9. CASE HandleRestart
  <2>1. CASE restartNow
    BY <1>1, <1>9, <2>1, RestartKeeps DEF HandleRestart
  <2>2. CASE ~restartNow
    BY <1>1, <1>9, <2>2, QuietStep DEF HandleRestart, restartICE
  <2> QED
    BY <2>1, <2>2
<1>10. CASE HandleGathered
  <2>1. CASE restartNow
    BY <1>1, <1>10, <2>1, RestartKeeps DEF HandleGathered
  <2>2. CASE ~restartNow
    BY <1>1, <1>10, <2>2, QuietStep DEF HandleGathered
  <2> QED
    BY <2>1, <2>2
<1>11. CASE HandleAnswer
  <2> DEFINE ev == Head(queue)
  <2>1. Takes("answer") /\ ev.kind = "answer"
    BY <1>11 DEF HandleAnswer, Takes
  <2>2. CASE classifyAnswerNegotiationID(ev.id, remoteID, localID) # "accept"
    BY <1>1, <1>11, <2>1, <2>2, QuietStep DEF HandleAnswer
  <2>3. CASE classifyAnswerNegotiationID(ev.id, remoteID, localID) = "accept"
    <3>1. ev = queue[1] /\ 1 \in 1 .. Len(queue)
      BY <1>1, <2>1, HeadTailProperties, EmptySeq DEF OfferTypeOK
    <3>2. /\ ev.id \in Id \ {invalidNegotiationID}
          /\ ev.of = sent \/ localID = nextNegotiationID(ev.id)
      BY <2>1, <3>1 DEF AnswersQueued, AnswersMatch
    <3>3. ev.id = localID /\ ev.id # remoteID
      BY <2>3, <3>2, AcceptedIsLocal DEF OfferTypeOK
    <3>4. ev.of = sent
      BY <3>2, <3>3, NextId
    <3>5. signaling # "stable"
      BY <3>3 DEF ExchangeInv, IdsAdjacent
    <3>6. AnswersNewest(queue', sent)
      <4>1. queue # <<>> /\ queue' = Tail(queue)
        BY <1>1, <2>1
      <4>2. /\ queue \in Seq(Event) /\ localID \in Id /\ sent \in Nat
            /\ AnswersMatch(queue, localID, sent) /\ AnswersInOrder(queue)
        BY DEF AnswersQueued, OfferTypeOK
      <4>3. AnswersNewest(Tail(queue), sent)
        BY <2>1, <3>4, <4>1, <4>2, TailAnswers
      <4> QED
        BY <4>1, <4>3
    <3> QED
      BY <1>1, <1>11, <2>1, <2>3, <3>2, <3>3, <3>4, <3>5, <3>6, AcceptKeeps DEF HandleAnswer
  <2> QED
    BY <2>2, <2>3
<1>12. CASE HandleTimeout
  BY <1>1, <1>12, QuietStep DEF HandleTimeout
<1>13. CASE OnOffer
  <2>1. CASE UNCHANGED queue
    BY <1>13, <2>1, QuietStep DEF OnOffer
  <2>2. CASE enqueueLocked(Ev("answer", localID, sent)) /\ queue' # queue
    <3>1. queue' = Append(queue, Ev("answer", localID, sent))
      BY <2>2 DEF enqueueLocked
    <3>2. signaling # "stable"
      BY <1>13 DEF OnOffer, ExchangeInv, OfferingOutstanding
    <3>3. localID \in Id \ {invalidNegotiationID}
      BY <3>2, NextId DEF ExchangeInv, IdsAdjacent, OfferTypeOK
    <3>4. AnswersMatch(queue', localID, sent) /\ AnswersInOrder(queue')
      BY <3>1, <3>3, AppendAnswer DEF AnswersQueued, OfferTypeOK
    <3> QED
      BY <1>13, <3>2, <3>4 DEF OnOffer, AnswersQueued, ExchangeInv, IdleMeansStable, IdsAdjacent,
                               OfferingOutstanding
  <2> QED
    BY <1>13, <2>1, <2>2 DEF OnOffer
<1>14. CASE run
  BY <1>14, QuietStep DEF run
<1>15. CASE GatheringCompletes
  BY <1>0, <1>15, QuietStep DEF GatheringCompletes
<1>16. CASE ConnectionChanges
  BY <1>16, QuietStep DEF ConnectionChanges
<1>17. CASE NegotiationTimeout
  BY <1>0, <1>17, QuietStep DEF NegotiationTimeout
<1>18. CASE UNCHANGED offerVars
  BY <1>18, QuietStep DEF offerVars
<1> QED
  BY <1>2, <1>3, <1>4, <1>5, <1>6, <1>7, <1>8, <1>9, <1>10, <1>11, <1>12, <1>13, <1>14, <1>15,
     <1>16, <1>17, <1>18 DEF OfferNext, Loop, Debounced

\* A held restart stays held until gathering is over, and an offer that restarts
\* ICE goes out then.
LEMMA RestartStep ==
    ASSUME OfferTypeOK, RestartHeldGathered, [OfferNext]_offerVars
    PROVE  /\ RestartHeldGathered'
           /\ sent' > sent /\ offerRestartsICE' => gathering = "complete"
<1> USE DEF OfferTypeOK, RestartHeldGathered, restartVars, pcVars, timeoutVars
<1>1. ASSUME NEW iceRestart \in BOOLEAN, offer(iceRestart), iceRestart => gathering = "complete"
      PROVE  /\ RestartHeldGathered'
             /\ sent' > sent /\ offerRestartsICE' => gathering = "complete"
  BY <1>1 DEF offer, sendsOffer, offerFails
<1>2. ASSUME restartNow, gathering = "complete"
      PROVE  /\ RestartHeldGathered'
             /\ sent' > sent /\ offerRestartsICE' => gathering = "complete"
  BY <1>1, <1>2 DEF restartNow
<1>3. CASE HandleOffer
  BY <1>1, <1>3 DEF HandleOffer
<1>4. CASE HandleRestart
  BY <1>2, <1>4 DEF HandleRestart, restartICE
<1>5. CASE HandleGathered
  BY <1>2, <1>5 DEF HandleGathered
<1>6. CASE HandleAnswer
  BY <1>6 DEF HandleAnswer, acceptAnswer, sendsOffer, offerFails
<1>7. CASE GatheringCompletes
  BY <1>7 DEF GatheringCompletes
<1>8. CASE UNCHANGED <<restartAtNextOffer, pcVars>>
  BY <1>8
<1> QED
  BY <1>3, <1>4, <1>5, <1>6, <1>7, <1>8 DEF OfferNext, Loop, Debounced, AddTrack, ForceNegotiate,
     ICERestart, CloseTransport, DebounceFires, DebounceCallback, HandleTimeout, OnOffer, run,
     ConnectionChanges, NegotiationTimeout, offerVars

-----------------------------------------------------------------------------
(* The theorems. *)

\* What the proofs rest on: the types, the ids and the answers in the queue.
THEOREM Inductive == OfferSpec => []IInv
<1>1. OfferInit => IInv
  BY IInvInit
<1>2. IInv /\ [OfferNext]_offerVars => IInv'
  BY TypeStep, DebounceStep, ExchangeStep DEF IInv
<1> QED
  BY <1>1, <1>2, PTL DEF OfferSpec

\* handleRemoteAnswer settles an offer only with its own answer, and accepts the
\* answer of the outstanding offer, for negotiation ids of any width, across
\* every wrap and resend.
THEOREM SettledByItsAnswerCorrect == OfferSpec => []SettledByItsAnswer
<1>1. IInv => SettledByItsAnswer
  <2> SUFFICES ASSUME IInv PROVE SettledByItsAnswer
    OBVIOUS
  <2>1. signaling = "stable" => settled = sent
    BY DEF IInv, ExchangeInv, IdsAdjacent
  <2>2. ASSUME NEW i \in DOMAIN queue, queue[i].kind = "answer", queue[i].of = sent,
               signaling # "stable"
        PROVE  classifyAnswerNegotiationID(queue[i].id, remoteID, localID) = "accept"
    <3>1. queue[i].id = localID
      BY <2>2 DEF IInv, AnswersQueued, AnswersMatch, OfferTypeOK
    <3>2. localID = nextNegotiationID(remoteID) /\ remoteID \in Id
      BY <2>2 DEF IInv, ExchangeInv, IdsAdjacent, OfferTypeOK
    <3> QED
      BY <3>1, <3>2, NextAccepted
  <2> QED
    BY <2>1, <2>2 DEF SettledByItsAnswer
<1> QED
  BY <1>1, Inductive, PTL

\* The negotiation state machine, the peer connection's signalling state and the
\* debounce timer of Negotiate agree, whichever step of an exchange fails.
THEOREM ExchangeConsistentCorrect == OfferSpec => []ExchangeConsistent
<1>1. IInv => ExchangeConsistent
  BY DEF IInv, ExchangeInv, ExchangeConsistent
<1> QED
  BY <1>1, Inductive, PTL

\* restartICE never restarts ICE while it gathers: neither at once, nor after
\* gathering, nor with the next offer.
THEOREM RestartsWhenGatheredCorrect == OfferSpec => RestartsWhenGathered
<1>1. OfferInit => RestartHeldGathered
  BY IInvInit
<1>2. IInv /\ RestartHeldGathered /\ [OfferNext]_offerVars => RestartHeldGathered'
  BY RestartStep DEF IInv
<1>3. IInv /\ RestartHeldGathered /\ [OfferNext]_offerVars =>
        [sent' > sent /\ offerRestartsICE' => gathering = "complete"]_offerVars
  BY RestartStep DEF IInv
<1> QED
  BY <1>1, <1>2, <1>3, Inductive, PTL DEF OfferSpec, RestartsWhenGathered

(***************************************************************************)
(* LocalTrack.                                                             *)
(***************************************************************************)

\* s.mu is held across two actions only by who waits for a pump.
LockHeld ==
    /\ app # "idle" => mu = App
    /\ \A c \in Ctx : at[c] = "stopping" => mu = c

\* A provider is swapped in only while the track is open and on some connection,
\* which cannot leave before s.mu is free.
SwapWhileBound ==
    app = "swapping" => incoming \in Provider /\ ~closed /\ \E c \in Ctx : at[c] # "new"

\* Whatever a Bind has not left behind runs for some connection.
PumpsServe == running \subseteq orphans \/ \E c \in Ctx : at[c] # "new"

TrackInv == TypeOK /\ LockHeld /\ SwapWhileBound /\ PumpsAccounted /\ NoStaleBinding /\ PumpsServe

-----------------------------------------------------------------------------
\* NewLocalTrack leaves a track on no connection.
LEMMA TrackInvInit == Init => TrackInv
<1> SUFFICES ASSUME Init PROVE TrackInv
  OBVIOUS
<1>1. TypeOK
  <2>1. at \in [Ctx -> {"new", "bind", "bound", "unbind", "stopping"}]
    BY DEF Init
  <2>2. binds \in 0 .. MaxBinds
    BY LocalTrackAssumption DEF Init
  <2>3. closed \in BOOLEAN
    BY DEF Init
  <2> QED
    BY <2>1, <2>2, <2>3 DEF Init, TypeOK
<1>2. LockHeld /\ SwapWhileBound /\ NoStaleBinding
  BY DEF Init, LockHeld, SwapWhileBound, NoStaleBinding
<1>3. PumpsAccounted /\ PumpsServe
  BY DEF Init, PumpsAccounted, PumpsServe
<1> QED
  BY <1>1, <1>2, <1>3 DEF TrackInv

\* Every action keeps the types.
LEMMA TrackTypeStep == ASSUME TypeOK, SwapWhileBound, [Next]_vars PROVE TypeOK'
<1> USE LocalTrackAssumption DEF TypeOK, lockVars, pumpVars
<1>1. ASSUME NEW c \in Ctx, Bind(c) PROVE TypeOK'
  BY <1>1 DEF Bind, Goes
<1>2. ASSUME NEW c \in Ctx, BindLocked(c) PROVE TypeOK'
  BY <1>2 DEF BindLocked, Goes, startPumpLocked
<1>3. ASSUME NEW c \in Ctx, Unbind(c) PROVE TypeOK'
  BY <1>3 DEF Unbind, Goes
<1>4. ASSUME NEW c \in Ctx, UnbindLocked(c) PROVE TypeOK'
  BY <1>4 DEF UnbindLocked, Goes, cancelPump
<1>5. ASSUME NEW c \in Ctx, UnbindReturns(c) PROVE TypeOK'
  BY <1>5 DEF UnbindReturns, Goes
<1>6. ASSUME NEW new \in Provider, StartWrite(new) PROVE TypeOK'
  BY <1>6 DEF StartWrite, cancelPump
<1>7. CASE StartWriteReturns
  BY <1>7 DEF StartWriteReturns, startPumpLocked, SwapWhileBound
<1>8. CASE Close
  BY <1>8 DEF Close, cancelPump
<1>9. CASE CloseReturns
  BY <1>9 DEF CloseReturns
<1>10. ASSUME NEW p \in Pump, runPump(p) PROVE TypeOK'
  BY <1>10 DEF runPump
<1>11. CASE UNCHANGED vars
  BY <1>11 DEF vars
<1> QED
  BY <1>1, <1>2, <1>3, <1>4, <1>5, <1>6, <1>7, <1>8, <1>9, <1>10, <1>11 DEF Next, Binding, Calls

\* Critical sections exclude each other.
LEMMA LockStep == ASSUME TypeOK, LockHeld, [Next]_vars PROVE LockHeld'
<1> USE LocalTrackAssumption DEF LockHeld, lockVars
<1>0. at \in [Ctx -> {"new", "bind", "bound", "unbind", "stopping"}]
  BY DEF TypeOK
<1>1. ASSUME NEW c \in Ctx, Bind(c) PROVE LockHeld'
  BY <1>0, <1>1 DEF Bind, Goes
<1>2. ASSUME NEW c \in Ctx, BindLocked(c) PROVE LockHeld'
  BY <1>0, <1>2 DEF BindLocked, Goes
<1>3. ASSUME NEW c \in Ctx, Unbind(c) PROVE LockHeld'
  BY <1>0, <1>3 DEF Unbind, Goes
<1>4. ASSUME NEW c \in Ctx, UnbindLocked(c) PROVE LockHeld'
  BY <1>0, <1>4 DEF UnbindLocked, Goes
<1>5. ASSUME NEW c \in Ctx, UnbindReturns(c) PROVE LockHeld'
  BY <1>0, <1>5 DEF UnbindReturns, Goes
<1>6. ASSUME NEW new \in Provider, StartWrite(new) PROVE LockHeld'
  BY <1>0, <1>6 DEF StartWrite
<1>7. CASE StartWriteReturns
  BY <1>0, <1>7 DEF StartWriteReturns
<1>8. CASE Close
  BY <1>0, <1>8 DEF Close
<1>9. CASE CloseReturns
  BY <1>0, <1>9 DEF CloseReturns
<1>10. ASSUME NEW p \in Pump, runPump(p) PROVE LockHeld'
  BY <1>10 DEF runPump
<1>11. CASE UNCHANGED vars
  BY <1>11 DEF vars
<1> QED
  BY <1>1, <1>2, <1>3, <1>4, <1>5, <1>6, <1>7, <1>8, <1>9, <1>10, <1>11 DEF Next, Binding, Calls

\* No connection goes away under a provider that is being swapped in.
LEMMA SwapStep ==
    ASSUME TypeOK, LockHeld, SwapWhileBound, NoStaleBinding, [Next]_vars PROVE SwapWhileBound'
<1> USE LocalTrackAssumption DEF SwapWhileBound, lockVars
<1>0. at \in [Ctx -> {"new", "bind", "bound", "unbind", "stopping"}]
  BY DEF TypeOK
<1>1. ASSUME NEW c \in Ctx, Bind(c) PROVE SwapWhileBound'
  BY <1>0, <1>1 DEF Bind, Goes
<1>2. ASSUME NEW c \in Ctx, BindLocked(c) PROVE SwapWhileBound'
  BY <1>0, <1>2 DEF BindLocked, Goes, LockHeld
<1>3. ASSUME NEW c \in Ctx, Unbind(c) PROVE SwapWhileBound'
  BY <1>0, <1>3 DEF Unbind, Goes
<1>4. ASSUME NEW c \in Ctx, UnbindLocked(c) PROVE SwapWhileBound'
  BY <1>0, <1>4 DEF UnbindLocked, Goes
<1>5. ASSUME NEW c \in Ctx, UnbindReturns(c) PROVE SwapWhileBound'
  BY <1>0, <1>5 DEF UnbindReturns, Goes, LockHeld
<1>6. ASSUME NEW new \in Provider, StartWrite(new) PROVE SwapWhileBound'
  BY <1>0, <1>6 DEF StartWrite, NoStaleBinding, TypeOK
<1>7. CASE StartWriteReturns
  BY <1>7 DEF StartWriteReturns
<1>8. CASE Close
  BY <1>8 DEF Close
<1>9. CASE CloseReturns
  BY <1>9 DEF CloseReturns
<1>10. ASSUME NEW p \in Pump, runPump(p) PROVE SwapWhileBound'
  BY <1>10 DEF runPump
<1>11. CASE UNCHANGED vars
  BY <1>11 DEF vars
<1> QED
  BY <1>1, <1>2, <1>3, <1>4, <1>5, <1>6, <1>7, <1>8, <1>9, <1>10, <1>11 DEF Next, Binding, Calls

\* No action loses track of a running pump.
LEMMA PumpsStep == ASSUME TypeOK, PumpsAccounted, [Next]_vars PROVE PumpsAccounted'
<1> USE LocalTrackAssumption DEF PumpsAccounted, pumpVars, pumpEnded
<1>1. ASSUME NEW c \in Ctx, Bind(c) PROVE PumpsAccounted'
  BY <1>1 DEF Bind
<1>2. ASSUME NEW c \in Ctx, BindLocked(c) PROVE PumpsAccounted'
  BY <1>2 DEF BindLocked, startPumpLocked
<1>3. ASSUME NEW c \in Ctx, Unbind(c) PROVE PumpsAccounted'
  BY <1>3 DEF Unbind
<1>4. ASSUME NEW c \in Ctx, UnbindLocked(c) PROVE PumpsAccounted'
  BY <1>4 DEF UnbindLocked, cancelPump
<1>5. ASSUME NEW c \in Ctx, UnbindReturns(c) PROVE PumpsAccounted'
  BY <1>5 DEF UnbindReturns
<1>6. ASSUME NEW new \in Provider, StartWrite(new) PROVE PumpsAccounted'
  BY <1>6 DEF StartWrite, cancelPump
<1>7. CASE StartWriteReturns
  BY <1>7 DEF StartWriteReturns, startPumpLocked
<1>8. CASE Close
  BY <1>8 DEF Close, cancelPump
<1>9. CASE CloseReturns
  BY <1>9 DEF CloseReturns
<1>10. ASSUME NEW p \in Pump, runPump(p) PROVE PumpsAccounted'
  BY <1>10 DEF runPump
<1>11. CASE UNCHANGED vars
  BY <1>11 DEF vars
<1> QED
  BY <1>1, <1>2, <1>3, <1>4, <1>5, <1>6, <1>7, <1>8, <1>9, <1>10, <1>11 DEF Next, Binding, Calls

\* A binding goes no later than its connection.
LEMMA BindingStep == ASSUME TypeOK, LockHeld, NoStaleBinding, [Next]_vars PROVE NoStaleBinding'
<1> USE LocalTrackAssumption DEF NoStaleBinding
<1>0. at \in [Ctx -> {"new", "bind", "bound", "unbind", "stopping"}] /\ binding \in Ctx \cup {None}
  BY DEF TypeOK
<1>1. ASSUME NEW c \in Ctx, Bind(c) PROVE NoStaleBinding'
  BY <1>0, <1>1 DEF Bind, Goes
<1>2. ASSUME NEW c \in Ctx, BindLocked(c) PROVE NoStaleBinding'
  BY <1>0, <1>2 DEF BindLocked, Goes
<1>3. ASSUME NEW c \in Ctx, Unbind(c) PROVE NoStaleBinding'
  BY <1>0, <1>3 DEF Unbind, Goes
<1>4. ASSUME NEW c \in Ctx, UnbindLocked(c) PROVE NoStaleBinding'
  BY <1>0, <1>4 DEF UnbindLocked, Goes
<1>5. ASSUME NEW c \in Ctx, UnbindReturns(c) PROVE NoStaleBinding'
  BY <1>0, <1>5 DEF UnbindReturns, Goes
<1>6. ASSUME NEW new \in Provider, StartWrite(new) PROVE NoStaleBinding'
  BY <1>6 DEF StartWrite
<1>7. CASE StartWriteReturns
  BY <1>7 DEF StartWriteReturns
<1>8. CASE Close
  BY <1>8 DEF Close
<1>9. CASE CloseReturns
  BY <1>9 DEF CloseReturns
<1>10. ASSUME NEW p \in Pump, runPump(p) PROVE NoStaleBinding'
  BY <1>10 DEF runPump
<1>11. CASE UNCHANGED vars
  BY <1>11 DEF vars
<1> QED
  BY <1>1, <1>2, <1>3, <1>4, <1>5, <1>6, <1>7, <1>8, <1>9, <1>10, <1>11 DEF Next, Binding, Calls

\* The last connection to go takes its pump with it.
LEMMA ServeStep ==
    ASSUME TypeOK, SwapWhileBound, PumpsAccounted, PumpsServe, [Next]_vars PROVE PumpsServe'
<1> USE LocalTrackAssumption DEF PumpsServe, pumpVars, pumpEnded
<1>0. at \in [Ctx -> {"new", "bind", "bound", "unbind", "stopping"}]
  BY DEF TypeOK
<1>1. ASSUME NEW c \in Ctx, Bind(c) PROVE PumpsServe'
  BY <1>0, <1>1 DEF Bind, Goes
<1>2. ASSUME NEW c \in Ctx, BindLocked(c) PROVE PumpsServe'
  <2>1. CASE at'[c] = "bound"
    BY <2>1
  <2>2. CASE running \subseteq {pump} \cup orphans /\ running' = running
             /\ orphans' = orphans \cup (running \cap {pump})
    BY <2>2
  <2> QED
    BY <1>0, <1>2, <2>1, <2>2 DEF BindLocked, Goes, PumpsAccounted
<1>3. ASSUME NEW c \in Ctx, Unbind(c) PROVE PumpsServe'
  BY <1>0, <1>3 DEF Unbind, Goes
<1>4. ASSUME NEW c \in Ctx, UnbindLocked(c) PROVE PumpsServe'
  BY <1>0, <1>4 DEF UnbindLocked, Goes
<1>5. ASSUME NEW c \in Ctx, UnbindReturns(c) PROVE PumpsServe'
  BY <1>5 DEF UnbindReturns, PumpsAccounted
<1>6. ASSUME NEW new \in Provider, StartWrite(new) PROVE PumpsServe'
  BY <1>6 DEF StartWrite, cancelPump
<1>7. CASE StartWriteReturns
  BY <1>7 DEF StartWriteReturns, SwapWhileBound
<1>8. CASE Close
  BY <1>8 DEF Close, cancelPump
<1>9. CASE CloseReturns
  BY <1>9 DEF CloseReturns
<1>10. ASSUME NEW p \in Pump, runPump(p) PROVE PumpsServe'
  BY <1>10 DEF runPump
<1>11. CASE UNCHANGED vars
  BY <1>11 DEF vars
<1> QED
  BY <1>1, <1>2, <1>3, <1>4, <1>5, <1>6, <1>7, <1>8, <1>9, <1>10, <1>11 DEF Next, Binding, Calls

-----------------------------------------------------------------------------
\* TrackInv holds of every reachable state of the track.
THEOREM TrackInductive == Spec => []TrackInv
<1>1. TrackInv /\ [Next]_vars => TrackInv'
  BY TrackTypeStep, LockStep, SwapStep, PumpsStep, BindingStep, ServeStep DEF TrackInv
<1>2. QED
  BY TrackInvInit, <1>1, PTL DEF Spec

\* Which steps may start a pump.
LEMMA StartStep == ASSUME TypeOK, SwapWhileBound, Next, closed PROVE running' \subseteq running
<1> USE DEF pumpVars
<1>1. ASSUME NEW c \in Ctx, Bind(c) PROVE running' \subseteq running
  BY <1>1 DEF Bind
<1>2. ASSUME NEW c \in Ctx, BindLocked(c) PROVE running' \subseteq running
  BY <1>2 DEF BindLocked, pumps
<1>3. ASSUME NEW c \in Ctx, Unbind(c) PROVE running' \subseteq running
  BY <1>3 DEF Unbind
<1>4. ASSUME NEW c \in Ctx, UnbindLocked(c) PROVE running' \subseteq running
  BY <1>4 DEF UnbindLocked, cancelPump
<1>5. ASSUME NEW c \in Ctx, UnbindReturns(c) PROVE running' \subseteq running
  BY <1>5 DEF UnbindReturns
<1>6. ASSUME NEW new \in Provider, StartWrite(new) PROVE running' \subseteq running
  BY <1>6 DEF StartWrite, cancelPump
<1>7. CASE StartWriteReturns
  BY <1>7 DEF StartWriteReturns, SwapWhileBound
<1>8. CASE Close
  BY <1>8 DEF Close
<1>9. CASE CloseReturns
  BY <1>9 DEF CloseReturns
<1>10. ASSUME NEW p \in Pump, runPump(p) PROVE running' \subseteq running
  BY <1>10 DEF runPump
<1> QED
  BY <1>1, <1>2, <1>3, <1>4, <1>5, <1>6, <1>7, <1>8, <1>9, <1>10 DEF Next, Binding, Calls

\* A Bind or StartWrite that began before Close starts no pump after it.
THEOREM ClosedStartsNothingCorrect == Spec => ClosedStartsNothing
<1>1. TrackInv /\ [Next]_vars => [closed => running' \subseteq running]_vars
  BY StartStep DEF TrackInv
<1>2. QED
  BY TrackInductive, <1>1, PTL DEF Spec, ClosedStartsNothing

\* A write loop that no Bind has left behind can be stopped through s.pump.
THEOREM PumpsAccountedCorrect == Spec => []PumpsAccounted
  BY TrackInductive, PTL DEF TrackInv

\* When pion has unbound the track from its last connection, its pump has ended.
THEOREM UnboundTrackSilentCorrect == Spec => []UnboundTrackSilent
<1>1. TrackInv => UnboundTrackSilent
  BY DEF TrackInv, PumpsServe, UnboundTrackSilent
<1>2. QED
  BY TrackInductive, <1>1, PTL

\* WriteSample never packetizes for a connection that Unbind has left.
THEOREM NoStaleBindingCorrect == Spec => []NoStaleBinding
  BY TrackInductive, PTL DEF TrackInv

\* A track follows Bind, Unbind, StartWrite and Close in whatever order they run.
THEOREM TrackFollowsCorrect == Spec => TrackFollows
<1>1. Spec => [](TypeOK /\ UnboundTrackSilent /\ NoStaleBinding)
  BY TrackInductive, UnboundTrackSilentCorrect, PTL DEF TrackInv
<1>2. QED
  BY <1>1, ClosedStartsNothingCorrect DEF TrackFollows
==============================================================================
