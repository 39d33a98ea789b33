----------------------- MODULE AnswerNegotiationProofs -----------------------
(***************************************************************************)
(* Proofs about AnswerNegotiation, for any number of ICE generations,      *)
(* offers, candidates and faults, and queues of any length.                *)
(***************************************************************************)
EXTENDS AnswerNegotiation, SequenceTheorems, TLAPS

\* Neither an offer nor a candidate overtakes an offer of an earlier generation.
GensOrdered(q) ==
    \A i, j \in 1 .. Len(q) : i < j /\ q[j].kind = "offer" =>
        /\ q[i].kind = "offer" => q[i].offer.gen <= q[j].offer.gen
        /\ q[i].kind = "remote" => q[i].candidate <= q[j].offer.gen

\* The offers of a queue are of generation gen or later.
OffersFrom(q, gen) == \A i \in 1 .. Len(q) : q[i].kind = "offer" => gen <= q[i].offer.gen

\* What the SFU has sent is of generation gen or earlier.
GensUpTo(q, gen) ==
    \A i \in 1 .. Len(q) :
        /\ q[i].kind = "offer" => q[i].offer.gen <= gen
        /\ q[i].kind = "remote" => q[i].candidate <= gen

\* Local candidates are of gathering gen or earlier.
LocalsUpTo(q, gen) == \A i \in 1 .. Len(q) : q[i].kind = "local" => q[i].gen <= gen

\* The SFU's generations only grow: what is applied, deferred or taken is not
\* newer than any offer still in the queue.
GensGrow ==
    /\ GensOrdered(answererQueue) /\ GensUpTo(answererQueue, sfuGen)
    /\ OffersFrom(answererQueue, remoteUfrag) /\ OffersFrom(answererQueue, deferredOffer.gen)
    /\ \A c \in taken : OffersFrom(answererQueue, c) /\ c <= sfuGen
    /\ remoteUfrag <= sfuGen /\ deferredOffer.gen <= sfuGen

\* A deferred offer has its id remembered, and is not older than the one applied.
DeferredKnown ==
    deferredOffer # NoOffer =>
        remoteNegotiationID = deferredOffer.id /\ remoteUfrag <= deferredOffer.gen

\* The credential a restart is recognised by is the one that is applied.
SameCredential == offerCredential = remoteUfrag

\* Outside OnAnswer, the answer of every gathering has been sent or has failed.
AnswersOut ==
    /\ answerLoop # "answering" => announced = localGen
    /\ LocalsUpTo(answererQueue, localGen)

IInv ==
    /\ AnswerTypeOK /\ GensGrow /\ DeferredKnown /\ SameCredential /\ AnswersOut
    /\ AnswerEchoesOffer /\ CandidatesKept /\ CandidatesFollowAnswer

-----------------------------------------------------------------------------
(* The queue. *)

\* What an event carries depends on its kind.
LEMMA EventFields ==
    ASSUME NEW ev \in AnswererEvent
    PROVE  /\ ev.kind = "offer" => ev.offer \in Offer
           /\ ev.kind = "remote" => ev.candidate \in Candidate
           /\ ev.kind = "local" => ev.gen \in Nat
<1>1. CASE ev \in [kind : {"offer"}, offer : Offer]
  BY <1>1
<1>2. CASE ev \in [kind : {"remote"}, candidate : Candidate]
  BY <1>2
<1>3. CASE ev \in [kind : {"local"}, gen : Nat]
  BY <1>3
<1>4. CASE ev \in [kind : {"gathered", "failed"}]
  BY <1>4
<1> QED
  BY <1>1, <1>2, <1>3, <1>4 DEF AnswererEvent

\* Taking the head of the queue keeps what is known of the rest; the rest does
\* not go back behind an offer or a candidate that was taken.
LEMMA TailQueue ==
    ASSUME NEW q \in Seq(AnswererEvent), q # <<>>
    PROVE  /\ Tail(q) \in Seq(AnswererEvent) /\ Head(q) \in AnswererEvent
           /\ GensOrdered(q) => GensOrdered(Tail(q))
           /\ \A g \in Nat : OffersFrom(q, g) => OffersFrom(Tail(q), g)
           /\ \A g \in Nat : GensUpTo(q, g) => GensUpTo(Tail(q), g)
           /\ \A g \in Nat : LocalsUpTo(q, g) => LocalsUpTo(Tail(q), g)
           /\ GensOrdered(q) /\ Head(q).kind = "offer" => OffersFrom(Tail(q), Head(q).offer.gen)
           /\ GensOrdered(q) /\ Head(q).kind = "remote" => OffersFrom(Tail(q), Head(q).candidate)
<1>1. /\ Tail(q) \in Seq(AnswererEvent) /\ Len(Tail(q)) = Len(q) - 1 /\ Len(q) \in Nat
      /\ \A i \in 1 .. Len(Tail(q)) : Tail(q)[i] = q[i + 1] /\ i + 1 \in 1 .. Len(q)
  BY HeadTailProperties
<1>2. Head(q) \in AnswererEvent /\ Head(q) = q[1] /\ 1 \in 1 .. Len(q)
  BY HeadTailProperties, EmptySeq
<1>3. GensOrdered(q) => GensOrdered(Tail(q))
  BY <1>1 DEF GensOrdered
<1>4. \A g \in Nat : OffersFrom(q, g) => OffersFrom(Tail(q), g)
  BY <1>1 DEF OffersFrom
<1>5. \A g \in Nat : GensUpTo(q, g) => GensUpTo(Tail(q), g)
  BY <1>1 DEF GensUpTo
<1>6. \A g \in Nat : LocalsUpTo(q, g) => LocalsUpTo(Tail(q), g)
  BY <1>1 DEF LocalsUpTo
<1>7. GensOrdered(q) /\ Head(q).kind = "offer" => OffersFrom(Tail(q), Head(q).offer.gen)
  BY <1>1, <1>2 DEF GensOrdered, OffersFrom
<1>8. GensOrdered(q) /\ Head(q).kind = "remote" => OffersFrom(Tail(q), Head(q).candidate)
  BY <1>1, <1>2 DEF GensOrdered, OffersFrom
<1> QED
  BY <1>1, <1>2, <1>3, <1>4, <1>5, <1>6, <1>7, <1>8

\* An event at the end of the queue that is no offer, and a candidate or a
\* gathering that is not ahead of its time.
LEMMA AppendEvent ==
    ASSUME NEW q \in Seq(AnswererEvent), NEW ev \in AnswererEvent
    PROVE  /\ Append(q, ev) \in Seq(AnswererEvent)
           /\ GensOrdered(q) /\ ev.kind # "offer" => GensOrdered(Append(q, ev))
           /\ \A g \in Nat : OffersFrom(q, g) /\ ev.kind # "offer" => OffersFrom(Append(q, ev), g)
           /\ \A g \in Nat : GensUpTo(q, g) /\ ev.kind # "offer"
                  /\ (ev.kind = "remote" => ev.candidate <= g) => GensUpTo(Append(q, ev), g)
           /\ \A g \in Nat : LocalsUpTo(q, g) /\ (ev.kind = "local" => ev.gen <= g)
                  => LocalsUpTo(Append(q, ev), g)
<1>1. /\ Append(q, ev) \in Seq(AnswererEvent) /\ Len(Append(q, ev)) = Len(q) + 1 /\ Len(q) \in Nat
      /\ \A i \in 1 .. Len(q) : Append(q, ev)[i] = q[i]
      /\ Append(q, ev)[Len(q) + 1] = ev
  BY AppendProperties
<1>2. GensOrdered(q) /\ ev.kind # "offer" => GensOrdered(Append(q, ev))
  BY <1>1 DEF GensOrdered
<1>3. \A g \in Nat : OffersFrom(q, g) /\ ev.kind # "offer" => OffersFrom(Append(q, ev), g)
  BY <1>1 DEF OffersFrom
<1>4. \A g \in Nat : GensUpTo(q, g) /\ ev.kind # "offer"
          /\ (ev.kind = "remote" => ev.candidate <= g) => GensUpTo(Append(q, ev), g)
  BY <1>1 DEF GensUpTo
<1>5. \A g \in Nat : LocalsUpTo(q, g) /\ (ev.kind = "local" => ev.gen <= g)
          => LocalsUpTo(Append(q, ev), g)
  BY <1>1 DEF LocalsUpTo
<1> QED
  BY <1>1, <1>2, <1>3, <1>4, <1>5

\* An offer of the SFU's present generation.
LEMMA AppendOffer ==
    ASSUME NEW q \in Seq(AnswererEvent), NEW ev \in AnswererEvent, ev.kind = "offer",
           ev.offer.gen \in Nat, GensUpTo(q, ev.offer.gen)
    PROVE  /\ GensOrdered(q) => GensOrdered(Append(q, ev))
           /\ \A g \in Nat : OffersFrom(q, g) /\ g <= ev.offer.gen => OffersFrom(Append(q, ev), g)
           /\ GensUpTo(Append(q, ev), ev.offer.gen)
<1>1. /\ Len(Append(q, ev)) = Len(q) + 1 /\ Len(q) \in Nat
      /\ \A i \in 1 .. Len(q) : Append(q, ev)[i] = q[i]
      /\ Append(q, ev)[Len(q) + 1] = ev
  BY AppendProperties
<1>2. GensOrdered(q) => GensOrdered(Append(q, ev))
  BY <1>1, SMTT(30) DEF GensOrdered, GensUpTo
<1>3. \A g \in Nat : OffersFrom(q, g) /\ g <= ev.offer.gen => OffersFrom(Append(q, ev), g)
  BY <1>1 DEF OffersFrom
<1>4. GensUpTo(Append(q, ev), ev.offer.gen)
  BY <1>1 DEF GensUpTo
<1> QED
  BY <1>2, <1>3, <1>4

\* A bound on the generations of a queue may grow.
LEMMA BoundsGrow ==
    ASSUME NEW q \in Seq(AnswererEvent), NEW g \in Nat, NEW h \in Nat, g <= h
    PROVE  (GensUpTo(q, g) => GensUpTo(q, h)) /\ (LocalsUpTo(q, g) => LocalsUpTo(q, h))
<1>1. \A i \in 1 .. Len(q) : q[i] \in AnswererEvent
  OBVIOUS
<1>2. ASSUME NEW i \in 1 .. Len(q)
      PROVE  /\ q[i].kind = "offer" => q[i].offer.gen \in Nat
             /\ q[i].kind = "remote" => q[i].candidate \in Nat
             /\ q[i].kind = "local" => q[i].gen \in Nat
  BY <1>1, <1>2, EventFields, AnswerAssumption DEF Offer, Candidate
<1>3. GensUpTo(q, g) => GensUpTo(q, h)
  BY <1>2 DEF GensUpTo
<1>4. LocalsUpTo(q, g) => LocalsUpTo(q, h)
  BY <1>2 DEF LocalsUpTo
<1> QED
  BY <1>3, <1>4

-----------------------------------------------------------------------------
(* The invariant. *)

\* A transport that has neither offers nor candidates.
LEMMA IInvInit == AnswerInit => IInv
<1> SUFFICES ASSUME AnswerInit PROVE IInv
  OBVIOUS
<1>1. AnswerTypeOK
  <2>1. answererQueue \in Seq(AnswererEvent) /\ candidateQueue \in Seq(Nat)
    BY EmptySeq DEF AnswerInit
  <2>2. answererClosed \in BOOLEAN
    BY DEF AnswerInit
  <2>3. /\ remoteNegotiationID \in 0 .. MaxOffers /\ offerCredential \in 0 .. MaxGen
        /\ remoteUfrag \in 0 .. MaxGen /\ sfuGen \in 1 .. MaxGen /\ offers \in 0 .. MaxOffers
        /\ answerFaults \in 0 .. MaxAnswerFaults
    BY AnswerAssumption DEF AnswerInit
  <2> QED
    BY <2>1, <2>2, <2>3 DEF AnswerInit, AnswerTypeOK
<1>2. GensGrow /\ AnswersOut /\ CandidatesFollowAnswer
  BY DEF AnswerInit, GensGrow, GensOrdered, GensUpTo, OffersFrom, AnswersOut, LocalsUpTo,
         CandidatesFollowAnswer, NoOffer
<1>3. DeferredKnown /\ SameCredential /\ AnswerEchoesOffer /\ CandidatesKept
  BY DEF AnswerInit, DeferredKnown, SameCredential, AnswerEchoesOffer, CandidatesKept
<1> QED
  BY <1>1, <1>2, <1>3 DEF IInv

\* A fault uses up one of those left, and a request for an ICE restart is counted
\* up to its limit.
LEMMA FaultType == ASSUME AnswerTypeOK, AnswerFault PROVE answerFaults' \in 0 .. MaxAnswerFaults
BY AnswerAssumption DEF AnswerTypeOK, AnswerFault

LEMMA FailedType == ASSUME AnswerTypeOK, OnNegotiationFailed PROVE iceRestartRequestNum' \in 0 .. 4
BY DEF AnswerTypeOK, OnNegotiationFailed

\* A description that is applied.
LEMMA AppliesType ==
    ASSUME AnswerTypeOK, NEW o \in Offer, NEW gathers \in BOOLEAN, setRemoteDescription(o, gathers)
    PROVE  /\ remoteUfrag' = o.gen /\ offerCredential' = o.gen /\ o.gen \in 1 .. MaxGen
           /\ pending' = {} /\ applied' \in SUBSET (Candidate \X (1 .. MaxGen))
           /\ dropped' \in SUBSET Candidate
           /\ answererGathering' \in {"new", "gathering", "complete"}
           /\ localGen' \in {localGen, localGen + 1} /\ found' = found
<1>1. o.gen \in 1 .. MaxGen
  BY DEF Offer
<1>2. appliesPending(o.gen) \subseteq Candidate \X (1 .. MaxGen)
  BY <1>1 DEF appliesPending, AnswerTypeOK
<1>3. applied' \in SUBSET (Candidate \X (1 .. MaxGen))
  BY <1>2 DEF setRemoteDescription, AnswerTypeOK
<1>4. dropped' \in SUBSET Candidate
  BY DEF setRemoteDescription, AnswerTypeOK
<1>5. answererGathering' \in {"new", "gathering", "complete"} /\ localGen' \in {localGen, localGen + 1}
  BY DEF setRemoteDescription, AnswerTypeOK
<1> QED
  BY <1>1, <1>3, <1>4, <1>5 DEF setRemoteDescription

\* What acceptOffer changes keeps its type, whichever way it ends.
AcceptTypeOK ==
    /\ answerLoop \in {"idle", "answering", "done"} /\ answer \in [id : Nat, of : Nat]
    /\ remoteNegotiationID \in 0 .. MaxOffers /\ offerCredential \in 0 .. MaxGen
    /\ remoteUfrag \in 0 .. MaxGen /\ deferredOffer \in Offer \cup {NoOffer}
    /\ pending \in SUBSET Candidate /\ iceRestartRequestNum \in 0 .. 4
    /\ answererGathering \in {"new", "gathering", "complete"}
    /\ localGen \in Nat /\ found \in 0 .. localGen /\ announced \in 0 .. localGen
    /\ applied \in SUBSET (Candidate \X (1 .. MaxGen)) /\ dropped \in SUBSET Candidate
    /\ answerFaults \in 0 .. MaxAnswerFaults

LEMMA AcceptType ==
    ASSUME AnswerTypeOK, NEW o \in Offer, NEW id \in 0 .. MaxOffers, acceptOffer(o, id)
    PROVE  AcceptTypeOK'
<1> DEFINE restart == offerCredential # 0 /\ o.gen # offerCredential
<1> USE DEF AcceptTypeOK, loopVars, localVars
<1>1. CASE defersOffer(o, id) /\ UNCHANGED <<loopVars, offerCredential, remoteUfrag, pending, applied,
             dropped, localVars, iceRestartRequestNum, answerFaults>>
  BY <1>1 DEF defersOffer, AnswerTypeOK
<1>2. CASE /\ remoteNegotiationID' = id /\ deferredOffer' = NoOffer
           /\ setRemoteDescription(o, restart \/ answererGathering = "new")
           /\ answerLoop' = "answering" /\ answer' = [id |-> id, of |-> o.id]
           /\ UNCHANGED <<announced, iceRestartRequestNum, answerFaults>>
  <2>1. answer' \in [id : Nat, of : Nat]
    BY <1>2, AnswerAssumption DEF Offer
  <2>2. /\ remoteUfrag' = o.gen /\ offerCredential' = o.gen /\ o.gen \in 1 .. MaxGen
        /\ pending' = {} /\ applied' \in SUBSET (Candidate \X (1 .. MaxGen))
        /\ dropped' \in SUBSET Candidate
        /\ answererGathering' \in {"new", "gathering", "complete"}
        /\ localGen' \in {localGen, localGen + 1} /\ found' = found
    BY <1>2, AppliesType, Zenon
  <2> QED
    BY <1>2, <2>1, <2>2, AnswerAssumption DEF AnswerTypeOK
<1>3. CASE /\ remoteNegotiationID' = id /\ deferredOffer' = NoOffer
           /\ AnswerFault /\ OnNegotiationFailed /\ setRemoteDescription(o, restart)
           /\ announced' = localGen' /\ UNCHANGED loopVars
  <2>1. /\ remoteUfrag' = o.gen /\ offerCredential' = o.gen /\ o.gen \in 1 .. MaxGen
        /\ pending' = {} /\ applied' \in SUBSET (Candidate \X (1 .. MaxGen))
        /\ dropped' \in SUBSET Candidate
        /\ answererGathering' \in {"new", "gathering", "complete"}
        /\ localGen' \in {localGen, localGen + 1} /\ found' = found
    BY <1>3, AppliesType, Zenon
  <2>2. answerFaults' \in 0 .. MaxAnswerFaults /\ iceRestartRequestNum' \in 0 .. 4
    BY <1>3, FaultType, FailedType
  <2> QED
    BY <1>3, <2>1, <2>2, AnswerAssumption DEF AnswerTypeOK
<1>4. CASE /\ remoteNegotiationID' = id /\ deferredOffer' = NoOffer
           /\ AnswerFault /\ OnNegotiationFailed
           /\ UNCHANGED <<loopVars, offerCredential, remoteUfrag, pending, applied, dropped, localVars>>
  BY <1>4, FaultType, FailedType DEF AnswerTypeOK
<1> QED
  BY <1>1, <1>2, <1>3, <1>4 DEF acceptOffer

\* Events enter the queue at its end, and none once it is closed.
LEMMA EnqueueType ==
    ASSUME answererQueue \in Seq(AnswererEvent), NEW ev \in AnswererEvent, enqueue(ev)
    PROVE  answererQueue' \in Seq(AnswererEvent)
BY AppendProperties DEF enqueue

\* Every action keeps the types.
LEMMA TypeStep == ASSUME AnswerTypeOK, [AnswerNext]_answerVars PROVE AnswerTypeOK'
<1> USE AnswerAssumption DEF AnswerTypeOK, loopVars, remoteVars, candVars, localVars, sfuVars
<1>1. ASSUME NEW kind, AnswererTakes(kind)
      PROVE  /\ answererQueue' \in Seq(AnswererEvent) /\ Head(answererQueue) \in AnswererEvent
             /\ Head(answererQueue).kind = kind
  BY <1>1, TailQueue DEF AnswererTakes
<1>2. CASE OnSubscriberOffer
  <2> DEFINE ev == [kind |-> "offer", offer |-> [id |-> offers + 1, gen |-> sfuGen]]
  <2>1. ev \in AnswererEvent
    BY <1>2 DEF OnSubscriberOffer, AnswererEvent, Offer
  <2>2. answererQueue' \in Seq(AnswererEvent)
    BY <1>2, <2>1, EnqueueType DEF OnSubscriberOffer
  <2> QED
    BY <1>2, <2>2 DEF OnSubscriberOffer
<1>3. CASE SfuRestarts
  BY <1>3 DEF SfuRestarts
<1>4. ASSUME NEW c \in Candidate, OnIceTrickle(c) PROVE AnswerTypeOK'
  <2>1. [kind |-> "remote", candidate |-> c] \in AnswererEvent
    BY DEF AnswererEvent
  <2>2. answererQueue' \in Seq(AnswererEvent)
    BY <1>4, <2>1, EnqueueType DEF OnIceTrickle
  <2> QED
    BY <1>4, <2>2 DEF OnIceTrickle
<1>5. CASE HandleRemoteOffer
  <2> DEFINE o == Head(answererQueue).offer
  <2>1. o \in Offer /\ o.id \in 0 .. MaxOffers
    <3>1. AnswererTakes("offer")
      BY ONLY <1>5 DEF HandleRemoteOffer
    <3>2. o \in Offer
      BY ONLY <3>1, <1>1, EventFields
    <3> QED
      BY ONLY <3>2, AnswerAssumption DEF Offer
  <2>2. AcceptTypeOK'
    BY <1>5, <2>1, AcceptType DEF HandleRemoteOffer
  <2> QED
    BY <1>1, <1>5, <2>2 DEF HandleRemoteOffer, AcceptTypeOK
<1>6. CASE onGatheringComplete
  <2>1. AcceptTypeOK'
    <3>1. CASE deferredOffer # NoOffer
      BY <1>6, <3>1, AcceptType DEF onGatheringComplete
    <3>2. CASE deferredOffer = NoOffer
      BY <1>6, <3>2 DEF onGatheringComplete, AcceptTypeOK
    <3> QED
      BY <3>1, <3>2
  <2> QED
    BY <1>1, <1>6, <2>1 DEF onGatheringComplete, AcceptTypeOK
<1>7. CASE addRemoteCandidate
  <2> DEFINE c == Head(answererQueue).candidate
  <2>1. c \in Candidate
    BY <1>1, <1>7, EventFields DEF addRemoteCandidate
  <2>2. taken' \in SUBSET Candidate /\ pending' \in SUBSET Candidate
    BY <1>7, <2>1 DEF addRemoteCandidate
  <2>3. applied' \in SUBSET (Candidate \X (1 .. MaxGen))
    BY <1>7, <2>1 DEF addRemoteCandidate
  <2> QED
    BY <1>1, <1>7, <2>2, <2>3 DEF addRemoteCandidate
<1>8. CASE queueCandidate
  <2>1. Head(answererQueue).gen \in Nat
    BY <1>1, <1>8, EventFields DEF queueCandidate
  <2>2. candidateQueue' \in Seq(Nat)
    BY <1>8, <2>1, AppendProperties DEF queueCandidate
  <2> QED
    BY <1>1, <1>8, <2>2 DEF queueCandidate
<1>9. CASE HandleFailed
  BY <1>1, <1>9, FailedType DEF HandleFailed
<1>10. CASE OnAnswer
  <2>1. answerFaults' \in 0 .. MaxAnswerFaults /\ iceRestartRequestNum' \in 0 .. 4
    BY <1>10, FailedType, FaultType DEF OnAnswer
  <2> QED
    BY <1>10, <2>1 DEF OnAnswer
<1>11. CASE runAnswerer
  BY <1>11 DEF runAnswerer
<1>12. CASE OnICECandidate
  <2>1. [kind |-> "local", gen |-> localGen] \in AnswererEvent
    BY DEF AnswererEvent
  <2>2. answererQueue' \in Seq(AnswererEvent)
    BY <1>12, <2>1, EnqueueType DEF OnICECandidate
  <2> QED
    BY <1>12, <2>2 DEF OnICECandidate
<1>13. CASE AnswererGathers
  <2>1. [kind |-> "gathered"] \in AnswererEvent
    BY DEF AnswererEvent
  <2>2. answererQueue' \in Seq(AnswererEvent)
    BY <1>13, <2>1, EnqueueType DEF AnswererGathers
  <2> QED
    BY <1>13, <2>2 DEF AnswererGathers
<1>14. CASE sendCandidates
  <2>1. [kind |-> "failed"] \in AnswererEvent
    BY DEF AnswererEvent
  <2>2. answererQueue' \in Seq(AnswererEvent) /\ answerFaults' \in 0 .. MaxAnswerFaults
    BY <1>14, <2>1, EnqueueType, FaultType DEF sendCandidates
  <2>3. candidateQueue' \in Seq(Nat)
    BY <1>14, HeadTailProperties DEF sendCandidates
  <2> QED
    BY <1>14, <2>2, <2>3 DEF sendCandidates
<1>15. CASE CloseAnswerer
  <2>1. answererQueue' \in Seq(AnswererEvent) /\ answererClosed' \in BOOLEAN
    BY <1>15, EmptySeq DEF CloseAnswerer
  <2> QED
    BY <1>15, <2>1 DEF CloseAnswerer
<1>16. CASE UNCHANGED answerVars
  BY <1>16 DEF answerVars
<1> QED
  BY <1>2, <1>3, <1>4, <1>5, <1>6, <1>7, <1>8, <1>9, <1>10, <1>11, <1>12, <1>13, <1>14, <1>15, <1>16
     DEF AnswerNext, AnswerLoop

\* acceptOffer leaves the description alone, when the offer is deferred or fails
\* to apply, or applies it: never while ICE gathers and the credential changes.
LEMMA AcceptEffect ==
    ASSUME NEW o, NEW id, acceptOffer(o, id)
    PROVE  /\ remoteNegotiationID' = id
           /\ \/ /\ deferredOffer' \in {o, NoOffer}
                 /\ UNCHANGED <<remoteUfrag, offerCredential, pending, applied, dropped, localVars, loopVars>>
              \/ /\ deferredOffer' = NoOffer
                 /\ \E gathers \in BOOLEAN : setRemoteDescription(o, gathers)
                 /\ \/ answerLoop' = "answering" /\ answer' = [id |-> id, of |-> o.id]
                         /\ announced' = announced
                    \/ announced' = localGen' /\ UNCHANGED loopVars
                 /\ answererGathering = "gathering" => offerCredential \in {0, o.gen}
<1> DEFINE restart == offerCredential # 0 /\ o.gen # offerCredential
<1>1. CASE defers(restart) /\ defersOffer(o, id) /\ UNCHANGED <<loopVars, offerCredential, remoteUfrag,
             pending, applied, dropped, localVars, iceRestartRequestNum, answerFaults>>
  BY <1>1 DEF defersOffer
<1>2. CASE /\ ~defers(restart) /\ remoteNegotiationID' = id /\ deferredOffer' = NoOffer
           /\ setRemoteDescription(o, restart \/ answererGathering = "new")
           /\ answerLoop' = "answering" /\ answer' = [id |-> id, of |-> o.id]
           /\ UNCHANGED <<announced, iceRestartRequestNum, answerFaults>>
  <2>1. answererGathering = "gathering" => offerCredential \in {0, o.gen}
    BY <1>2 DEF defers
  <2>2. \E gathers \in BOOLEAN : setRemoteDescription(o, gathers)
    BY <1>2, Zenon
  <2> QED
    BY <1>2, <2>1, <2>2
<1>3. CASE /\ ~defers(restart) /\ remoteNegotiationID' = id /\ deferredOffer' = NoOffer
           /\ AnswerFault /\ OnNegotiationFailed /\ setRemoteDescription(o, restart)
           /\ announced' = localGen' /\ UNCHANGED loopVars
  <2>1. answererGathering = "gathering" => offerCredential \in {0, o.gen}
    BY <1>3 DEF defers
  <2>2. \E gathers \in BOOLEAN : setRemoteDescription(o, gathers)
    BY <1>3, Zenon
  <2> QED
    BY <1>3, <2>1, <2>2
<1>4. CASE /\ remoteNegotiationID' = id /\ deferredOffer' = NoOffer
           /\ UNCHANGED <<loopVars, offerCredential, remoteUfrag, pending, applied, dropped, localVars>>
  BY <1>4
<1> QED
  BY <1>1, <1>2, <1>3, <1>4 DEF acceptOffer

\* What the loop knows of the rest of the queue when it has taken an event.
LEMMA TakesKeeps ==
    ASSUME AnswerTypeOK, GensGrow, AnswersOut, NEW kind, AnswererTakes(kind)
    PROVE  /\ answererQueue' \in Seq(AnswererEvent) /\ GensOrdered(answererQueue')
           /\ GensUpTo(answererQueue', sfuGen) /\ LocalsUpTo(answererQueue', localGen)
           /\ OffersFrom(answererQueue', remoteUfrag) /\ OffersFrom(answererQueue', deferredOffer.gen)
           /\ \A c \in taken : OffersFrom(answererQueue', c)
           /\ Head(answererQueue) \in AnswererEvent /\ Head(answererQueue).kind = kind
           /\ kind = "offer" =>
                /\ OffersFrom(answererQueue', Head(answererQueue).offer.gen)
                /\ Head(answererQueue).offer.gen <= sfuGen
                /\ remoteUfrag <= Head(answererQueue).offer.gen
                /\ \A c \in taken : c <= Head(answererQueue).offer.gen
           /\ kind = "remote" =>
                /\ OffersFrom(answererQueue', Head(answererQueue).candidate)
                /\ Head(answererQueue).candidate <= sfuGen
           /\ kind = "local" => Head(answererQueue).gen <= localGen
<1> DEFINE q == answererQueue
<1>1. q \in Seq(AnswererEvent) /\ q # <<>> /\ q' = Tail(q) /\ Head(q).kind = kind
  BY DEF AnswerTypeOK, AnswererTakes
<1>2. Head(q) = q[1] /\ 1 \in 1 .. Len(q)
  BY <1>1, HeadTailProperties, EmptySeq
<1>3. /\ sfuGen \in Nat /\ localGen \in Nat /\ remoteUfrag \in Nat /\ deferredOffer.gen \in Nat
      /\ taken \subseteq Nat
  BY AnswerAssumption DEF AnswerTypeOK, Offer, NoOffer, Candidate
<1>4. /\ q' \in Seq(AnswererEvent) /\ GensOrdered(q') /\ GensUpTo(q', sfuGen) /\ LocalsUpTo(q', localGen)
      /\ OffersFrom(q', remoteUfrag) /\ OffersFrom(q', deferredOffer.gen)
      /\ \A c \in taken : OffersFrom(q', c)
      /\ Head(q) \in AnswererEvent
  BY <1>1, <1>3, TailQueue DEF GensGrow, AnswersOut
<1>5. ASSUME kind = "offer"
      PROVE  /\ OffersFrom(q', Head(q).offer.gen) /\ Head(q).offer.gen <= sfuGen
             /\ remoteUfrag <= Head(q).offer.gen /\ \A c \in taken : c <= Head(q).offer.gen
  <2>1. OffersFrom(q', Head(q).offer.gen)
    BY <1>1, <1>5, TailQueue DEF GensGrow
  <2>2. Head(q).offer.gen <= sfuGen
    BY <1>1, <1>2, <1>5 DEF GensGrow, GensUpTo
  <2>3. remoteUfrag <= Head(q).offer.gen /\ \A c \in taken : c <= Head(q).offer.gen
    BY <1>1, <1>2, <1>5 DEF GensGrow, OffersFrom
  <2> QED
    BY <2>1, <2>2, <2>3
<1>6. ASSUME kind = "remote"
      PROVE  OffersFrom(q', Head(q).candidate) /\ Head(q).candidate <= sfuGen
  <2>1. OffersFrom(q', Head(q).candidate)
    BY <1>1, <1>6, TailQueue DEF GensGrow
  <2>2. Head(q).candidate <= sfuGen
    BY <1>1, <1>2, <1>6 DEF GensGrow, GensUpTo
  <2> QED
    BY <2>1, <2>2
<1>7. kind = "local" => Head(q).gen <= localGen
  BY <1>1, <1>2 DEF AnswersOut, LocalsUpTo
<1> QED
  BY <1>1, <1>4, <1>5, <1>6, <1>7

\* What the loop does with an offer keeps the order of the generations.
LEMMA AcceptGens ==
    ASSUME AnswerTypeOK, GensGrow, NEW o \in Offer, NEW id, acceptOffer(o, id),
           UNCHANGED <<taken, sfuGen>>, GensOrdered(answererQueue'), GensUpTo(answererQueue', sfuGen),
           OffersFrom(answererQueue', remoteUfrag), OffersFrom(answererQueue', o.gen),
           \A c \in taken : OffersFrom(answererQueue', c), o.gen <= sfuGen,
           answererQueue' \in Seq(AnswererEvent)
    PROVE  GensGrow'
<1>1. remoteUfrag' \in {remoteUfrag, o.gen}
  BY AcceptEffect DEF setRemoteDescription
<1>2. deferredOffer' \in {o, NoOffer}
  BY AcceptEffect
<1>3. OffersFrom(answererQueue', 0)
  <2> SUFFICES ASSUME NEW i \in 1 .. Len(answererQueue'), answererQueue'[i].kind = "offer"
               PROVE  0 <= answererQueue'[i].offer.gen
    BY DEF OffersFrom
  <2>1. answererQueue'[i] \in AnswererEvent
    OBVIOUS
  <2>2. answererQueue'[i].offer \in Offer
    BY <2>1, EventFields
  <2> QED
    BY <2>2, AnswerAssumption DEF Offer
<1>4. OffersFrom(answererQueue', deferredOffer'.gen) /\ deferredOffer'.gen <= sfuGen
  BY <1>2, <1>3 DEF NoOffer, AnswerTypeOK
<1>5. OffersFrom(answererQueue', remoteUfrag') /\ remoteUfrag' <= sfuGen
  BY <1>1 DEF GensGrow
<1> QED
  BY <1>4, <1>5 DEF GensGrow

\* An event that is no offer keeps the order of the generations.
LEMMA EnqueueKeeps ==
    ASSUME AnswerTypeOK, GensGrow, AnswersOut, NEW ev \in AnswererEvent, enqueue(ev),
           ev.kind # "offer", ev.kind = "remote" => ev.candidate <= sfuGen,
           ev.kind = "local" => ev.gen <= localGen
    PROVE  /\ GensOrdered(answererQueue') /\ GensUpTo(answererQueue', sfuGen)
           /\ LocalsUpTo(answererQueue', localGen)
           /\ OffersFrom(answererQueue', remoteUfrag) /\ OffersFrom(answererQueue', deferredOffer.gen)
           /\ \A c \in taken : OffersFrom(answererQueue', c)
<1>1. answererQueue' = answererQueue \/ answererQueue' = Append(answererQueue, ev)
  BY DEF enqueue
<1>2. /\ answererQueue \in Seq(AnswererEvent) /\ sfuGen \in Nat /\ localGen \in Nat
      /\ remoteUfrag \in Nat /\ deferredOffer.gen \in Nat /\ taken \subseteq Nat
  BY AnswerAssumption DEF AnswerTypeOK, Offer, NoOffer, Candidate
<1>3. CASE answererQueue' = answererQueue
  BY <1>3 DEF GensGrow, AnswersOut
<1>4. CASE answererQueue' = Append(answererQueue, ev)
  BY <1>2, <1>4, AppendEvent DEF GensGrow, AnswersOut
<1> QED
  BY <1>1, <1>3, <1>4

\* Every action keeps the order of the generations.
LEMMA GensGrowStep ==
    ASSUME AnswerTypeOK, GensGrow, AnswersOut, [AnswerNext]_answerVars
    PROVE  GensGrow'
<1> USE DEF loopVars, remoteVars, candVars, localVars, sfuVars
<1>0. /\ answererQueue \in Seq(AnswererEvent) /\ sfuGen \in Nat
      /\ remoteUfrag \in Nat /\ deferredOffer.gen \in Nat /\ taken \subseteq Nat
  BY AnswerAssumption DEF AnswerTypeOK, Offer, NoOffer, Candidate
<1>1. CASE OnSubscriberOffer
  <2> DEFINE ev == [kind |-> "offer", offer |-> [id |-> offers + 1, gen |-> sfuGen]]
  <2>1. ev \in AnswererEvent /\ ev.kind = "offer" /\ ev.offer.gen = sfuGen
    BY <1>1, AnswerAssumption DEF OnSubscriberOffer, AnswererEvent, Offer, AnswerTypeOK
  <2>2. answererQueue' = answererQueue \/ answererQueue' = Append(answererQueue, ev)
    BY <1>1 DEF OnSubscriberOffer, enqueue
  <2> HIDE DEF ev
  <2>3. CASE answererQueue' = answererQueue
    BY <1>1, <2>3 DEF OnSubscriberOffer, GensGrow
  <2>4. CASE answererQueue' = Append(answererQueue, ev)
    <3>1. /\ GensOrdered(answererQueue') /\ GensUpTo(answererQueue', sfuGen)
          /\ \A g \in Nat : OffersFrom(answererQueue, g) /\ g <= sfuGen => OffersFrom(answererQueue', g)
      BY <1>0, <2>1, <2>4, AppendOffer DEF GensGrow
    <3> QED
      BY <1>0, <1>1, <3>1 DEF OnSubscriberOffer, GensGrow
  <2> QED
    BY <2>2, <2>3, <2>4
<1>2. CASE SfuRestarts
  <2>1. GensUpTo(answererQueue, sfuGen + 1)
    BY <1>0, BoundsGrow DEF GensGrow
  <2> QED
    BY <1>0, <1>2, <2>1 DEF SfuRestarts, GensGrow
<1>3. ASSUME NEW c \in Candidate, OnIceTrickle(c) PROVE GensGrow'
  <2>1. [kind |-> "remote", candidate |-> c] \in AnswererEvent /\ c <= sfuGen
    BY <1>3, AnswerAssumption DEF AnswererEvent, OnIceTrickle, Candidate
  <2> QED
    BY <1>3, <2>1, EnqueueKeeps DEF OnIceTrickle, GensGrow
<1>4. CASE HandleRemoteOffer
  <2> DEFINE o == Head(answererQueue).offer
  <2>1. AnswererTakes("offer") /\ acceptOffer(o, o.id) /\ UNCHANGED <<taken, sfuGen>>
    BY <1>4 DEF HandleRemoteOffer
  <2>2. /\ answererQueue' \in Seq(AnswererEvent) /\ GensOrdered(answererQueue')
        /\ GensUpTo(answererQueue', sfuGen) /\ OffersFrom(answererQueue', remoteUfrag)
        /\ \A c \in taken : OffersFrom(answererQueue', c)
        /\ OffersFrom(answererQueue', o.gen) /\ o.gen <= sfuGen /\ o \in Offer
    BY <2>1, TakesKeeps, EventFields
  <2> QED
    BY <2>1, <2>2, AcceptGens
<1>5. CASE onGatheringComplete
  <2>1. AnswererTakes("gathered") /\ UNCHANGED <<taken, sfuGen>>
    BY <1>5 DEF onGatheringComplete
  <2>2. /\ answererQueue' \in Seq(AnswererEvent) /\ GensOrdered(answererQueue')
        /\ GensUpTo(answererQueue', sfuGen) /\ OffersFrom(answererQueue', remoteUfrag)
        /\ \A c \in taken : OffersFrom(answererQueue', c)
        /\ OffersFrom(answererQueue', deferredOffer.gen) /\ deferredOffer.gen <= sfuGen
    BY <2>1, TakesKeeps DEF GensGrow
  <2>3. CASE deferredOffer = NoOffer
    BY <1>5, <2>1, <2>2, <2>3 DEF onGatheringComplete, GensGrow
  <2>4. CASE deferredOffer # NoOffer
    <3>1. acceptOffer(deferredOffer, remoteNegotiationID) /\ deferredOffer \in Offer
      BY <1>5, <2>4 DEF onGatheringComplete, AnswerTypeOK
    <3> QED
      BY <2>1, <2>2, <3>1, AcceptGens
  <2> QED
    BY <2>3, <2>4
<1>6. CASE addRemoteCandidate
  <2>1. AnswererTakes("remote") /\ taken' = taken \cup {Head(answererQueue).candidate}
    BY <1>6 DEF addRemoteCandidate
  <2> QED
    BY <1>6, <2>1, TakesKeeps DEF addRemoteCandidate, GensGrow
<1>7. CASE queueCandidate \/ HandleFailed
  <2>1. AnswererTakes("local") \/ AnswererTakes("failed")
    BY <1>7 DEF queueCandidate, HandleFailed
  <2>2. UNCHANGED <<taken, sfuGen, remoteUfrag, deferredOffer>>
    BY <1>7 DEF queueCandidate, HandleFailed
  <2> QED
    BY <2>1, <2>2, TakesKeeps DEF GensGrow
<1>8. CASE OnAnswer \/ runAnswerer \/ UNCHANGED answerVars
  BY <1>8 DEF OnAnswer, runAnswerer, answerVars, GensGrow
<1>9. CASE OnICECandidate
  <2>1. [kind |-> "local", gen |-> localGen] \in AnswererEvent /\ localGen <= localGen
    BY DEF AnswererEvent, AnswerTypeOK
  <2> QED
    BY <1>9, <2>1, EnqueueKeeps DEF OnICECandidate, GensGrow
<1>10. CASE AnswererGathers
  <2>1. [kind |-> "gathered"] \in AnswererEvent
    BY DEF AnswererEvent
  <2> QED
    BY <1>10, <2>1, EnqueueKeeps DEF AnswererGathers, GensGrow
<1>11. CASE sendCandidates
  <2>1. [kind |-> "failed"] \in AnswererEvent
    BY DEF AnswererEvent
  <2> QED
    BY <1>11, <2>1, EnqueueKeeps DEF sendCandidates, GensGrow
<1>12. CASE CloseAnswerer
  BY <1>0, <1>12, EmptySeq DEF CloseAnswerer, GensGrow, GensOrdered, GensUpTo, OffersFrom
<1> QED
  BY <1>1, <1>2, <1>3, <1>4, <1>5, <1>6, <1>7, <1>8, <1>9, <1>10, <1>11, <1>12
     DEF AnswerNext, AnswerLoop

\* What acceptOffer leaves behind, for an offer under its own id that is not older
\* than the one applied.
LEMMA AcceptKnown ==
    ASSUME AnswerTypeOK, NEW o \in Offer, acceptOffer(o, o.id), remoteUfrag <= o.gen,
           SameCredential, AnswerEchoesOffer, answerLoop = "idle", announced = localGen
    PROVE  /\ DeferredKnown' /\ SameCredential' /\ AnswerEchoesOffer'
           /\ answerLoop' # "answering" => announced' = localGen'
           /\ localGen' \in {localGen, localGen + 1} /\ announced' \in {announced, localGen'}
<1> USE DEF localVars, loopVars
<1>1. CASE /\ remoteNegotiationID' = o.id /\ deferredOffer' \in {o, NoOffer}
           /\ UNCHANGED <<remoteUfrag, offerCredential, localVars, loopVars>>
  BY <1>1 DEF DeferredKnown, SameCredential, AnswerEchoesOffer
<1>2. CASE /\ remoteNegotiationID' = o.id /\ deferredOffer' = NoOffer
           /\ \E gathers \in BOOLEAN : setRemoteDescription(o, gathers)
           /\ \/ answerLoop' = "answering" /\ answer' = [id |-> o.id, of |-> o.id]
                   /\ announced' = announced
              \/ announced' = localGen' /\ UNCHANGED loopVars
  <2>1. remoteUfrag' = offerCredential' /\ localGen' \in {localGen, localGen + 1}
    BY <1>2 DEF setRemoteDescription
  <2> QED
    BY <1>2, <2>1 DEF DeferredKnown, SameCredential, AnswerEchoesOffer
<1> QED
  BY <1>1, <1>2, AcceptEffect

\* Held candidates when a description is applied: one of a later generation can
\* only have been overtaken while the offer was deferred.
LEMMA AcceptCandidates ==
    ASSUME AnswerTypeOK, CandidatesKept, NEW o \in Offer, NEW id, acceptOffer(o, id), taken' = taken,
           remoteUfrag <= o.gen, deferredOffer # NoOffer \/ \A c \in taken : c <= o.gen
    PROVE  CandidatesKept'
<1>1. CASE UNCHANGED <<remoteUfrag, pending, applied, dropped>>
  BY <1>1 DEF CandidatesKept
<1>2. ASSUME NEW gathers \in BOOLEAN, setRemoteDescription(o, gathers) PROVE CandidatesKept'
  <2>1. /\ remoteUfrag' = o.gen /\ pending' = {}
        /\ applied' = applied \cup appliesPending(o.gen)
        /\ dropped' = dropped \cup {c \in pending : deferredOffer # NoOffer /\ c > o.gen}
    BY <1>2 DEF setRemoteDescription
  <2>2. /\ o.gen \in Nat \ {0} /\ remoteUfrag \in Nat /\ taken \subseteq Nat /\ pending \subseteq Nat
    BY AnswerAssumption DEF AnswerTypeOK, Offer, Candidate
  <2>3. \A pair \in applied' : pair[1] \in {0, pair[2]}
    <3>1. \A pair \in appliesPending(o.gen) : pair[1] \in {0, pair[2]}
      BY <2>2 DEF appliesPending, matchesRemote
    <3> QED
      BY <2>1, <3>1 DEF CandidatesKept
  <2>4. ASSUME NEW c \in taken \ ({0} \cup dropped')
        PROVE  (c = o.gen => <<c, c>> \in applied') /\ (c > o.gen => c \in pending')
    <3>1. c \in Nat /\ c # 0 /\ c \notin dropped
      BY <2>1, <2>2, <2>4
    <3>2. (c = remoteUfrag => <<c, c>> \in applied) /\ (c > remoteUfrag => c \in pending)
      BY <2>4, <3>1 DEF CandidatesKept
    <3>3. ~(c > o.gen)
      <4> SUFFICES ASSUME c > o.gen PROVE FALSE
        OBVIOUS
      <4>1. c \in pending
        BY <2>2, <3>1, <3>2
      <4>2. deferredOffer # NoOffer
        BY <2>2, <2>4, <3>1
      <4> QED
        BY <2>1, <2>4, <4>1, <4>2
    <3>4. c = o.gen => <<c, c>> \in applied'
      <4> SUFFICES ASSUME c = o.gen PROVE <<c, c>> \in applied'
        OBVIOUS
      <4>1. CASE c = remoteUfrag
        BY <2>1, <3>2, <4>1
      <4>2. CASE c > remoteUfrag
        BY <2>1, <3>2, <4>2 DEF appliesPending, matchesRemote
      <4> QED
        BY <2>2, <4>1, <4>2
    <3> QED
      BY <3>3, <3>4
  <2>5. 0 \in taken => \E pair \in applied' : pair[1] = 0
    <3> SUFFICES ASSUME 0 \in taken PROVE \E pair \in applied' : pair[1] = 0
      OBVIOUS
    <3>1. CASE 0 \in pending
      <4>1. <<0, o.gen>> \in applied'
        BY <2>1, <3>1 DEF appliesPending, matchesRemote
      <4> QED
        BY <4>1
    <3>2. CASE \E pair \in applied : pair[1] = 0
      BY <2>1, <3>2
    <3> QED
      BY <3>1, <3>2 DEF CandidatesKept
  <2> QED
    BY <2>1, <2>3, <2>4, <2>5 DEF CandidatesKept
<1> QED
  BY <1>1, <1>2, AcceptEffect

\* What the other actions leave alone: the offer, the answer and the gatherings.
OfferState == <<remoteNegotiationID, remoteUfrag, offerCredential, deferredOffer, answer, localGen>>

\* An action that takes up no offer.
LEMMA NoOfferTaken ==
    ASSUME [AnswerNext]_answerVars, ~HandleRemoteOffer,
           ~(onGatheringComplete /\ deferredOffer # NoOffer)
    PROVE  /\ UNCHANGED OfferState
           /\ answerLoop' # "answering" \/ answerLoop' = answerLoop
           /\ \/ answerLoop' = answerLoop /\ announced' = announced
              \/ announced' = localGen
              \/ answerLoop = "idle" /\ announced' = announced
           /\ addRemoteCandidate \/ UNCHANGED <<taken, pending, applied, dropped>>
<1> USE DEF OfferState, loopVars, remoteVars, candVars, localVars, sfuVars
<1>1. CASE OnSubscriberOffer \/ SfuRestarts \/ \E c \in Candidate : OnIceTrickle(c)
  BY <1>1 DEF OnSubscriberOffer, SfuRestarts, OnIceTrickle
<1>2. CASE onGatheringComplete
  BY <1>2 DEF onGatheringComplete
<1>3. CASE addRemoteCandidate
  BY <1>3 DEF addRemoteCandidate
<1>4. CASE queueCandidate \/ HandleFailed
  BY <1>4 DEF queueCandidate, HandleFailed
<1>5. CASE OnAnswer \/ runAnswerer
  BY <1>5 DEF OnAnswer, runAnswerer
<1>6. CASE OnICECandidate \/ AnswererGathers \/ sendCandidates \/ CloseAnswerer
  BY <1>6 DEF OnICECandidate, AnswererGathers, sendCandidates, CloseAnswerer
<1>7. CASE UNCHANGED answerVars
  BY <1>7 DEF answerVars
<1> QED
  BY <1>1, <1>2, <1>3, <1>4, <1>5, <1>6, <1>7 DEF AnswerNext, AnswerLoop

\* Every action that takes up an offer takes up one under its own id, not older
\* than the one applied, with the answers of all gatherings sent.
LEMMA OfferTaken ==
    ASSUME IInv, HandleRemoteOffer \/ (onGatheringComplete /\ deferredOffer # NoOffer)
    PROVE  \E o \in Offer :
             /\ acceptOffer(o, o.id) /\ remoteUfrag <= o.gen
             /\ deferredOffer # NoOffer \/ \A c \in taken : c <= o.gen
             /\ answerLoop = "idle" /\ announced = localGen
             /\ UNCHANGED <<taken, candidateQueue>> /\ LocalsUpTo(answererQueue', localGen)
             /\ answererQueue' \in Seq(AnswererEvent)
<1>1. answerLoop = "idle" /\ announced = localGen /\ UNCHANGED <<taken, candidateQueue>>
  BY DEF HandleRemoteOffer, onGatheringComplete, AnswererTakes, IInv, AnswersOut
<1>2. CASE HandleRemoteOffer
  <2> DEFINE o == Head(answererQueue).offer
  <2>1. AnswererTakes("offer") /\ acceptOffer(o, o.id)
    BY <1>2 DEF HandleRemoteOffer
  <2>2. /\ o \in Offer /\ remoteUfrag <= o.gen /\ \A c \in taken : c <= o.gen
        /\ LocalsUpTo(answererQueue', localGen) /\ answererQueue' \in Seq(AnswererEvent)
    BY <2>1, TakesKeeps, EventFields DEF IInv
  <2> QED
    BY <1>1, <2>1, <2>2
<1>3. CASE onGatheringComplete /\ deferredOffer # NoOffer
  <2>1. AnswererTakes("gathered") /\ acceptOffer(deferredOffer, remoteNegotiationID)
    BY <1>3 DEF onGatheringComplete
  <2>2. deferredOffer \in Offer /\ remoteNegotiationID = deferredOffer.id /\ remoteUfrag <= deferredOffer.gen
    BY <1>3 DEF IInv, AnswerTypeOK, DeferredKnown
  <2>3. LocalsUpTo(answererQueue', localGen) /\ answererQueue' \in Seq(AnswererEvent)
    BY <2>1, TakesKeeps DEF IInv
  <2> QED
    BY <1>1, <1>3, <2>1, <2>2, <2>3
<1> QED
  BY <1>2, <1>3

\* Local candidates in the queue belong to a gathering that has begun.
LEMMA LocalsStep == ASSUME IInv, [AnswerNext]_answerVars PROVE LocalsUpTo(answererQueue', localGen')
<1> USE DEF loopVars, remoteVars, candVars, localVars, sfuVars
<1>1. AnswerTypeOK /\ GensGrow /\ AnswersOut /\ answererQueue \in Seq(AnswererEvent) /\ localGen \in Nat
  BY DEF IInv, AnswerTypeOK
<1>2. CASE HandleRemoteOffer \/ (onGatheringComplete /\ deferredOffer # NoOffer)
  <2>1. PICK o \in Offer : /\ acceptOffer(o, o.id) /\ remoteUfrag <= o.gen
             /\ answerLoop = "idle" /\ announced = localGen
             /\ LocalsUpTo(answererQueue', localGen) /\ answererQueue' \in Seq(AnswererEvent)
    BY <1>2, OfferTaken
  <2>2. localGen' \in {localGen, localGen + 1}
    BY <2>1, AcceptKnown DEF IInv
  <2> QED
    BY <1>1, <2>1, <2>2, BoundsGrow
<1>3. CASE ~(HandleRemoteOffer \/ (onGatheringComplete /\ deferredOffer # NoOffer))
  <2>1. localGen' = localGen
    BY <1>3, NoOfferTaken DEF OfferState
  <2> SUFFICES LocalsUpTo(answererQueue', localGen)
    BY <2>1
  <2>2. CASE OnSubscriberOffer
    <3> DEFINE ev == [kind |-> "offer", offer |-> [id |-> offers + 1, gen |-> sfuGen]]
    <3>1. ev \in AnswererEvent /\ ev.kind = "offer"
      BY <2>2, AnswerAssumption, <1>1 DEF OnSubscriberOffer, AnswererEvent, Offer, AnswerTypeOK
    <3>2. answererQueue' = answererQueue \/ answererQueue' = Append(answererQueue, ev)
      BY <2>2 DEF OnSubscriberOffer, enqueue
    <3> HIDE DEF ev
    <3> QED
      BY <1>1, <3>1, <3>2, AppendEvent DEF AnswersOut
  <2>3. ASSUME NEW c \in Candidate, OnIceTrickle(c) PROVE LocalsUpTo(answererQueue', localGen)
    <3>1. [kind |-> "remote", candidate |-> c] \in AnswererEvent /\ c <= sfuGen
      BY <2>3, AnswerAssumption DEF AnswererEvent, OnIceTrickle, Candidate
    <3> QED
      BY <1>1, <2>3, <3>1, EnqueueKeeps DEF OnIceTrickle
  <2>4. CASE onGatheringComplete \/ addRemoteCandidate \/ queueCandidate \/ HandleFailed
    <3>1. \E kind \in {"gathered", "remote", "local", "failed"} : AnswererTakes(kind)
      BY <2>4 DEF onGatheringComplete, addRemoteCandidate, queueCandidate, HandleFailed
    <3> QED
      BY <1>1, <3>1, TakesKeeps
  <2>5. CASE SfuRestarts \/ OnAnswer \/ runAnswerer \/ UNCHANGED answerVars
    BY <1>1, <2>5 DEF SfuRestarts, OnAnswer, runAnswerer, answerVars, AnswersOut
  <2>6. CASE OnICECandidate
    <3>1. [kind |-> "local", gen |-> localGen] \in AnswererEvent /\ localGen <= localGen
      BY <1>1 DEF AnswererEvent
    <3> QED
      BY <1>1, <2>6, <3>1, EnqueueKeeps DEF OnICECandidate
  <2>7. CASE AnswererGathers
    <3>1. [kind |-> "gathered"] \in AnswererEvent
      BY DEF AnswererEvent
    <3> QED
      BY <1>1, <2>7, <3>1, EnqueueKeeps DEF AnswererGathers
  <2>8. CASE sendCandidates
    <3>1. [kind |-> "failed"] \in AnswererEvent
      BY DEF AnswererEvent
    <3> QED
      BY <1>1, <2>8, <3>1, EnqueueKeeps DEF sendCandidates, AnswersOut
  <2>9. CASE CloseAnswerer
    BY <2>9, EmptySeq DEF CloseAnswerer, LocalsUpTo
  <2> QED
    BY <1>3, <2>2, <2>3, <2>4, <2>5, <2>6, <2>7, <2>8, <2>9 DEF AnswerNext, AnswerLoop
<1> QED
  BY <1>2, <1>3

\* A candidate the loop takes is applied or held by the rule that keeps it.
LEMMA AddCandidate ==
    ASSUME AnswerTypeOK, CandidatesKept, addRemoteCandidate, GensGrow, AnswersOut
    PROVE  CandidatesKept'
<1> DEFINE c == Head(answererQueue).candidate
<1>1. c \in Nat /\ remoteUfrag \in Nat /\ taken \subseteq Nat
  <2>1. c \in Candidate
    BY TakesKeeps, EventFields DEF addRemoteCandidate
  <2> QED
    BY <2>1, AnswerAssumption DEF AnswerTypeOK, Candidate
<1>2. taken' = taken \cup {c} /\ remoteUfrag' = remoteUfrag /\ dropped' = dropped
  BY DEF addRemoteCandidate, remoteVars
<1> HIDE DEF c
<1>3. CASE /\ remoteUfrag = 0 \/ ~matchesRemote(c, remoteUfrag)
           /\ pending' = pending \cup {c} /\ applied' = applied
  <2>1. c # 0 => c # remoteUfrag
    BY <1>3 DEF matchesRemote
  <2>2. c = 0 => 0 \in pending'
    BY <1>3
  <2> QED
    BY <1>1, <1>2, <1>3, <2>1, <2>2 DEF CandidatesKept
<1>4. CASE /\ remoteUfrag # 0 /\ matchesRemote(c, remoteUfrag)
           /\ pending' = pending /\ applied' = applied \cup {<<c, remoteUfrag>>}
  <2>1. c \in {0, remoteUfrag}
    BY <1>4 DEF matchesRemote
  <2>2. \A pair \in applied' : pair[1] \in {0, pair[2]}
    BY <1>4, <2>1 DEF CandidatesKept
  <2>3. \A x \in taken' \ ({0} \cup dropped') :
          (x = remoteUfrag => <<x, x>> \in applied') /\ (x > remoteUfrag => x \in pending')
    <3> TAKE x \in taken' \ ({0} \cup dropped')
    <3>1. CASE x = c
      BY <1>1, <1>4, <2>1, <3>1
    <3>2. CASE x # c
      BY <1>2, <1>4, <3>2 DEF CandidatesKept
    <3> QED
      BY <3>1, <3>2
  <2>4. 0 \in taken' => 0 \in pending' \/ \E pair \in applied' : pair[1] = 0
    <3>1. CASE c = 0
      <4>1. <<0, remoteUfrag>> \in applied'
        BY <1>4, <3>1
      <4> QED
        BY <4>1
    <3>2. CASE c # 0
      BY <1>2, <1>4, <3>2 DEF CandidatesKept
    <3> QED
      BY <3>1, <3>2
  <2> QED
    BY <1>2, <2>2, <2>3, <2>4 DEF CandidatesKept
<1> QED
  BY <1>3, <1>4 DEF addRemoteCandidate, c

\* A candidate goes on to its sender only when its answer is out, and what is
\* announced is never taken back.
LEMMA FollowsStep ==
    ASSUME IInv, [AnswerNext]_answerVars, announced' >= announced, announced' \in Nat
    PROVE  CandidatesFollowAnswer'
<1> USE DEF loopVars, remoteVars, candVars, localVars, sfuVars
<1>1. /\ candidateQueue \in Seq(Nat) /\ announced \in Nat /\ localGen \in Nat
      /\ \A i \in 1 .. Len(candidateQueue) : candidateQueue[i] \in Nat /\ candidateQueue[i] <= announced
  BY SMTT(30) DEF IInv, AnswerTypeOK, CandidatesFollowAnswer
<1> SUFFICES \A i \in 1 .. Len(candidateQueue') : candidateQueue'[i] <= announced'
  <2>1. candidateQueue' \in Seq(Nat)
    BY TypeStep DEF IInv, AnswerTypeOK
  <2> QED
    BY <2>1 DEF CandidatesFollowAnswer
<1>2. CASE queueCandidate
  <2> DEFINE g == Head(answererQueue).gen
  <2>1. AnswererTakes("local") /\ candidateQueue' = Append(candidateQueue, g) /\ announced = localGen
    BY <1>2 DEF queueCandidate, AnswererTakes, IInv, AnswersOut
  <2>2. g \in Nat /\ g <= announced
    BY <2>1, TakesKeeps, EventFields DEF IInv
  <2>3. /\ Len(candidateQueue') = Len(candidateQueue) + 1 /\ Len(candidateQueue) \in Nat
        /\ \A i \in 1 .. Len(candidateQueue) : candidateQueue'[i] = candidateQueue[i]
        /\ candidateQueue'[Len(candidateQueue) + 1] = g
    BY <1>1, <2>1, <2>2, AppendProperties
  <2> QED
    BY <1>1, <2>2, <2>3
<1>3. CASE sendCandidates
  <2>1. /\ Len(candidateQueue') = Len(candidateQueue) - 1 /\ Len(candidateQueue) \in Nat
        /\ \A i \in 1 .. Len(candidateQueue') : candidateQueue'[i] = candidateQueue[i + 1]
    BY <1>1, <1>3, HeadTailProperties DEF sendCandidates
  <2> SUFFICES ASSUME NEW i \in 1 .. Len(candidateQueue') PROVE candidateQueue'[i] <= announced'
    OBVIOUS
  <2>2. i + 1 \in 1 .. Len(candidateQueue) /\ candidateQueue'[i] = candidateQueue[i + 1]
    BY <2>1
  <2> QED
    BY <1>1, <2>2
<1>4. CASE UNCHANGED candidateQueue
  BY <1>1, <1>4
<1>5. queueCandidate \/ sendCandidates \/ UNCHANGED candidateQueue
  BY DEF AnswerNext, AnswerLoop, OnSubscriberOffer, SfuRestarts, OnIceTrickle, HandleRemoteOffer,
         onGatheringComplete, addRemoteCandidate, HandleFailed, OnAnswer, runAnswerer, OnICECandidate,
         AnswererGathers, CloseAnswerer, answerVars
<1> QED
  BY <1>2, <1>3, <1>4, <1>5

\* Every action keeps the invariant.
LEMMA IInvStep == ASSUME IInv, [AnswerNext]_answerVars PROVE IInv'
<1>1. AnswerTypeOK' /\ GensGrow' /\ LocalsUpTo(answererQueue', localGen')
  BY TypeStep, GensGrowStep, LocalsStep DEF IInv
<1>2. localGen \in Nat /\ announced \in 0 .. localGen /\ localGen' \in Nat /\ announced' \in 0 .. localGen'
  BY <1>1 DEF IInv, AnswerTypeOK
<1>3. CASE HandleRemoteOffer \/ (onGatheringComplete /\ deferredOffer # NoOffer)
  <2>1. PICK o \in Offer :
          /\ acceptOffer(o, o.id) /\ remoteUfrag <= o.gen
          /\ deferredOffer # NoOffer \/ \A c \in taken : c <= o.gen
          /\ answerLoop = "idle" /\ announced = localGen /\ UNCHANGED <<taken, candidateQueue>>
    BY <1>3, OfferTaken
  <2>2. /\ DeferredKnown' /\ SameCredential' /\ AnswerEchoesOffer'
        /\ answerLoop' # "answering" => announced' = localGen'
        /\ localGen' \in {localGen, localGen + 1} /\ announced' \in {announced, localGen'}
    BY <2>1, AcceptKnown DEF IInv
  <2>3. CandidatesKept'
    BY <2>1, AcceptCandidates DEF IInv
  <2>4. CandidatesFollowAnswer'
    BY <1>2, <2>1, <2>2, FollowsStep
  <2> QED
    BY <1>1, <2>2, <2>3, <2>4 DEF IInv, AnswersOut
<1>4. CASE ~(HandleRemoteOffer \/ (onGatheringComplete /\ deferredOffer # NoOffer))
  <2>1. /\ UNCHANGED OfferState
        /\ answerLoop' # "answering" \/ answerLoop' = answerLoop
        /\ \/ answerLoop' = answerLoop /\ announced' = announced
           \/ announced' = localGen
           \/ answerLoop = "idle" /\ announced' = announced
        /\ addRemoteCandidate \/ UNCHANGED <<taken, pending, applied, dropped>>
    BY <1>4, NoOfferTaken
  <2>2. DeferredKnown' /\ SameCredential' /\ AnswerEchoesOffer'
    BY <2>1 DEF OfferState, IInv, DeferredKnown, SameCredential, AnswerEchoesOffer
  <2>3. AnswersOut'
    BY <1>1, <2>1 DEF OfferState, IInv, AnswersOut
  <2>4. CandidatesKept'
    <3>1. CASE addRemoteCandidate
      BY <3>1, AddCandidate DEF IInv
    <3>2. CASE UNCHANGED <<taken, pending, applied, dropped>>
      BY <2>1, <3>2 DEF OfferState, IInv, CandidatesKept
    <3> QED
      BY <2>1, <3>1, <3>2
  <2>5. CandidatesFollowAnswer'
    BY <1>2, <2>1, FollowsStep
  <2> QED
    BY <1>1, <2>2, <2>3, <2>4, <2>5 DEF IInv
<1> QED
  BY <1>3, <1>4

-----------------------------------------------------------------------------
(* The results. *)

\* The invariant is inductive.
THEOREM Inductive == AnswerSpec => []IInv
BY IInvInit, IInvStep, PTL DEF AnswerSpec

\* acceptOffer and onGatheringComplete: an answer carries the
\* id of the offer it answers, deferred or not.
THEOREM AnswerEchoesOfferCorrect == AnswerSpec => []AnswerEchoesOffer
<1>1. IInv => AnswerEchoesOffer
  BY DEF IInv
<1> QED
  BY <1>1, Inductive, PTL

\* setRemoteDescription, addRemoteCandidate and sendCandidates: no remote
\* candidate is lost or misapplied, and no local one overtakes its answer.
THEOREM CandidatesInPlaceCorrect == AnswerSpec => []CandidatesInPlace
<1>1. IInv => CandidatesInPlace
  BY DEF IInv, CandidatesInPlace
<1> QED
  BY <1>1, Inductive, PTL

\* acceptOffer: the credentials of a description that is applied never change
\* while ICE gathers, whatever order offers and gathering events come in.
THEOREM AnswersWhenGatheredCorrect == AnswerSpec => AnswersWhenGathered
<1>1. ASSUME IInv, [AnswerNext]_answerVars, remoteUfrag' # remoteUfrag, remoteUfrag # 0
      PROVE  answererGathering # "gathering"
  <2>1. HandleRemoteOffer \/ (onGatheringComplete /\ deferredOffer # NoOffer)
    BY <1>1, NoOfferTaken DEF OfferState
  <2>2. PICK o \in Offer : acceptOffer(o, o.id)
    BY <1>1, <2>1, OfferTaken
  <2>3. remoteUfrag' = o.gen /\ (answererGathering = "gathering" => offerCredential \in {0, o.gen})
    BY <1>1, <2>2, AcceptEffect DEF setRemoteDescription
  <2> QED
    BY <1>1, <2>3 DEF IInv, SameCredential
<1>2. IInv /\ [AnswerNext]_answerVars =>
        [remoteUfrag' # remoteUfrag /\ remoteUfrag # 0 => answererGathering # "gathering"]_answerVars
  BY <1>1
<1> QED
  BY <1>2, Inductive, PTL DEF AnswerSpec, AnswersWhenGathered
=============================================================================
