-------------------------- MODULE AnswerNegotiation --------------------------
(***************************************************************************)
(* The subscriber's pc.Transport as the answerer: offers pushed by the     *)
(* SFU, restart offers deferred until gathering completes, remote          *)
(* candidates that overtake their description, and local candidates that   *)
(* must not overtake the answer.                                           *)
(*                                                                         *)
(* An ICE generation is a ufrag and password.  The SFU sends its events in *)
(* order, but may trickle a generation's candidate before the offer that   *)
(* names it.  An event is handled in one action, except that               *)
(* Handler.OnAnswer is an RPC the loop waits for.                          *)
(***************************************************************************)
EXTENDS Integers, Sequences, FiniteSets

CONSTANTS
    MaxGen,         \* bound on the SFU's ICE generations
    MaxOffers,      \* bound on its offers
    MaxTrickles,    \* bound on its candidates
    MaxAnswerFaults       \* bound on failures of the peer connection and of RPCs

ASSUME AnswerAssumption == /\ MaxGen \in Nat \ {0}
                           /\ MaxOffers \in Nat
                           /\ MaxTrickles \in Nat /\ MaxAnswerFaults \in Nat

VARIABLES
    answererQueue,              \* t.queue
    answererClosed,             \* t.closed
    answerLoop,               \* "idle", "answering" inside OnAnswer, or "done"
    answer,             \* the answer being sent: the id it carries, the offer it is for
    remoteNegotiationID,           \* t.remoteNegotiationID
    offerCredential,    \* t.offerCredential, 0 when empty
    remoteUfrag,        \* t.remoteUfrag, 0 when there is no remote description
    deferredOffer,      \* t.deferredOffer
    pending,            \* t.pendingRemoteCandidates
    candidateQueue,     \* t.candidateQueue
    iceRestartRequestNum,
    answererGathering,          \* the peer connection's gathering state
    localGen,           \* how often it has begun to gather
    found,              \* the gathering that found a local candidate last
    applied,            \* candidates it was given, and the generation it had then
    taken,              \* history: remote candidates the loop has taken
    dropped,            \* history: held candidates that a deferred offer dropped
    announced,          \* history: the gathering whose answer has been sent, or has failed
    sfuGen, offers, trickled,   \* the SFU: its generation, offers and candidates so far
    answerFaults              \* failures left

loopVars == <<answerLoop, answer>>
remoteVars == <<remoteNegotiationID, offerCredential, remoteUfrag, deferredOffer>>
candVars == <<pending, applied, dropped, taken>>
localVars == <<answererGathering, localGen, found, announced>>
sfuVars == <<sfuGen, offers, trickled>>
answerVars == <<answererQueue, answererClosed, loopVars, remoteVars, candVars, candidateQueue, iceRestartRequestNum,
          localVars, sfuVars, answerFaults>>

NoOffer == [id |-> 0, gen |-> 0]
Offer == [id : 1 .. MaxOffers, gen : 1 .. MaxGen]

\* A candidate is the generation it names, 0 when it names none.
Candidate == 0 .. MaxGen

AnswererEvent ==
         [kind : {"offer"}, offer : Offer]
    \cup [kind : {"remote"}, candidate : Candidate]
    \cup [kind : {"local"}, gen : Nat]
    \cup [kind : {"gathered", "failed"}]

AnswerTypeOK ==
    /\ answererQueue \in Seq(AnswererEvent)
    /\ answererClosed \in BOOLEAN
    /\ answerLoop \in {"idle", "answering", "done"}
    /\ answer \in [id : Nat, of : Nat]
    /\ remoteNegotiationID \in 0 .. MaxOffers
    /\ offerCredential \in 0 .. MaxGen
    /\ remoteUfrag \in 0 .. MaxGen
    /\ deferredOffer \in Offer \cup {NoOffer}
    /\ pending \in SUBSET Candidate
    /\ candidateQueue \in Seq(Nat)
    /\ iceRestartRequestNum \in 0 .. 4
    /\ answererGathering \in {"new", "gathering", "complete"}
    /\ localGen \in Nat /\ found \in 0 .. localGen /\ announced \in 0 .. localGen
    /\ applied \in SUBSET (Candidate \X (1 .. MaxGen))
    /\ taken \in SUBSET Candidate /\ dropped \in SUBSET Candidate
    /\ sfuGen \in 1 .. MaxGen
    /\ offers \in 0 .. MaxOffers
    /\ trickled \in SUBSET Candidate
    /\ answerFaults \in 0 .. MaxAnswerFaults

AnswerInit ==
    /\ answererQueue = <<>> /\ answererClosed = FALSE /\ answerLoop = "idle" /\ answer = [id |-> 0, of |-> 0]
    /\ remoteNegotiationID = 0 /\ offerCredential = 0 /\ remoteUfrag = 0 /\ deferredOffer = NoOffer
    /\ pending = {} /\ candidateQueue = <<>> /\ iceRestartRequestNum = 0
    /\ answererGathering = "new" /\ localGen = 0 /\ found = 0 /\ applied = {} /\ taken = {} /\ dropped = {}
    /\ announced = 0
    /\ sfuGen = 1 /\ offers = 0 /\ trickled = {}
    /\ answerFaults = MaxAnswerFaults

enqueue(ev) == answererQueue' = IF answererClosed THEN answererQueue ELSE Append(answererQueue, ev)

-----------------------------------------------------------------------------
(* The SFU. *)

\* OnSubscriberOffer.
OnSubscriberOffer ==
    /\ offers < MaxOffers /\ offers' = offers + 1
    /\ enqueue([kind |-> "offer", offer |-> [id |-> offers + 1, gen |-> sfuGen]])
    /\ UNCHANGED <<answererClosed, loopVars, remoteVars, candVars, candidateQueue, iceRestartRequestNum,
                   localVars, sfuGen, trickled, answerFaults>>

\* The SFU restarts ICE: its next offers have new credentials.
SfuRestarts ==
    /\ sfuGen < MaxGen /\ sfuGen' = sfuGen + 1
    /\ UNCHANGED <<answererQueue, answererClosed, loopVars, remoteVars, candVars, candidateQueue,
                   iceRestartRequestNum, localVars, offers, trickled, answerFaults>>

\* OnIceTrickle, with a candidate of any generation so far or of none.
OnIceTrickle(c) ==
    /\ c \in 0 .. sfuGen /\ c \notin trickled /\ Cardinality(trickled) < MaxTrickles
    /\ trickled' = trickled \cup {c}
    /\ enqueue([kind |-> "remote", candidate |-> c])
    /\ UNCHANGED <<answererClosed, loopVars, remoteVars, candVars, candidateQueue, iceRestartRequestNum,
                   localVars, sfuGen, offers, answerFaults>>

-----------------------------------------------------------------------------
(* The event loop. *)

AnswererTakes(kind) ==
    /\ answerLoop = "idle" /\ ~answererClosed
    /\ answererQueue # <<>> /\ Head(answererQueue).kind = kind
    /\ answererQueue' = Tail(answererQueue)

AnswerFault == answerFaults > 0 /\ answerFaults' = answerFaults - 1

\* The subscriber asks for an ICE restart, a few times.
OnNegotiationFailed ==
    iceRestartRequestNum' =
        IF iceRestartRequestNum > 3 THEN iceRestartRequestNum ELSE iceRestartRequestNum + 1

matchesRemote(c, ufrag) == c = 0 \/ ufrag = 0 \/ c = ufrag

\* Mutant: held candidates are forgotten.
appliesNone(gen) == {}

\* Held candidates, when the description of gen is applied: those of another
\* generation are dropped.
appliesPending(gen) == {<<c, gen>> : c \in {x \in pending : matchesRemote(x, gen)}}

\* setRemoteDescription succeeds.  gathers: pion begins to gather, here when the
\* offer restarts ICE, otherwise in the first SetLocalDescription that follows.
setRemoteDescription(offer, gathers) ==
    /\ remoteUfrag' = offer.gen
    /\ applied' = applied \cup appliesPending(offer.gen)
    /\ pending' = {}
    /\ dropped' = dropped \cup {c \in pending : deferredOffer # NoOffer /\ c > offer.gen}
    /\ offerCredential' = offer.gen
    /\ answererGathering' = IF gathers THEN "gathering" ELSE answererGathering
    /\ UNCHANGED found
    /\ localGen' = IF gathers THEN localGen + 1 ELSE localGen

\* Mutant: an id is recorded only with an offer that is applied.
defersOfferKeepsID(offer, negotiationID) == deferredOffer' = offer /\ UNCHANGED remoteNegotiationID

\* The offer waits, its id remembered.
defersOffer(offer, negotiationID) == deferredOffer' = offer /\ remoteNegotiationID' = negotiationID

defers(restart) == restart /\ answererGathering = "gathering"

acceptOffer(offer, negotiationID) ==
    LET restart == offerCredential # 0 /\ offer.gen # offerCredential IN
    \/ /\ defers(restart) /\ defersOffer(offer, negotiationID)
       /\ UNCHANGED <<loopVars, offerCredential, remoteUfrag, pending, applied, dropped, localVars,
                      iceRestartRequestNum, answerFaults>>
    \/ /\ ~defers(restart)
       /\ remoteNegotiationID' = negotiationID /\ deferredOffer' = NoOffer
       /\ \/ /\ setRemoteDescription(offer, restart \/ answererGathering = "new")
             /\ answerLoop' = "answering" /\ answer' = [id |-> negotiationID, of |-> offer.id]
             /\ UNCHANGED <<announced, iceRestartRequestNum, answerFaults>>
          \/ /\ AnswerFault /\ OnNegotiationFailed          \* CreateAnswer, SetLocalDescription
             /\ setRemoteDescription(offer, restart)
             /\ announced' = localGen'
             /\ UNCHANGED loopVars
          \/ /\ AnswerFault /\ OnNegotiationFailed          \* SetRemoteDescription
             /\ UNCHANGED <<loopVars, offerCredential, remoteUfrag, pending, applied, dropped, localVars>>

HandleRemoteOffer ==
    /\ AnswererTakes("offer") /\ acceptOffer(Head(answererQueue).offer, Head(answererQueue).offer.id)
    /\ UNCHANGED <<answererClosed, taken, candidateQueue, sfuVars>>

\* Mutant: the end of gathering does not bring the deferred offer back.
onGatheringCompleteForgets ==
    /\ AnswererTakes("gathered")
    /\ UNCHANGED <<loopVars, remoteVars, pending, applied, dropped, localVars, iceRestartRequestNum, answerFaults>>
    /\ UNCHANGED <<answererClosed, taken, candidateQueue, sfuVars>>

\* A deferred offer is accepted now, with the id remembered for it.
onGatheringComplete ==
    /\ AnswererTakes("gathered")
    /\ IF deferredOffer # NoOffer
       THEN acceptOffer(deferredOffer, remoteNegotiationID)
       ELSE UNCHANGED <<loopVars, remoteVars, pending, applied, dropped, localVars, iceRestartRequestNum,
                        answerFaults>>
    /\ UNCHANGED <<answererClosed, taken, candidateQueue, sfuVars>>

\* A remote candidate is applied, or held for the description it belongs to.
addRemoteCandidate ==
    /\ AnswererTakes("remote")
    /\ LET c == Head(answererQueue).candidate IN
       /\ taken' = taken \cup {c}
       /\ IF remoteUfrag = 0 \/ ~matchesRemote(c, remoteUfrag)
          THEN pending' = pending \cup {c} /\ UNCHANGED applied
          ELSE applied' = applied \cup {<<c, remoteUfrag>>} /\ UNCHANGED pending
    /\ UNCHANGED <<answererClosed, dropped, loopVars, remoteVars, candidateQueue, iceRestartRequestNum, localVars,
                   sfuVars, answerFaults>>

\* A local candidate moves on to its sender.
queueCandidate ==
    /\ AnswererTakes("local") /\ candidateQueue' = Append(candidateQueue, Head(answererQueue).gen)
    /\ UNCHANGED <<answererClosed, loopVars, remoteVars, candVars, iceRestartRequestNum, localVars, sfuVars,
                   answerFaults>>

\* The event a failed candidate send leaves.
HandleFailed ==
    /\ AnswererTakes("failed") /\ OnNegotiationFailed
    /\ UNCHANGED <<answererClosed, loopVars, remoteVars, candVars, candidateQueue, localVars, sfuVars,
                   answerFaults>>

\* OnAnswer returns: the SFU has the answer, or the RPC failed.
OnAnswer ==
    /\ answerLoop = "answering" /\ answerLoop' = "idle"
    /\ announced' = localGen
    /\ \/ UNCHANGED <<iceRestartRequestNum, answerFaults>>
       \/ /\ AnswerFault
          /\ IF answererClosed THEN UNCHANGED iceRestartRequestNum ELSE OnNegotiationFailed
    /\ UNCHANGED <<answererQueue, answererClosed, answer, remoteVars, candVars, candidateQueue, answererGathering, localGen,
                   found, sfuVars>>

runAnswerer ==
    /\ answererClosed /\ answerLoop = "idle" /\ answerLoop' = "done"
    /\ UNCHANGED <<answererQueue, answererClosed, answer, remoteVars, candVars, candidateQueue,
                   iceRestartRequestNum, localVars, sfuVars, answerFaults>>

-----------------------------------------------------------------------------
(* The peer connection, the candidate sender and Close. *)

\* pion finds a local candidate; one per gathering is enough here.
OnICECandidate ==
    /\ answererGathering = "gathering" /\ found < localGen /\ found' = localGen
    /\ enqueue([kind |-> "local", gen |-> localGen])
    /\ UNCHANGED <<answererClosed, loopVars, remoteVars, candVars, candidateQueue, iceRestartRequestNum,
                   answererGathering, localGen, announced, sfuVars, answerFaults>>

AnswererGathers ==
    /\ answererGathering = "gathering" /\ answererGathering' = "complete"
    /\ enqueue([kind |-> "gathered"])
    /\ UNCHANGED <<answererClosed, loopVars, remoteVars, candVars, candidateQueue, iceRestartRequestNum,
                   localGen, found, announced, sfuVars, answerFaults>>

sendCandidates ==
    /\ ~answererClosed /\ candidateQueue # <<>> /\ candidateQueue' = Tail(candidateQueue)
    /\ \/ UNCHANGED <<answererQueue, answerFaults>>
       \/ AnswerFault /\ enqueue([kind |-> "failed"])
    /\ UNCHANGED <<answererClosed, loopVars, remoteVars, candVars, iceRestartRequestNum, localVars, sfuVars>>

CloseAnswerer ==
    /\ ~answererClosed /\ answererClosed' = TRUE /\ answererQueue' = <<>>
    /\ UNCHANGED <<loopVars, remoteVars, candVars, candidateQueue, iceRestartRequestNum, localVars,
                   sfuVars, answerFaults>>

-----------------------------------------------------------------------------
AnswerLoop ==
    \/ HandleRemoteOffer \/ onGatheringComplete \/ addRemoteCandidate \/ queueCandidate
    \/ HandleFailed \/ OnAnswer \/ runAnswerer

AnswerNext ==
    \/ OnSubscriberOffer \/ SfuRestarts \/ \E c \in Candidate : OnIceTrickle(c)
    \/ AnswerLoop
    \/ OnICECandidate \/ AnswererGathers \/ sendCandidates \/ CloseAnswerer

AnswerSpec == AnswerInit /\ [][AnswerNext]_answerVars

\* The loop runs, its RPC returns and gathering ends.
AnswerFairness == WF_answerVars(AnswerLoop) /\ WF_answerVars(AnswererGathers)

AnswerFairSpec == AnswerSpec /\ AnswerFairness

-----------------------------------------------------------------------------
\* An answer carries the id of the offer it answers, even when the offer was
\* deferred and newer ones arrived before gathering completed.
AnswerEchoesOffer == answerLoop = "answering" => answer.id = answer.of

\* No remote candidate is lost or misapplied: one the loop has taken was given
\* to the peer connection under its own generation once that is the remote one,
\* and waits for it until then, unless a deferred offer dropped it.
CandidatesKept ==
    /\ \A pair \in applied : pair[1] \in {0, pair[2]}
    /\ \A c \in taken \ ({0} \cup dropped) :
         /\ c = remoteUfrag => <<c, c>> \in applied
         /\ c > remoteUfrag => c \in pending
    /\ 0 \in taken => 0 \in pending \/ \E pair \in applied : pair[1] = 0

\* ICE is never restarted while it gathers: credentials change only between
\* gatherings.
AnswersWhenGathered ==
    [][remoteUfrag' # remoteUfrag /\ remoteUfrag # 0 => answererGathering # "gathering"]_answerVars

\* A local candidate reaches its sender only after the attempt to send the
\* answer it belongs to has ended.
CandidatesFollowAnswer == \A i \in DOMAIN candidateQueue : candidateQueue[i] <= announced

\* A deferred restart offer is taken up, or superseded.
DeferredOfferTaken == (deferredOffer # NoOffer) ~> (deferredOffer = NoOffer \/ answererClosed)

\* Candidates of either side meet the description they belong to.
CandidatesInPlace == AnswerTypeOK /\ CandidatesKept /\ CandidatesFollowAnswer

\* A restart offer that comes while ICE gathers waits for it, and is then taken.
RestartOffersTaken == AnswersWhenGathered /\ DeferredOfferTaken
=============================================================================
