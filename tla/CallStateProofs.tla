--------------------------- MODULE CallStateProofs ---------------------------
(***************************************************************************)
(* Proofs about what a call has told the SFU, Subscriptions and            *)
(* Publishing, about what the SFU has told it, Participants, and about     *)
(* how events reach the application, Dispatch: for any number of           *)
(* goroutines, sessions, publishers, tracks, participants and handlers.    *)
(***************************************************************************)
EXTENDS Subscriptions, Publishing, Participants, Dispatch, FiniteSetTheorems,
        SequenceTheorems, WellFoundedInduction, TLAPS

(***************************************************************************)
(* Subscriptions.                                                          *)
(***************************************************************************)

\* g has an RPC under way that no other has overlapped, in the session it began in.
Alone(g) == call[g].step # "idle" /\ call[g].alone

\* Such an RPC is the only one, and the session is still its own.
AloneMeansOnly ==
    \A g \in Goroutine : Alone(g) =>
        call[g].session = session /\ \A h \in Goroutine : call[h].step # "idle" => h = g

\* Before the SFU has seen it, what is believed holds as it did without it; once
\* the SFU has, the SFU has its list.
AloneTells ==
    \A g \in Goroutine : Alone(g) =>
        /\ call[g].step = "sending" /\ ~doubt /\ sentSubscriptions # NoList =>
             sfuList = sentSubscriptions
        /\ call[g].step \in {"applied", "recording"} => sfuList = call[g].list

SubInv == SubTypeOK /\ AloneMeansOnly /\ AloneTells /\ SentIsTold

LEMMA SubInvInit == SubInit => SubInv
<1> SUFFICES ASSUME SubInit PROVE SubInv
  OBVIOUS
<1>1. noCall \in Call
  BY SubscriptionsAssumption DEF noCall, Call, List
<1>2. SubTypeOK
  <2>1. restoringSubs \in BOOLEAN /\ doubt \in BOOLEAN
    BY DEF SubInit
  <2> QED
    BY <1>1, <2>1, SubscriptionsAssumption DEF SubInit, SubTypeOK, List
<1>3. \A g \in Goroutine : call[g].step = "idle"
  BY DEF SubInit, noCall
<1> QED
  BY <1>2, <1>3 DEF SubInit, SubInv, AloneMeansOnly, AloneTells, Alone, SentIsTold

\* What an RPC that starts does to the others under way.
LEMMA StartsSend ==
    ASSUME SubTypeOK, NEW g \in Goroutine, NEW list \in List, g \notin busy, startSend(g, list)
    PROVE  /\ call' \in [Goroutine -> Call]
           /\ call'[g].step = "sending" /\ call'[g].list = list /\ call'[g].session = session
           /\ call'[g].alone <=> busy = {}
           /\ \A h \in Goroutine \ {g} : call'[h].step = call[h].step /\ ~Alone(h)'
<1>1. \A h \in Goroutine : call[h] \in Call
  BY DEF SubTypeOK
<1>2. [step |-> "sending", list |-> list, session |-> session, alone |-> busy = {}] \in Call
  <2>1. (busy = {}) \in BOOLEAN
    OBVIOUS
  <2> QED
    BY <2>1 DEF Call, SubTypeOK
<1>3. \A h \in Goroutine : [call[h] EXCEPT !.alone = FALSE] \in Call
  BY <1>1 DEF Call
<1>4. call' \in [Goroutine -> Call]
  BY <1>1, <1>2, <1>3 DEF startSend
<1>5. /\ call'[g].step = "sending" /\ call'[g].list = list /\ call'[g].session = session
      /\ call'[g].alone <=> busy = {}
  BY DEF startSend
<1>6. ASSUME NEW h \in Goroutine \ {g} PROVE call'[h].step = call[h].step /\ ~Alone(h)'
  <2>1. CASE h \in busy
    <3>1. call'[h] = [call[h] EXCEPT !.alone = FALSE]
      BY <1>6, <2>1 DEF startSend
    <3> QED
      BY <1>1, <3>1 DEF Call, Alone
  <2>2. CASE h \notin busy
    <3>1. call'[h] = call[h] /\ call[h].step = "idle"
      BY <1>6, <2>2 DEF startSend, busy
    <3> QED
      BY <3>1 DEF Alone
  <2> QED
    BY <2>1, <2>2
<1> QED
  BY <1>4, <1>5, <1>6

\* An RPC that starts keeps the invariant.
LEMMA StartStep ==
    ASSUME SubInv, NEW g \in Goroutine, NEW list \in List, g \notin busy, startSend(g, list),
           UNCHANGED <<sentSubscriptions, session, sfuList, restoringSubs, doubt>>,
           subscribedTracks' \in List
    PROVE  SubInv'
<1>1. /\ call' \in [Goroutine -> Call]
      /\ call'[g].step = "sending" /\ call'[g].list = list /\ call'[g].session = session
      /\ call'[g].alone <=> busy = {}
      /\ \A h \in Goroutine \ {g} : call'[h].step = call[h].step /\ ~Alone(h)'
  BY StartsSend DEF SubInv
<1>2. SubTypeOK'
  BY <1>1 DEF SubInv, SubTypeOK
<1>3. AloneMeansOnly'
  <2>1. Alone(g)' => \A h \in Goroutine \ {g} : call'[h].step = "idle"
    BY <1>1 DEF Alone, busy
  <2> QED
    BY <1>1, <2>1 DEF AloneMeansOnly
<1>4. AloneTells'
  <2>1. Alone(g)' /\ ~doubt /\ sentSubscriptions # NoList => sfuList = sentSubscriptions
    BY <1>1 DEF Alone, SubInv, SentIsTold
  <2> QED
    BY <1>1, <2>1 DEF AloneTells
<1>5. SentIsTold'
  BY <1>1 DEF SentIsTold, busy
<1> QED
  BY <1>2, <1>3, <1>4, <1>5 DEF SubInv

\* The reply or the failure of an RPC: the goroutine is idle again.
LEMMA CallEnds ==
    ASSUME SubTypeOK, NEW g \in Goroutine, call' = [call EXCEPT ![g] = noCall]
    PROVE  /\ call' \in [Goroutine -> Call] /\ call'[g].step = "idle"
           /\ \A h \in Goroutine \ {g} : call'[h] = call[h]
<1>1. noCall \in Call
  BY SubscriptionsAssumption DEF noCall, Call, List
<1> QED
  BY <1>1 DEF SubTypeOK, noCall

LEMMA SubInvStep == ASSUME SubInv, [SubNext]_subVars PROVE SubInv'
<1>0. SubTypeOK /\ \A h \in Goroutine : call[h] \in Call
  BY DEF SubInv, SubTypeOK
<1>1. ASSUME NEW g \in Caller, NEW list \in List, SubscribeToTracks(g, list) PROVE SubInv'
  <2>1. g \in Goroutine /\ g \notin busy /\ subscribedTracks' = list
        /\ UNCHANGED <<sentSubscriptions, session, sfuList, restoringSubs, doubt>>
    BY <1>1 DEF SubscribeToTracks, Goroutine
  <2>2. CASE startSend(g, list)
    BY <2>1, <2>2, StartStep
  <2>3. CASE call' = call
    BY <2>1, <2>3 DEF SubInv, SubTypeOK, AloneMeansOnly, AloneTells, Alone, SentIsTold, busy
  <2> QED
    BY <1>1, <2>2, <2>3 DEF SubscribeToTracks
<1>2. ASSUME NEW g \in Goroutine, SfuApplies(g) PROVE SubInv'
  <2>1. /\ call' = [call EXCEPT ![g].step = "applied"] /\ call[g].step = "sending"
        /\ sfuList' = IF call[g].session = session THEN call[g].list ELSE sfuList
        /\ UNCHANGED <<subscribedTracks, sentSubscriptions, session, restoringSubs, doubt>>
    BY <1>2 DEF SfuApplies
  <2>2. /\ call' \in [Goroutine -> Call] /\ call'[g].step = "applied" /\ call'[g].list = call[g].list
        /\ call'[g].session = call[g].session /\ (Alone(g)' <=> Alone(g))
        /\ \A h \in Goroutine \ {g} : call'[h] = call[h] /\ (Alone(h)' <=> Alone(h))
    BY <1>0, <2>1 DEF Call, SubTypeOK, Alone
  <2>3. SubTypeOK'
    <3>1. sfuList' \in List
      BY <1>0, <2>1 DEF Call, SubTypeOK
    <3> QED
      BY <1>0, <2>1, <2>2, <3>1 DEF SubTypeOK
  <2>4. AloneMeansOnly'
    BY <2>1, <2>2 DEF SubInv, AloneMeansOnly
  <2>5. AloneTells'
    <3>1. \A h \in Goroutine \ {g} : ~Alone(h)
      BY <2>1 DEF SubInv, AloneMeansOnly
    <3>2. Alone(g) => sfuList' = call[g].list
      BY <2>1 DEF SubInv, AloneMeansOnly
    <3> QED
      BY <2>2, <3>1, <3>2 DEF AloneTells
  <2>6. SentIsTold'
    BY <2>2 DEF SentIsTold, busy
  <2> QED
    BY <2>3, <2>4, <2>5, <2>6 DEF SubInv
<1>3. ASSUME NEW g \in Goroutine, RpcReturns(g) PROVE SubInv'
  <2>1. /\ call' = [call EXCEPT ![g].step = "recording"] /\ call[g].step = "applied"
        /\ UNCHANGED <<subscribedTracks, sentSubscriptions, session, sfuList, restoringSubs, doubt>>
    BY <1>3 DEF RpcReturns
  <2>2. /\ call' \in [Goroutine -> Call] /\ call'[g].step = "recording" /\ call'[g].list = call[g].list
        /\ call'[g].session = call[g].session /\ (Alone(g)' <=> Alone(g))
        /\ \A h \in Goroutine \ {g} : call'[h] = call[h] /\ (Alone(h)' <=> Alone(h))
    BY <1>0, <2>1 DEF Call, SubTypeOK, Alone
  <2>3. SubTypeOK'
    BY <1>0, <2>1, <2>2 DEF SubTypeOK
  <2>4. AloneMeansOnly' /\ AloneTells'
    BY <2>1, <2>2 DEF SubInv, AloneMeansOnly, AloneTells
  <2>5. SentIsTold'
    BY <2>2 DEF SentIsTold, busy
  <2> QED
    BY <2>3, <2>4, <2>5 DEF SubInv
<1>4. ASSUME NEW g \in Goroutine, sendSubscriptionsRecords(g) PROVE SubInv'
  <2>1. /\ call' = [call EXCEPT ![g] = noCall] /\ call[g].step = "recording"
        /\ sentSubscriptions' = call[g].list /\ UNCHANGED <<subscribedTracks, session, sfuList>>
        /\ restoringSubs' \in BOOLEAN /\ doubt' \in BOOLEAN
        /\ ~doubt' => call[g].alone
    BY <1>4 DEF sendSubscriptionsRecords
  <2>2. /\ call' \in [Goroutine -> Call] /\ call'[g].step = "idle"
        /\ \A h \in Goroutine \ {g} : call'[h] = call[h]
    BY <1>0, <2>1, CallEnds
  <2>3. SubTypeOK'
    BY <1>0, <2>1, <2>2 DEF SubTypeOK, Call
  <2>4. AloneMeansOnly'
    BY <2>1, <2>2 DEF SubInv, AloneMeansOnly, Alone
  <2>5. AloneTells'
    <3>1. \A h \in Goroutine \ {g} : ~Alone(h)
      BY <2>1 DEF SubInv, AloneMeansOnly
    <3> QED
      BY <2>2, <3>1 DEF AloneTells, Alone
  <2>6. SentIsTold'
    BY <2>1 DEF SubInv, SentIsTold, AloneTells, Alone
  <2> QED
    BY <2>3, <2>4, <2>5, <2>6 DEF SubInv
<1>5. ASSUME NEW g \in Goroutine, sendSubscriptionsFails(g) PROVE SubInv'
  <2>1. /\ call' = [call EXCEPT ![g] = noCall] /\ call[g].step \in {"sending", "applied"}
        /\ UNCHANGED <<subscribedTracks, sentSubscriptions, session, sfuList, restoringSubs>>
        /\ doubt' \in BOOLEAN /\ (~doubt' => ~doubt /\ call[g].step # "applied" /\ call[g].alone)
    BY <1>5 DEF sendSubscriptionsFails
  <2>2. /\ call' \in [Goroutine -> Call] /\ call'[g].step = "idle"
        /\ \A h \in Goroutine \ {g} : call'[h] = call[h]
    BY <1>0, <2>1, CallEnds
  <2>3. SubTypeOK'
    BY <1>0, <2>1, <2>2 DEF SubTypeOK
  <2>4. AloneMeansOnly'
    BY <2>1, <2>2 DEF SubInv, AloneMeansOnly, Alone
  <2>5. AloneTells'
    <3>1. \A h \in Goroutine \ {g} : ~Alone(h)
      BY <2>1 DEF SubInv, AloneMeansOnly
    <3> QED
      BY <2>2, <3>1 DEF AloneTells, Alone
  <2>6. SentIsTold'
    BY <2>1 DEF SubInv, SentIsTold, AloneTells, Alone
  <2> QED
    BY <2>3, <2>4, <2>5, <2>6 DEF SubInv
<1>6. CASE NewSession
  <2>1. /\ session < MaxSessions /\ session' = session + 1 /\ sentSubscriptions' = NoList
        /\ sfuList' = Empty /\ restoringSubs' = TRUE /\ doubt' \in BOOLEAN /\ UNCHANGED subscribedTracks
        /\ call' = [g \in Goroutine |-> IF g \in busy THEN [call[g] EXCEPT !.alone = FALSE] ELSE call[g]]
    BY <1>6 DEF NewSession, initSubscriber
  <2>2. call' \in [Goroutine -> Call]
    BY <1>0, <2>1 DEF Call
  <2>3. \A h \in Goroutine : ~Alone(h)'
    <3> TAKE h \in Goroutine
    <3>1. CASE h \in busy
      BY <1>0, <2>1, <3>1 DEF Alone, Call
    <3>2. CASE h \notin busy
      BY <2>1, <3>2 DEF Alone, busy
    <3> QED
      BY <3>1, <3>2
  <2>4. SubTypeOK'
    BY <1>0, <2>1, <2>2, SubscriptionsAssumption DEF SubTypeOK, List
  <2> QED
    BY <2>1, <2>3, <2>4 DEF SubInv, AloneMeansOnly, AloneTells, SentIsTold
<1>7. CASE restoreSubscribedTracks
  <2>1. /\ Monitor \in Goroutine /\ Monitor \notin busy /\ startSend(Monitor, subscribedTracks)
        /\ subscribedTracks \in List
        /\ UNCHANGED <<subscribedTracks, sentSubscriptions, session, sfuList, restoringSubs, doubt>>
    BY <1>0, <1>7 DEF restoreSubscribedTracks, Goroutine, SubTypeOK
  <2> QED
    BY <2>1, StartStep
<1>8. CASE UNCHANGED subVars
  BY <1>8 DEF subVars, SubInv, SubTypeOK, AloneMeansOnly, AloneTells, Alone, SentIsTold, busy
<1> QED
  BY <1>1, <1>2, <1>3, <1>4, <1>5, <1>6, <1>7, <1>8 DEF SubNext

\* SubscribeToTracks and sendSubscriptions: with any number of goroutines and
\* sessions, the list the dedup check compares with is the list the session has,
\* unless RPCs overlapped or a reply was lost.
THEOREM SubscriptionsToldCorrect == SubSpec => []SubscriptionsTold
<1>1. SubInv => SubscriptionsTold
  BY DEF SubInv, SubscriptionsTold
<1> QED
  BY <1>1, SubInvInit, SubInvStep, PTL DEF SubSpec

-----------------------------------------------------------------------------
(***************************************************************************)
(* Publishing.                                                             *)
(***************************************************************************)

Adding == [at : {"idle", "listed", "peer"}, track : Nat, peer : Nat]

PubTypes ==
    /\ adding \in [Adder -> Adding]
    /\ offer \in [out : BOOLEAN, sdp : SUBSET PubTrack]
    /\ announced \in [sdp : SUBSET PubTrack, infos : SUBSET PubTrack]
    /\ word \in [Rid -> [active : BOOLEAN, to : SUBSET PubTrack]]

\* A call that has read the current publisher names one, and one that has not does not.
AddersKnow ==
    \A g \in Adder :
        /\ adding[g].at # "idle" => adding[g].track \in PubTrack
        /\ adding[g].at = "listed" => adding[g].peer = 0
        /\ adding[g].at = "peer" => adding[g].peer # 0

\* g will still deal with t, on the publisher that is current.
Serves(g, t) ==
    adding[g].track = t /\ adding[g].at # "idle" /\ adding[g].peer \in {0, pubPeer}

\* The first part of TracksReachSfu.
TracksCovered ==
    restoring.at = "none" =>
        \A t \in ToSet(publishedTracks) :
            t \in pubTracks \cup unserved \/ \E g \in Adder : Serves(g, t)

\* A restore has dealt with the tracks before the next one.
RestoredSoFar ==
    /\ restoring.next <= Len(publishedTracks) + 1
    /\ restoring.at # "adding" => restoring.next = 1
    /\ \A i \in DOMAIN publishedTracks :
           i < restoring.next => publishedTracks[i] \in pubTracks \cup unserved

\* With no offer to make, the one under way or the last one has every track.
OffersFollow ==
    restoring.at = "none" /\ ~negotiate =>
        /\ offer.out => pubTracks \subseteq offer.sdp
        /\ ~offer.out => pubTracks \subseteq announced.sdp \cap announced.infos

PubInv ==
    /\ PublishTypeOK /\ PubTypes /\ AddersKnow
    /\ TracksCovered /\ RestoredSoFar /\ OffersFollow /\ LayersFollowSfu

\* A list without repetition is no longer than there are tracks.
LEMMA ListBounded ==
    ASSUME NEW s \in Seq(PubTrack), IsInjective(s)
    PROVE  Cardinality(PubTrack) \in Nat /\ Len(s) <= Cardinality(PubTrack)
<1>1. IsFiniteSet(PubTrack) /\ Len(s) \in Nat /\ DOMAIN s = 1..Len(s)
  BY PubTrackAssumption
<1>2. s \in Injection(1..Len(s), PubTrack)
  BY <1>1 DEF Injection
<1>3. Cardinality(1..Len(s)) <= Cardinality(PubTrack)
  BY <1>1, <1>2, FS_Injection
<1>4. Cardinality(1..Len(s)) = Len(s)
  BY <1>1, FS_Interval
<1>5. Cardinality(PubTrack) \in Nat
  BY <1>1, FS_CardinalityType
<1> QED
  BY <1>3, <1>4, <1>5

LEMMA PubInvInit == PublishInit => PubInv
<1> SUFFICES ASSUME PublishInit PROVE PubInv
  OBVIOUS
<1>1. Cardinality(PubTrack) \in Nat
  BY PubTrackAssumption, FS_CardinalityType
<1>2. publishedTracks \in Seq(PubTrack) /\ publishedTracks = <<>>
      /\ DOMAIN publishedTracks = {} /\ Len(publishedTracks) = 0
  BY DEF PublishInit
<1>3. idleAdder \in Adding
  BY DEF idleAdder, Adding
<1>4. PublishTypeOK
  <2>1. negotiate \in BOOLEAN
    BY DEF PublishInit
  <2>2. restoring \in [at : {"none", "joining", "adding", "failed"},
                       next : 1..Cardinality(PubTrack) + 1]
    BY <1>1 DEF PublishInit
  <2>3. IsInjective(publishedTracks)
    BY <1>2 DEF IsInjective
  <2>4. pubPeer \in 1..MaxPubPeers
    BY PubTrackAssumption DEF PublishInit
  <2> QED
    BY <1>2, <2>1, <2>2, <2>3, <2>4 DEF PublishInit, PublishTypeOK, idleAdder
<1>5. PubTypes
  <2>1. offer \in [out : BOOLEAN, sdp : SUBSET PubTrack]
    BY DEF PublishInit, noOffer
  <2>2. silent \in [active : BOOLEAN, to : SUBSET PubTrack]
    BY DEF silent
  <2> QED
    BY <1>3, <2>1, <2>2 DEF PublishInit, PubTypes
<1>6. AddersKnow
  BY DEF PublishInit, AddersKnow, idleAdder
<1>7. TracksCovered /\ RestoredSoFar
  BY <1>2 DEF PublishInit, TracksCovered, RestoredSoFar, ToSet
<1>8. OffersFollow /\ LayersFollowSfu
  BY DEF PublishInit, OffersFollow, LayersFollowSfu, noOffer, silent
<1> QED
  BY <1>4, <1>5, <1>6, <1>7, <1>8 DEF PubInv

\* One step of a goroutine's call: its entry is g's only.
LEMMA AddStep ==
    ASSUME PubInv, NEW g \in Adder, NEW entry \in Adding,
           adding' = [adding EXCEPT ![g] = entry],
           entry.at # "idle" => entry.track \in PubTrack,
           entry.at = "listed" => entry.peer = 0,
           entry.at = "peer" => entry.peer # 0
    PROVE  /\ adding' \in [Adder -> Adding] /\ AddersKnow'
           /\ \A h \in Adder : adding'[h] = IF h = g THEN entry ELSE adding[h]
           /\ \A h \in Adder : adding'[h].at \in {"idle", "listed", "peer"}
<1>1. adding \in [Adder -> Adding] /\ AddersKnow
  BY DEF PubInv, PubTypes
<1>2. adding' \in [Adder -> Adding]
  BY <1>1
<1>3. \A h \in Adder : adding'[h] = IF h = g THEN entry ELSE adding[h]
  BY <1>1
<1>4. \A h \in Adder : adding'[h].at \in {"idle", "listed", "peer"}
  BY <1>2 DEF Adding
<1>5. AddersKnow'
  BY <1>1, <1>3 DEF AddersKnow
<1> QED
  BY <1>2, <1>3, <1>4, <1>5

LEMMA AddTrackListsKeeps ==
    ASSUME PubInv, NEW g \in Adder, NEW t \in PubTrack, AddTrackLists(g, t)
    PROVE  PubInv'
<1> DEFINE entry == [at |-> "listed", track |-> t, peer |-> 0]
<1>1. /\ publishedTracks \in Seq(PubTrack) /\ IsInjective(publishedTracks)
      /\ t \notin ToSet(publishedTracks) /\ publishedTracks' = Append(publishedTracks, t)
      /\ restoring.at # "adding" /\ restoring' = restoring /\ pubPeer' = pubPeer
      /\ pubTracks' = pubTracks /\ unserved' = unserved
      /\ adding[g].at = "idle" /\ adding' = [adding EXCEPT ![g] = entry]
  BY DEF PubInv, PublishTypeOK, AddTrackLists, peerVars
<1>2. t \in Nat /\ entry \in Adding /\ entry.at = "listed" /\ entry.peer = 0 /\ entry.track = t
  BY PubTrackAssumption DEF Adding
<1> HIDE DEF entry
<1>3. /\ adding' \in [Adder -> Adding] /\ AddersKnow'
      /\ \A h \in Adder : adding'[h] = IF h = g THEN entry ELSE adding[h]
      /\ \A h \in Adder : adding'[h].at \in {"idle", "listed", "peer"}
  BY <1>1, <1>2, AddStep
<1>4. /\ publishedTracks' \in Seq(PubTrack)
      /\ Len(publishedTracks') = Len(publishedTracks) + 1 /\ Len(publishedTracks) \in Nat
      /\ DOMAIN publishedTracks' = 1..Len(publishedTracks) + 1
      /\ DOMAIN publishedTracks = 1..Len(publishedTracks)
      /\ \A i \in 1..Len(publishedTracks) : publishedTracks'[i] = publishedTracks[i]
      /\ publishedTracks'[Len(publishedTracks) + 1] = t
  BY <1>1
<1>5. \A i \in 1..Len(publishedTracks) : publishedTracks[i] # t
  BY <1>1, <1>4 DEF ToSet
<1>6. IsInjective(publishedTracks')
  BY <1>1, <1>4, <1>5 DEF IsInjective
<1>7. PublishTypeOK'
  <2>1. negotiate' \in BOOLEAN
    BY DEF PubInv, PublishTypeOK, AddTrackLists, peerVars
  <2>2. restoring' \in [at : {"none", "joining", "adding", "failed"},
                        next : 1..Cardinality(PubTrack) + 1]
    BY <1>1 DEF PubInv, PublishTypeOK
  <2> QED
    BY <1>1, <1>3, <1>4, <1>6, <2>1, <2>2
    DEF PubInv, PublishTypeOK, AddTrackLists, peerVars, layerVars
<1>8. TracksCovered'
  <2> SUFFICES ASSUME restoring.at = "none", NEW u \in ToSet(publishedTracks')
               PROVE  u \in pubTracks \cup unserved \/ \E h \in Adder : Serves(h, u)'
    BY <1>1 DEF TracksCovered
  <2>1. PICK i \in 1..Len(publishedTracks) + 1 : u = publishedTracks'[i]
    BY <1>4 DEF ToSet
  <2>2. CASE i = Len(publishedTracks) + 1
    <3>1. Serves(g, u)'
      BY <1>2, <1>3, <1>4, <2>1, <2>2 DEF Serves
    <3> QED
      BY <3>1
  <2>3. CASE i # Len(publishedTracks) + 1
    <3>1. u \in ToSet(publishedTracks)
      BY <1>4, <2>1, <2>3 DEF ToSet
    <3>2. CASE u \in pubTracks \cup unserved
      BY <3>2
    <3>3. CASE \E h \in Adder : Serves(h, u)
      <4>1. PICK h \in Adder : Serves(h, u)
        BY <3>3
      <4>2. Serves(h, u)'
        BY <1>1, <1>3, <4>1 DEF Serves
      <4> QED
        BY <4>2
    <3> QED
      BY <3>1, <3>2, <3>3 DEF PubInv, TracksCovered
  <2> QED
    BY <2>2, <2>3
<1>9. RestoredSoFar'
  <2>1. restoring.next = 1
    BY <1>1 DEF PubInv, RestoredSoFar
  <2> QED
    BY <1>1, <1>4, <2>1 DEF RestoredSoFar
<1>10. OffersFollow' /\ LayersFollowSfu'
  BY DEF PubInv, AddTrackLists, peerVars, layerVars, OffersFollow, LayersFollowSfu
<1>11. PubTypes'
  BY <1>3 DEF PubInv, PubTypes, AddTrackLists, peerVars, layerVars
<1> QED
  BY <1>3, <1>7, <1>8, <1>9, <1>10, <1>11 DEF PubInv

LEMMA publisherPeerKeeps ==
    ASSUME PubInv, NEW g \in Adder, publisherPeer(g)
    PROVE  PubInv'
<1> DEFINE entry == [adding[g] EXCEPT !.at = "peer", !.peer = pubPeer]
<1>1. /\ adding \in [Adder -> Adding] /\ adding[g] \in Adding
      /\ adding[g].at = "listed" /\ adding[g].track \in PubTrack /\ adding[g].peer = 0
      /\ pubPeer \in Nat \ {0}
  BY PubTrackAssumption DEF PubInv, PubTypes, PublishTypeOK, AddersKnow, publisherPeer
<1>2. entry \in Adding /\ entry.at = "peer" /\ entry.peer = pubPeer
      /\ entry.track = adding[g].track
  BY <1>1 DEF Adding
<1>3. adding' = [adding EXCEPT ![g] = entry]
  BY <1>1 DEF publisherPeer
<1>4. /\ UNCHANGED <<publishedTracks, pubPeer, restoring, unserved>>
      /\ UNCHANGED <<senders, pubTracks, negotiate, offer, announced, muted, word>>
  BY DEF publisherPeer, peerVars, layerVars
<1> HIDE DEF entry
<1>5. /\ adding' \in [Adder -> Adding] /\ AddersKnow'
      /\ \A h \in Adder : adding'[h] = IF h = g THEN entry ELSE adding[h]
      /\ \A h \in Adder : adding'[h].at \in {"idle", "listed", "peer"}
  BY <1>1, <1>2, <1>3, AddStep
<1>6. PublishTypeOK' /\ PubTypes'
  BY <1>4, <1>5 DEF PubInv, PublishTypeOK, PubTypes
<1>7. TracksCovered'
  <2>1. \A h \in Adder : \A u : Serves(h, u) => Serves(h, u)'
    BY <1>1, <1>2, <1>4, <1>5 DEF Serves
  <2> QED
    BY <1>4, <2>1 DEF PubInv, TracksCovered
<1>8. RestoredSoFar' /\ OffersFollow' /\ LayersFollowSfu'
  BY <1>4 DEF PubInv, RestoredSoFar, OffersFollow, LayersFollowSfu
<1> QED
  BY <1>5, <1>6, <1>7, <1>8 DEF PubInv

\* The publisher takes a track or refuses it: nothing that was covered is lost.
LEMMA ServingKeeps ==
    ASSUME PubInv, NEW t \in PubTrack, addsTransceiver(t) \/ refusesTrack(t)
    PROVE  /\ senders' \subseteq PubTrack /\ pubTracks' \subseteq senders'
           /\ unserved' \subseteq PubTrack
           /\ pubTracks \cup unserved \cup {t} = pubTracks' \cup unserved'
<1>1. senders \subseteq PubTrack /\ pubTracks \subseteq senders /\ unserved \subseteq PubTrack
  BY DEF PubInv, PublishTypeOK
<1>2. CASE addsTransceiver(t)
  BY <1>1, <1>2 DEF addsTransceiver
<1>3. CASE refusesTrack(t)
  BY <1>1, <1>3 DEF refusesTrack
<1> QED
  BY <1>2, <1>3

LEMMA AddTrackReturnsKeeps ==
    ASSUME PubInv, NEW g \in Adder, AddTrackReturns(g)
    PROVE  PubInv'
<1> DEFINE t == adding[g].track
<1>1. /\ adding \in [Adder -> Adding] /\ adding[g].at = "peer" /\ t \in PubTrack
      /\ adding[g].peer # 0 /\ adding' = [adding EXCEPT ![g] = idleAdder]
      /\ UNCHANGED <<publishedTracks, pubPeer, restoring, offer, announced, muted, word>>
  BY DEF PubInv, PubTypes, AddersKnow, AddTrackReturns, layerVars
<1>2. idleAdder \in Adding /\ idleAdder.at = "idle"
  BY DEF idleAdder, Adding
<1>3. /\ adding' \in [Adder -> Adding] /\ AddersKnow'
      /\ \A h \in Adder : adding'[h] = IF h = g THEN idleAdder ELSE adding[h]
      /\ \A h \in Adder : adding'[h].at \in {"idle", "listed", "peer"}
  BY <1>1, <1>2, AddStep
<1>4. \/ adding[g].peer # pubPeer /\ UNCHANGED <<senders, pubTracks, unserved, negotiate>>
      \/ adding[g].peer = pubPeer /\ addsTransceiver(t) /\ negotiate' = TRUE
      \/ adding[g].peer = pubPeer /\ refusesTrack(t) /\ UNCHANGED negotiate
  BY DEF AddTrackReturns
<1> HIDE DEF t
<1>5. /\ senders' \subseteq PubTrack /\ pubTracks' \subseteq senders' /\ unserved' \subseteq PubTrack
      /\ pubTracks \cup unserved \subseteq pubTracks' \cup unserved'
      /\ adding[g].peer = pubPeer => t \in pubTracks' \cup unserved'
  <2>1. CASE UNCHANGED <<senders, pubTracks, unserved, negotiate>> /\ adding[g].peer # pubPeer
    BY <2>1 DEF PubInv, PublishTypeOK
  <2>2. CASE addsTransceiver(t) \/ refusesTrack(t)
    BY <1>1, <2>2, ServingKeeps
  <2> QED
    BY <1>4, <2>1, <2>2
<1>6. PublishTypeOK'
  <2>1. negotiate' \in BOOLEAN
    BY <1>4 DEF PubInv, PublishTypeOK
  <2> QED
    BY <1>1, <1>3, <1>5, <2>1 DEF PubInv, PublishTypeOK
<1>7. PubTypes'
  BY <1>1, <1>3 DEF PubInv, PubTypes
<1>8. TracksCovered'
  <2> SUFFICES ASSUME restoring.at = "none", NEW u \in ToSet(publishedTracks)
               PROVE  u \in pubTracks' \cup unserved' \/ \E h \in Adder : Serves(h, u)'
    BY <1>1 DEF TracksCovered
  <2>1. CASE u \in pubTracks \cup unserved
    BY <1>5, <2>1
  <2>2. CASE \E h \in Adder : Serves(h, u)
    <3>1. PICK h \in Adder : Serves(h, u)
      BY <2>2
    <3>2. CASE h = g
      BY <1>1, <1>5, <3>1, <3>2 DEF Serves, t
    <3>3. CASE h # g
      <4>1. Serves(h, u)'
        BY <1>1, <1>3, <3>1, <3>3 DEF Serves
      <4> QED
        BY <4>1
    <3> QED
      BY <3>2, <3>3
  <2> QED
    BY <2>1, <2>2 DEF PubInv, TracksCovered
<1>9. RestoredSoFar'
  BY <1>1, <1>5 DEF PubInv, RestoredSoFar
<1>10. OffersFollow'
  <2>1. CASE negotiate' = TRUE
    BY <2>1 DEF OffersFollow
  <2>2. CASE UNCHANGED <<negotiate, pubTracks>>
    BY <1>1, <2>2 DEF PubInv, OffersFollow
  <2> QED
    BY <1>4, <2>1, <2>2 DEF refusesTrack
<1>11. LayersFollowSfu'
  BY <1>1 DEF PubInv, LayersFollowSfu
<1> QED
  BY <1>3, <1>6, <1>7, <1>8, <1>9, <1>10, <1>11 DEF PubInv

LEMMA RestoreTrackKeeps ==
    ASSUME PubInv, RestoreTrack
    PROVE  PubInv'
<1> DEFINE t == publishedTracks[restoring.next]
<1> DEFINE Restoring == [at : {"none", "joining", "adding", "failed"},
                         next : 1..Cardinality(PubTrack) + 1]
<1>1. /\ restoring.at = "adding" /\ restoring.next \in DOMAIN publishedTracks
      /\ UNCHANGED <<publishedTracks, pubPeer, adding, negotiate, offer, announced, muted, word>>
      /\ \/ addsTransceiver(t) /\ restoring' = [restoring EXCEPT !.next = @ + 1]
         \/ refusesTrack(t) /\ restoring' = [at |-> "failed", next |-> 1]
  BY DEF RestoreTrack, layerVars
<1>2. /\ publishedTracks \in Seq(PubTrack) /\ IsInjective(publishedTracks)
      /\ restoring \in Restoring
  BY DEF PubInv, PublishTypeOK
<1>3. /\ DOMAIN publishedTracks = 1..Len(publishedTracks) /\ Len(publishedTracks) \in Nat
      /\ t \in PubTrack
  BY <1>1, <1>2
<1>4. Cardinality(PubTrack) \in Nat /\ Len(publishedTracks) <= Cardinality(PubTrack)
  BY <1>2, ListBounded
<1>5. /\ senders' \subseteq PubTrack /\ pubTracks' \subseteq senders' /\ unserved' \subseteq PubTrack
      /\ pubTracks \cup unserved \cup {t} = pubTracks' \cup unserved'
  BY <1>1, <1>3, ServingKeeps
<1>6. restoring' \in Restoring /\ restoring'.at # "none" /\ RestoredSoFar'
  <2>1. CASE restoring' = [restoring EXCEPT !.next = @ + 1]
    <3>1. restoring'.at = "adding" /\ restoring'.next = restoring.next + 1
      BY <1>1, <1>2, <2>1
    <3>2. restoring.next \in 1..Len(publishedTracks)
      BY <1>1, <1>3
    <3>3. restoring' \in Restoring
      BY <1>2, <1>3, <1>4, <2>1, <3>2
    <3>4. \A i \in DOMAIN publishedTracks :
              i < restoring'.next => publishedTracks[i] \in pubTracks' \cup unserved'
      <4> SUFFICES ASSUME NEW i \in DOMAIN publishedTracks, i < restoring'.next
                   PROVE  publishedTracks[i] \in pubTracks' \cup unserved'
        OBVIOUS
      <4>1. i < restoring.next \/ i = restoring.next
        BY <1>3, <3>1, <3>2
      <4> QED
        BY <1>5, <4>1 DEF PubInv, RestoredSoFar
    <3> HIDE DEF Restoring
    <3> QED
      BY <1>1, <1>3, <3>1, <3>2, <3>3, <3>4 DEF RestoredSoFar
  <2>2. CASE restoring' = [at |-> "failed", next |-> 1]
    BY <1>1, <1>3, <1>4, <2>2 DEF RestoredSoFar
  <2> QED
    BY <1>1, <2>1, <2>2
<1>7. PublishTypeOK'
  <2>1. negotiate' \in BOOLEAN
    BY <1>1 DEF PubInv, PublishTypeOK
  <2> QED
    BY <1>1, <1>5, <1>6, <2>1 DEF PubInv, PublishTypeOK
<1>8. PubTypes' /\ AddersKnow' /\ LayersFollowSfu'
  BY <1>1 DEF PubInv, PubTypes, AddersKnow, LayersFollowSfu
<1>9. TracksCovered' /\ OffersFollow'
  BY <1>6 DEF TracksCovered, OffersFollow
<1> QED
  BY <1>6, <1>7, <1>8, <1>9 DEF PubInv

LEMMA OnChangePublishQualityKeeps ==
    ASSUME PubInv, NEW r \in Rid, NEW active \in BOOLEAN, OnChangePublishQuality(r, active)
    PROVE  PubInv'
<1> DEFINE heard == [active |-> active, to |-> pubTracks]
<1>1. /\ word \in [Rid -> [active : BOOLEAN, to : SUBSET PubTrack]]
      /\ muted \subseteq PubTrack \X Rid /\ pubTracks \subseteq PubTrack /\ LayersFollowSfu
      /\ word' = [word EXCEPT ![r] = heard]
      /\ muted' = IF videoTracksByRID = {} THEN muted
                  ELSE SetMuted(CHOOSE t \in videoTracksByRID : TRUE, r, active)
  BY DEF PubInv, PubTypes, PublishTypeOK, OnChangePublishQuality
<1>2. /\ UNCHANGED <<publishedTracks, pubPeer, adding, restoring, unserved>>
      /\ UNCHANGED <<senders, pubTracks, negotiate, offer, announced>>
  BY DEF OnChangePublishQuality, peerVars
<1>3. heard \in [active : BOOLEAN, to : SUBSET PubTrack]
  BY <1>1
<1>4. heard.to = pubTracks /\ heard.active = active
  OBVIOUS
<1> HIDE DEF heard
<1>5. word' \in [Rid -> [active : BOOLEAN, to : SUBSET PubTrack]]
      /\ word'[r] = heard /\ \A q \in Rid \ {r} : word'[q] = word[q]
  BY <1>1, <1>3
<1>6. muted' = muted \/ \E t \in pubTracks : muted' = SetMuted(t, r, active)
  <2>1. CASE videoTracksByRID = {}
    BY <1>1, <2>1
  <2>2. CASE videoTracksByRID # {}
    <3>1. (CHOOSE t \in videoTracksByRID : TRUE) \in videoTracksByRID
      BY <2>2
    <3> QED
      BY <1>1, <2>2, <3>1 DEF videoTracksByRID
  <2> QED
    BY <2>1, <2>2
<1>7. /\ muted' \subseteq PubTrack \X Rid
      /\ \A q \in Rid \ {r} : \A t \in PubTrack : <<t, q>> \in muted' <=> <<t, q>> \in muted
  <2>1. CASE muted' = muted
    BY <1>1, <2>1
  <2>2. CASE \E t \in pubTracks : muted' = SetMuted(t, r, active)
    <3>1. PICK t \in pubTracks : muted' = muted \ {<<t, r>>} \/ muted' = muted \cup {<<t, r>>}
      BY <2>2 DEF SetMuted
    <3>2. <<t, r>> \in PubTrack \X Rid
      BY <1>1
    <3>3. \A q \in Rid \ {r} : \A u \in PubTrack : <<u, q>> # <<t, r>>
      OBVIOUS
    <3> QED
      BY <1>1, <3>1, <3>2, <3>3
  <2> QED
    BY <1>6, <2>1, <2>2
<1>8. LayersFollowSfu'
  <2> SUFFICES ASSUME NEW q \in Rid, NEW t \in PubTrack, word'[q].to = {t}
               PROVE  (<<t, q>> \in muted') <=> ~word'[q].active
    BY DEF LayersFollowSfu
  <2>1. CASE q # r
    BY <1>1, <1>5, <1>7, <2>1 DEF LayersFollowSfu
  <2>2. CASE q = r
    <3>1. pubTracks = {t} /\ word'[q].active = active
      BY <1>4, <1>5, <2>2
    <3>2. t \in Nat /\ t <= t
      BY PubTrackAssumption
    <3>3. videoTracksByRID = {t}
      BY <3>1, <3>2 DEF videoTracksByRID
    <3>4. muted' = SetMuted(t, r, active)
      BY <1>1, <3>3
    <3>5. (<<t, r>> \in SetMuted(t, r, active)) <=> ~active
      BY DEF SetMuted
    <3> QED
      BY <2>2, <3>1, <3>4, <3>5
  <2> QED
    BY <2>1, <2>2
<1>9. PublishTypeOK'
  <2>1. negotiate' \in BOOLEAN
    BY <1>2 DEF PubInv, PublishTypeOK
  <2> QED
    BY <1>2, <1>7, <2>1 DEF PubInv, PublishTypeOK
<1>10. PubTypes' /\ AddersKnow'
  BY <1>2, <1>5 DEF PubInv, PubTypes, AddersKnow
<1>11. TracksCovered' /\ RestoredSoFar' /\ OffersFollow'
  BY <1>2 DEF PubInv, TracksCovered, Serves, RestoredSoFar, OffersFollow
<1> QED
  BY <1>8, <1>9, <1>10, <1>11 DEF PubInv

LEMMA PubInvStep == PubInv /\ [PublishNext]_publishVars => PubInv'
<1> SUFFICES ASSUME PubInv, [PublishNext]_publishVars PROVE PubInv'
  OBVIOUS
<1> DEFINE Restoring == [at : {"none", "joining", "adding", "failed"},
                         next : 1..Cardinality(PubTrack) + 1]
<1>1. /\ publishedTracks \in Seq(PubTrack) /\ IsInjective(publishedTracks)
      /\ restoring \in Restoring /\ negotiate \in BOOLEAN
      /\ pubPeer \in 1..MaxPubPeers /\ MaxPubPeers \in Nat
      /\ pubTracks \subseteq senders /\ senders \subseteq PubTrack
  BY PubTrackAssumption DEF PubInv, PublishTypeOK
<1>2. Cardinality(PubTrack) \in Nat /\ Len(publishedTracks) \in Nat
      /\ DOMAIN publishedTracks = 1..Len(publishedTracks)
  BY <1>1, ListBounded
<1>3. CASE NewPublisher
  <2>1. /\ pubPeer < MaxPubPeers /\ pubPeer' = pubPeer + 1
        /\ senders' = {} /\ pubTracks' = {} /\ negotiate' = FALSE
        /\ offer' = noOffer /\ announced' = [sdp |-> {}, infos |-> {}]
        /\ restoring' = [at |-> "joining", next |-> 1]
        /\ UNCHANGED <<publishedTracks, adding, unserved, muted, word>>
    BY <1>3 DEF NewPublisher, layerVars
  <2>2. restoring' \in Restoring /\ restoring'.at = "joining" /\ restoring'.next = 1
    BY <1>2, <2>1
  <2>3. pubPeer' \in 1..MaxPubPeers
    BY <1>1, <2>1
  <2>4. PublishTypeOK'
    <3>1. negotiate' \in BOOLEAN
      BY <2>1
    <3> QED
      BY <2>1, <2>2, <2>3, <3>1 DEF PubInv, PublishTypeOK
  <2>5. PubTypes' /\ AddersKnow' /\ LayersFollowSfu'
    <3>1. offer' \in [out : BOOLEAN, sdp : SUBSET PubTrack]
      BY <2>1 DEF noOffer
    <3> QED
      BY <2>1, <3>1 DEF PubInv, PubTypes, AddersKnow, LayersFollowSfu
  <2>6. TracksCovered' /\ OffersFollow'
    BY <2>2 DEF TracksCovered, OffersFollow
  <2>7. RestoredSoFar'
    BY <1>2, <2>1, <2>2 DEF RestoredSoFar
  <2> QED
    BY <2>4, <2>5, <2>6, <2>7 DEF PubInv
<1>4. CASE restorePublishedTracks
  <2>1. /\ restoring.at = "joining" /\ restoring' = [restoring EXCEPT !.at = "adding"]
        /\ UNCHANGED <<publishedTracks, pubPeer, adding, unserved, muted, word>>
        /\ UNCHANGED <<senders, pubTracks, negotiate, offer, announced>>
    BY <1>4 DEF restorePublishedTracks, peerVars, layerVars
  <2>2. restoring' \in Restoring /\ restoring'.at = "adding" /\ restoring'.next = restoring.next
    BY <1>1, <2>1
  <2>3. PublishTypeOK'
    BY <1>1, <2>1, <2>2 DEF PubInv, PublishTypeOK
  <2>4. PubTypes' /\ AddersKnow' /\ LayersFollowSfu'
    BY <2>1 DEF PubInv, PubTypes, AddersKnow, LayersFollowSfu
  <2>5. TracksCovered' /\ OffersFollow' /\ RestoredSoFar'
    BY <2>1, <2>2 DEF PubInv, TracksCovered, OffersFollow, RestoredSoFar
  <2> QED
    BY <2>3, <2>4, <2>5 DEF PubInv
<1>5. CASE RestoreDone
  <2>1. /\ restoring.at = "adding" /\ restoring.next = Len(publishedTracks) + 1
        /\ restoring' = [at |-> "none", next |-> 1] /\ negotiate' = TRUE
        /\ UNCHANGED <<publishedTracks, pubPeer, adding, unserved, senders, pubTracks>>
        /\ UNCHANGED <<offer, announced, muted, word>>
    BY <1>5 DEF RestoreDone, layerVars
  <2>2. restoring' \in Restoring /\ restoring'.at = "none" /\ restoring'.next = 1
    BY <1>2, <2>1
  <2>3. PublishTypeOK'
    <3>1. negotiate' \in BOOLEAN
      BY <2>1
    <3> QED
      BY <2>1, <2>2, <3>1 DEF PubInv, PublishTypeOK
  <2>4. PubTypes' /\ AddersKnow' /\ LayersFollowSfu'
    BY <2>1 DEF PubInv, PubTypes, AddersKnow, LayersFollowSfu
  <2>5. \A u \in ToSet(publishedTracks) : u \in pubTracks \cup unserved
    <3> SUFFICES ASSUME NEW i \in DOMAIN publishedTracks
                 PROVE  publishedTracks[i] \in pubTracks \cup unserved
      BY DEF ToSet
    <3>1. i < restoring.next
      BY <1>2, <2>1
    <3> QED
      BY <3>1 DEF PubInv, RestoredSoFar
  <2>6. TracksCovered' /\ OffersFollow'
    BY <2>1, <2>5 DEF TracksCovered, OffersFollow
  <2>7. RestoredSoFar'
    BY <1>2, <2>1, <2>2 DEF RestoredSoFar
  <2> QED
    BY <2>3, <2>4, <2>6, <2>7 DEF PubInv
<1>6. CASE CreateOffer
  <2>1. /\ negotiate' = FALSE /\ offer' = [out |-> TRUE, sdp |-> senders]
        /\ UNCHANGED <<publishedTracks, pubPeer, senders, pubTracks, adding, restoring>>
        /\ UNCHANGED <<unserved, announced, muted, word>>
    BY <1>6 DEF CreateOffer, layerVars
  <2>2. offer' \in [out : BOOLEAN, sdp : SUBSET PubTrack] /\ offer'.out /\ offer'.sdp = senders
    BY <1>1, <2>1
  <2>3. PublishTypeOK'
    <3>1. negotiate' \in BOOLEAN
      BY <2>1
    <3> QED
      BY <2>1, <3>1 DEF PubInv, PublishTypeOK
  <2>4. PubTypes' /\ AddersKnow' /\ LayersFollowSfu'
    BY <2>1, <2>2 DEF PubInv, PubTypes, AddersKnow, LayersFollowSfu
  <2>5. TracksCovered' /\ RestoredSoFar'
    BY <2>1 DEF PubInv, TracksCovered, Serves, RestoredSoFar
  <2>6. OffersFollow'
    BY <1>1, <2>1, <2>2 DEF OffersFollow
  <2> QED
    BY <2>3, <2>4, <2>5, <2>6 DEF PubInv
<1>7. CASE OnOfferTracks
  <2>1. /\ offer.out /\ offer' = noOffer
        /\ announced' = [sdp |-> offer.sdp, infos |-> pubTracks]
        /\ UNCHANGED <<publishedTracks, pubPeer, senders, pubTracks, adding, restoring>>
        /\ UNCHANGED <<unserved, negotiate, muted, word>>
    BY <1>7 DEF OnOfferTracks, layerVars
  <2>2. offer' \in [out : BOOLEAN, sdp : SUBSET PubTrack] /\ ~offer'.out
    BY <2>1 DEF noOffer
  <2>3. announced' \in [sdp : SUBSET PubTrack, infos : SUBSET PubTrack]
        /\ announced'.sdp = offer.sdp /\ announced'.infos = pubTracks
    BY <1>1, <2>1 DEF PubInv, PubTypes
  <2>4. PublishTypeOK'
    BY <1>1, <2>1 DEF PubInv, PublishTypeOK
  <2>5. PubTypes' /\ AddersKnow' /\ LayersFollowSfu'
    BY <2>1, <2>2, <2>3 DEF PubInv, PubTypes, AddersKnow, LayersFollowSfu
  <2>6. TracksCovered' /\ RestoredSoFar'
    BY <2>1 DEF PubInv, TracksCovered, Serves, RestoredSoFar
  <2>7. OffersFollow'
    BY <2>1, <2>2, <2>3 DEF PubInv, OffersFollow
  <2> QED
    BY <2>4, <2>5, <2>6, <2>7 DEF PubInv
<1>8. CASE UNCHANGED publishVars
  BY <1>8 DEF publishVars, PubInv, PublishTypeOK, PubTypes, AddersKnow, TracksCovered, Serves,
              RestoredSoFar, OffersFollow, LayersFollowSfu
<1> QED
  BY <1>3, <1>4, <1>5, <1>6, <1>7, <1>8, AddTrackListsKeeps, publisherPeerKeeps,
     AddTrackReturnsKeeps, RestoreTrackKeeps, OnChangePublishQualityKeeps DEF PublishNext

\* Call.AddTrack, restorePublishedTracks, OnOffer and OnChangePublishQuality: with
\* any number of application goroutines, tracks and publishers, no published track
\* is forgotten by a reconnect or left out of the last offer, and the layers are as
\* the SFU last asked for.
THEOREM PublishingSoundCorrect == PublishSpec => []PublishingSound
<1>1. PubInv => PublishingSound
  BY DEF PubInv, PublishingSound, TracksCovered, Serves, OffersFollow, TracksReachSfu
<1> QED
  BY <1>1, PubInvInit, PubInvStep, PTL DEF PublishSpec

(***************************************************************************)
(* Participants.                                                           *)
(***************************************************************************)

\* What the SFU has sent: a participant's coming, going and dominance, its tracks,
\* and the count.
Event ==
    [kind : {"joined", "left", "dominant"}, pid : Pid, type : {Nil}, full : BOOLEAN,
     tracks : SUBSET TrackType, dom : Pid \cup {Nil}]
      \cup [kind : {"published", "unpublished"}, pid : Pid, type : TrackType, full : BOOLEAN,
            tracks : SUBSET TrackType, dom : Pid \cup {Nil}]
      \cup [kind : {"health"}, count : Nat]

\* A participant's place in the id index: an object, or nothing.
Place == Participant \cup {Nil}

\* What a roster says of p.
PlaceIn(r, d, p) == IF p \in DOMAIN r THEN NewParticipant(p, r[p], d) ELSE Nil

\* What an event does to p's place.
Applied(e, p, x) ==
    CASE e.kind = "health" -> x
      [] e.kind = "dominant" -> IF x = Nil THEN Nil ELSE [x EXCEPT !.dominant = p = e.pid]
      [] e.kind \notin {"health", "dominant"} /\ e.pid # p -> x
      [] e.kind = "left" /\ e.pid = p -> Nil
      [] e.kind \notin {"health", "dominant", "left"} /\ e.pid = p /\ (e.kind = "joined" \/ e.full) ->
           NewParticipant(p, e.tracks, e.dom)
      [] OTHER -> IF x = Nil THEN Nil
                  ELSE [x EXCEPT !.published = IF e.kind = "published" THEN @ \cup {e.type}
                                               ELSE @ \ {e.type}]

\* The events es take p's place from x to y.
Leads(es, p, x, y) ==
    \E v \in [0 .. Len(es) -> Place] :
        /\ v[0] = x /\ v[Len(es)] = y
        /\ \A k \in 1 .. Len(es) : v[k] = Applied(es[k], p, v[k - 1])

\* Where those events start: the join response that waits, or the store.
Known(p) ==
    IF response # Nil THEN PlaceIn(response.roster, response.dominant, p) ELSE store.byID[p]

PartTypes == PartTypeOK /\ events \in Seq(Event) /\ response \in {Nil} \cup CallState

\* Before the first answer nothing is sent.
NothingBefore == (store = Nil /\ response = Nil) => joins = 0 /\ events = <<>>

\* A participant found by its id is found by its prefix.
PrefixKept == store # Nil => \A p \in Pid : store.byID[p] # Nil => store.byPrefix[p] = "same"

\* What is known of a participant and the events under way make what the SFU knows.
EventsCatchUp ==
    (store # Nil \/ response # Nil) =>
        \A p \in Pid \ missed : Leads(events, p, Known(p), PlaceIn(roster, dominant, p))

PartInv == PartTypes /\ NothingBefore /\ PrefixKept /\ EventsCatchUp

LEMMA NilApart ==
    Nil \notin Pid /\ Nil \notin Participant /\ Nil \notin CallState /\ Nil \notin ParticipantStore
  BY ParticipantsAssumption

LEMMA NewParticipantType ==
    ASSUME NEW p, NEW tracks \in SUBSET TrackType, NEW d
    PROVE  NewParticipant(p, tracks, d) \in Participant
<1>1. (d = p) \in BOOLEAN
  OBVIOUS
<1> QED
  BY <1>1 DEF NewParticipant, Participant

LEMMA RosterType ==
    ASSUME NEW r \in Roster
    PROVE  DOMAIN r \subseteq Pid /\ r \in [DOMAIN r -> SUBSET TrackType]
           /\ \A q \in DOMAIN r : r[q] \in SUBSET TrackType
<1>1. PICK P \in SUBSET Pid : r \in [P -> SUBSET TrackType]
  BY DEF Roster
<1> QED
  BY <1>1

LEMMA RosterBuilt ==
    ASSUME NEW P \in SUBSET Pid, NEW r \in [P -> SUBSET TrackType]
    PROVE  r \in Roster
  BY DEF Roster

LEMMA PlaceType ==
    ASSUME NEW r \in Roster, NEW d, NEW p \in Pid
    PROVE  PlaceIn(r, d, p) \in Place
<1>1. CASE p \in DOMAIN r
  <2>1. r[p] \in SUBSET TrackType
    BY <1>1, RosterType
  <2>2. NewParticipant(p, r[p], d) \in Participant
    BY <2>1, NewParticipantType
  <2> QED
    BY <1>1, <2>2 DEF PlaceIn, Place
<1>2. CASE p \notin DOMAIN r
  BY <1>2 DEF PlaceIn, Place
<1> QED
  BY <1>1, <1>2

LEMMA AppliedType ==
    ASSUME NEW e \in Event, NEW p \in Pid, NEW x \in Place
    PROVE  Applied(e, p, x) \in Place
<1>1. CASE e.kind = "health"
  BY <1>1 DEF Applied
<1>2. CASE e.kind = "dominant"
  <2>1. Applied(e, p, x) = IF x = Nil THEN Nil ELSE [x EXCEPT !.dominant = (p = e.pid)]
    BY <1>2 DEF Applied
  <2>2. CASE x # Nil
    <3>1. (p = e.pid) \in BOOLEAN /\ x \in Participant
      BY <2>2 DEF Place
    <3>2. PICK b \in BOOLEAN : b = (p = e.pid)
      BY <3>1
    <3>3. [x EXCEPT !.dominant = b] \in Participant
      BY <3>1 DEF Participant
    <3> QED
      BY <2>1, <2>2, <3>2, <3>3 DEF Place
  <2> QED
    BY <2>1, <2>2 DEF Place
<1>3. CASE e.kind \notin {"health", "dominant"} /\ e.pid # p
  BY <1>3 DEF Applied
<1>4. CASE e.kind = "left" /\ e.pid = p
  BY <1>4 DEF Applied, Place
<1>5. CASE e.kind \notin {"health", "dominant", "left"} /\ e.pid = p /\ (e.kind = "joined" \/ e.full)
  <2>1. Applied(e, p, x) = NewParticipant(p, e.tracks, e.dom)
    BY <1>5 DEF Applied
  <2>2. e.tracks \in SUBSET TrackType
    BY <1>5 DEF Event
  <2> QED
    BY <2>1, <2>2, NewParticipantType DEF Place
<1>6. CASE e.kind \notin {"health", "dominant", "left", "joined"} /\ e.pid = p /\ ~e.full
  <2>1. Applied(e, p, x) = IF x = Nil THEN Nil
                           ELSE [x EXCEPT !.published = IF e.kind = "published"
                                                        THEN x.published \cup {e.type}
                                                        ELSE x.published \ {e.type}]
    BY <1>6 DEF Applied
  <2>2. e.type \in TrackType
    BY <1>6 DEF Event
  <2>3. CASE x # Nil
    BY <2>1, <2>2, <2>3 DEF Place, Participant
  <2> QED
    BY <2>1, <2>3 DEF Place
<1> QED
  BY <1>1, <1>2, <1>3, <1>4, <1>5, <1>6

\* No events lead nowhere else.
LEMMA LeadsEmpty ==
    ASSUME NEW p, NEW x \in Place, NEW y
    PROVE  Leads(<<>>, p, x, y) <=> x = y
<1>1. Len(<<>>) = 0
  OBVIOUS
<1>2. ASSUME x = y PROVE Leads(<<>>, p, x, y)
  <2> DEFINE v == [k \in 0 .. Len(<<>>) |-> x]
  <2>1. v \in [0 .. Len(<<>>) -> Place] /\ v[0] = x /\ v[Len(<<>>)] = y
        /\ \A k \in 1 .. Len(<<>>) : v[k] = Applied(<<>>[k], p, v[k - 1])
    BY <1>1, <1>2
  <2> HIDE DEF v
  <2> QED
    BY <2>1 DEF Leads
<1>3. ASSUME Leads(<<>>, p, x, y) PROVE x = y
  BY <1>1, <1>3 DEF Leads
<1> QED
  BY <1>2, <1>3

\* One more event at the end.
LEMMA LeadsAppend ==
    ASSUME NEW es \in Seq(Event), NEW e \in Event, NEW p \in Pid, NEW x, NEW y,
           Leads(es, p, x, y)
    PROVE  Leads(Append(es, e), p, x, Applied(e, p, y))
<1>1. PICK v \in [0 .. Len(es) -> Place] :
        /\ v[0] = x /\ v[Len(es)] = y
        /\ \A k \in 1 .. Len(es) : v[k] = Applied(es[k], p, v[k - 1])
  BY DEF Leads
<1>2. PICK n \in Nat : n = Len(es)
  OBVIOUS
<1>3. PICK fs : fs = Append(es, e)
  OBVIOUS
<1>4. Len(fs) = n + 1 /\ fs[n + 1] = e /\ \A k \in 1 .. n : fs[k] = es[k]
  BY <1>2, <1>3
<1>5. PICK z \in Place : z = Applied(e, p, y)
  <2>1. y \in Place
    BY <1>1, <1>2
  <2> QED
    BY <2>1, AppliedType
<1> DEFINE w == [k \in 0 .. n + 1 |-> IF k <= n THEN v[k] ELSE z]
<1>6. w \in [0 .. n + 1 -> Place] /\ w[0] = x /\ w[n + 1] = z /\ w[n] = y
  BY <1>1, <1>2
<1>7. ASSUME NEW k \in 1 .. n + 1 PROVE w[k] = Applied(fs[k], p, w[k - 1])
  <2>1. CASE k = n + 1
    <3>1. w[k] = z /\ w[k - 1] = y /\ fs[k] = e
      BY <1>4, <1>6, <2>1
    <3> QED
      BY <1>5, <3>1
  <2>2. CASE k # n + 1
    <3>1. k \in 1 .. n /\ k \in 0 .. n /\ k - 1 \in 0 .. n
      BY <2>2
    <3>2. w[k] = v[k] /\ w[k - 1] = v[k - 1] /\ fs[k] = es[k]
      BY <1>4, <3>1
    <3> QED
      BY <1>1, <1>2, <3>1, <3>2
  <2> QED
    BY <2>1, <2>2
<1> HIDE DEF w
<1>8. Leads(fs, p, x, z)
  BY <1>4, <1>6, <1>7 DEF Leads
<1> QED
  BY <1>3, <1>5, <1>8

\* The first event handled.
LEMMA LeadsTail ==
    ASSUME NEW es \in Seq(Event), es # <<>>, NEW p \in Pid, NEW x, NEW y, Leads(es, p, x, y)
    PROVE  Leads(Tail(es), p, Applied(Head(es), p, x), y)
<1>1. PICK v \in [0 .. Len(es) -> Place] :
        /\ v[0] = x /\ v[Len(es)] = y
        /\ \A k \in 1 .. Len(es) : v[k] = Applied(es[k], p, v[k - 1])
  BY DEF Leads
<1>2. PICK n \in Nat : n + 1 = Len(es)
  <2>1. Len(es) \in Nat /\ Len(es) # 0
    OBVIOUS
  <2>2. Len(es) - 1 \in Nat /\ (Len(es) - 1) + 1 = Len(es)
    BY <2>1
  <2> QED
    BY <2>2
<1>3. PICK fs : fs = Tail(es)
  OBVIOUS
<1>4. Len(fs) = n /\ Head(es) = es[1] /\ \A k \in 1 .. n : fs[k] = es[k + 1]
  BY <1>2, <1>3
<1> DEFINE w == [k \in 0 .. n |-> v[k + 1]]
<1>5. w \in [0 .. n -> Place] /\ w[n] = y
  BY <1>1, <1>2, SMTT(30)
<1>6. w[0] = Applied(es[1], p, x)
  <2>1. 1 \in 1 .. Len(es) /\ 1 - 1 = 0 /\ 0 + 1 = 1
    BY <1>2
  <2>2. v[1] = Applied(es[1], p, v[0])
    BY <1>1, <2>1
  <2>3. w[0] = v[1]
    BY <2>1
  <2> QED
    BY <1>1, <2>2, <2>3
<1>7. ASSUME NEW k \in 1 .. n PROVE w[k] = Applied(fs[k], p, w[k - 1])
  <2>1. k + 1 \in 1 .. Len(es) /\ (k + 1) - 1 = k /\ k \in 0 .. n /\ k - 1 \in 0 .. n /\ (k - 1) + 1 = k
    BY <1>2
  <2>2. v[k + 1] = Applied(es[k + 1], p, v[k])
    BY <1>1, <2>1
  <2>3. w[k] = v[k + 1] /\ w[k - 1] = v[k]
    BY <2>1
  <2> QED
    BY <1>4, <2>2, <2>3
<1> HIDE DEF w
<1>8. Leads(fs, p, Applied(es[1], p, x), y)
  BY <1>4, <1>5, <1>6, <1>7 DEF Leads
<1> QED
  BY <1>3, <1>4, <1>8

LEMMA PartInvInit == PartInit => PartInv
<1> SUFFICES ASSUME PartInit PROVE PartInv
  OBVIOUS
<1>1. roster \in Roster
  <2>1. CASE roster = [p \in {} |-> {}]
    <3>1. roster \in [{} -> SUBSET TrackType]
      BY <2>1
    <3> QED
      BY <3>1, RosterBuilt
  <2>2. CASE \E q \in Pid : roster = [p \in {q} |-> {}]
    <3>1. PICK q \in Pid : roster = [p \in {q} |-> {}]
      BY <2>2
    <3>2. roster \in [{q} -> SUBSET TrackType] /\ {q} \in SUBSET Pid
      BY <3>1
    <3> QED
      BY <3>2, RosterBuilt
  <2> QED
    BY <2>1, <2>2 DEF PartInit
<1>2. PartTypes
  <2>1. <<>> \in Seq(Event) /\ 0 \in 0 .. MaxJoins
    BY ParticipantsAssumption
  <2> QED
    BY <1>1, <2>1 DEF PartInit, PartTypes, PartTypeOK
<1> QED
  BY <1>2 DEF PartInit, PartInv, NothingBefore, PrefixKept, EventsCatchUp

\* What every handler comes down to: the event at the head is applied to the store,
\* if there is one, and remembered as missed while a join response waits.
LEMMA HandledKeeps ==
    ASSUME PartInv, events # <<>>, events' = Tail(events),
           UNCHANGED <<roster, dominant, response, joins>>,
           store = Nil => store' = Nil,
           store # Nil =>
             /\ store' \in ParticipantStore
             /\ \A p \in Pid : store'.byID[p] = Applied(Head(events), p, store.byID[p])
             /\ \A p \in Pid : store'.byID[p] # Nil => store'.byPrefix[p] = "same",
           response = Nil => missed' = missed,
           response # Nil =>
             /\ missed \subseteq missed' /\ missed' \subseteq Pid
             /\ \A p \in Pid \ missed' : Head(events).kind = "health"
                  \/ (Head(events).kind # "dominant" /\ Head(events).pid # p)
    PROVE  PartInv'
<1>1. /\ events \in Seq(Event) /\ Head(events) \in Event /\ Tail(events) \in Seq(Event)
      /\ missed' \subseteq Pid /\ missed \subseteq missed'
  BY DEF PartInv, PartTypes, PartTypeOK
<1>2. store \in {Nil} \cup ParticipantStore /\ store' \in {Nil} \cup ParticipantStore
  BY DEF PartInv, PartTypes, PartTypeOK
<1>3. PartTypes'
  BY <1>1, <1>2 DEF PartInv, PartTypes, PartTypeOK
<1>4. NothingBefore'
  <2>1. store' = Nil => store = Nil
    BY <1>2, NilApart
  <2> QED
    BY <2>1 DEF PartInv, NothingBefore
<1>5. PrefixKept'
  BY <1>2 DEF PrefixKept
<1>6. EventsCatchUp'
  <2> SUFFICES ASSUME store' # Nil \/ response # Nil, NEW p \in Pid \ missed'
               PROVE  Leads(Tail(events), p, Known(p)', PlaceIn(roster, dominant, p))
    BY DEF EventsCatchUp
  <2>1. p \in Pid /\ Leads(events, p, Known(p), PlaceIn(roster, dominant, p))
    BY <1>1 DEF PartInv, EventsCatchUp
  <2>2. Leads(Tail(events), p, Applied(Head(events), p, Known(p)), PlaceIn(roster, dominant, p))
    BY <1>1, <2>1, LeadsTail
  <2>3. Applied(Head(events), p, Known(p)) = Known(p)'
    <3>1. CASE response = Nil
      BY <3>1 DEF Known
    <3>2. CASE response # Nil
      <4>1. Known(p)' = Known(p)
        BY <3>2 DEF Known
      <4>2. Applied(Head(events), p, Known(p)) = Known(p)
        BY <3>2 DEF Applied
      <4> QED
        BY <4>1, <4>2
    <3> QED
      BY <3>1, <3>2
  <2> QED
    BY <2>2, <2>3
<1> QED
  BY <1>3, <1>4, <1>5, <1>6 DEF PartInv

LEMMA MissedGrows ==
    ASSUME PartTypes, events # <<>>, NEW kind, Head(events).kind = kind,
           missed' = IF response = Nil \/ kind = "health" THEN missed
                     ELSE IF kind = "dominant" THEN Pid ELSE missed \cup {Head(events).pid}
    PROVE  /\ response = Nil => missed' = missed
           /\ response # Nil =>
                /\ missed \subseteq missed' /\ missed' \subseteq Pid
                /\ \A p \in Pid \ missed' : Head(events).kind = "health"
                     \/ (Head(events).kind # "dominant" /\ Head(events).pid # p)
<1>1. Head(events) \in Event /\ missed \subseteq Pid
  BY DEF PartTypes, PartTypeOK
<1>2. CASE response = Nil \/ kind = "health"
  BY <1>1, <1>2
<1>3. CASE response # Nil /\ kind = "dominant"
  BY <1>1, <1>3
<1>4. CASE response # Nil /\ kind \notin {"health", "dominant"}
  <2>1. missed' = missed \cup {Head(events).pid}
    BY <1>4
  <2>2. Head(events).pid \in Pid
    BY <1>1, <1>4 DEF Event
  <2> QED
    BY <1>1, <1>4, <2>1, <2>2
<1> QED
  BY <1>2, <1>3, <1>4

\* A participant set again, by OnParticipantJoined or a track event that brings it.
LEMMA SetAgainApplies ==
    ASSUME PartInv, store # Nil, NEW e \in Event,
           e.kind = "joined" \/ (e.kind \in {"published", "unpublished"} /\ e.full)
    PROVE  /\ setAgain(e) \in ParticipantStore
           /\ \A p \in Pid : setAgain(e).byID[p] = Applied(e, p, store.byID[p])
           /\ \A p \in Pid : setAgain(e).byID[p] # Nil => setAgain(e).byPrefix[p] = "same"
<1>1. /\ store \in ParticipantStore
      /\ \A p \in Pid : store.byID[p] # Nil => store.byPrefix[p] = "same"
  BY DEF PartInv, PartTypes, PartTypeOK, PrefixKept
<1>2. e.pid \in Pid /\ e.tracks \in SUBSET TrackType
  BY DEF Event
<1>3. PICK o \in Participant : o = NewParticipant(e.pid, e.tracks, e.dom)
  BY <1>2, NewParticipantType
<1>4. setAgain(e) = [byID |-> [store.byID EXCEPT ![e.pid] = o],
                     byPrefix |-> [store.byPrefix EXCEPT ![e.pid] = "same"],
                     total |-> store.total + 1]
  BY <1>3 DEF setAgain, StoreSet
<1>5. setAgain(e) \in ParticipantStore
  BY <1>1, <1>2, <1>4 DEF ParticipantStore
<1>6. ASSUME NEW p \in Pid
      PROVE  /\ setAgain(e).byID[p] = Applied(e, p, store.byID[p])
             /\ setAgain(e).byID[p] # Nil => setAgain(e).byPrefix[p] = "same"
  <2>1. CASE p = e.pid
    <3>1. setAgain(e).byID[p] = o /\ setAgain(e).byPrefix[p] = "same"
      BY <1>1, <1>4, <2>1 DEF ParticipantStore
    <3>2. Applied(e, p, store.byID[p]) = o
      BY <1>3, <2>1 DEF Applied
    <3> QED
      BY <3>1, <3>2
  <2>2. CASE p # e.pid
    <3>1. setAgain(e).byID[p] = store.byID[p] /\ setAgain(e).byPrefix[p] = store.byPrefix[p]
      BY <1>1, <1>4, <2>2 DEF ParticipantStore
    <3>2. Applied(e, p, store.byID[p]) = store.byID[p]
      BY <2>2 DEF Applied
    <3> QED
      BY <1>1, <3>1, <3>2
  <2> QED
    BY <2>1, <2>2
<1> QED
  BY <1>5, <1>6

\* The event a handler finds at the head.
LEMMA HeadEvent ==
    ASSUME PartInv, events # <<>>
    PROVE  PartTypes /\ \E e \in Event : e = Head(events)
<1>1. Head(events) \in Event
  BY DEF PartInv, PartTypes
<1> QED
  BY <1>1 DEF PartInv

\* A handler whose newStore applies the event keeps the invariant.
LEMMA HandlesKeeps ==
    ASSUME PartInv, events # <<>>, events' = Tail(events), NEW kind, Head(events).kind = kind,
           NEW e, e = Head(events), NEW s,
           store' = IF store = Nil THEN Nil ELSE s,
           missed' = IF response = Nil \/ kind = "health" THEN missed
                     ELSE IF kind = "dominant" THEN Pid ELSE missed \cup {Head(events).pid},
           UNCHANGED <<roster, dominant, response, joins>>,
           store # Nil =>
             /\ s \in ParticipantStore
             /\ \A p \in Pid : s.byID[p] = Applied(e, p, store.byID[p])
             /\ \A p \in Pid : s.byID[p] # Nil => s.byPrefix[p] = "same"
    PROVE  PartInv'
<1>1. PartTypes
  BY DEF PartInv
<1>2. /\ response = Nil => missed' = missed
      /\ response # Nil =>
           /\ missed \subseteq missed' /\ missed' \subseteq Pid
           /\ \A p \in Pid \ missed' : Head(events).kind = "health"
                \/ (Head(events).kind # "dominant" /\ Head(events).pid # p)
  BY <1>1, MissedGrows
<1>3. store # Nil =>
        /\ store' \in ParticipantStore
        /\ \A p \in Pid : store'.byID[p] = Applied(Head(events), p, store.byID[p])
        /\ \A p \in Pid : store'.byID[p] # Nil => store'.byPrefix[p] = "same"
  OBVIOUS
<1> QED
  BY <1>2, <1>3, HandledKeeps

LEMMA OnParticipantJoinedKeeps == ASSUME PartInv, OnParticipantJoined PROVE PartInv'
<1>1. /\ events # <<>> /\ Head(events).kind = "joined" /\ events' = Tail(events)
      /\ store' = IF store = Nil THEN Nil ELSE setAgain(Head(events))
      /\ missed' = IF response = Nil \/ "joined" = "health" THEN missed
                   ELSE IF "joined" = "dominant" THEN Pid ELSE missed \cup {Head(events).pid}
      /\ UNCHANGED <<roster, dominant, response, joins>>
  BY DEF OnParticipantJoined, Handles
<1>2. PICK e \in Event : e = Head(events)
  BY <1>1, HeadEvent
<1>3. PICK s : s = setAgain(e)
  OBVIOUS
<1>4. store # Nil =>
        /\ s \in ParticipantStore
        /\ \A p \in Pid : s.byID[p] = Applied(e, p, store.byID[p])
        /\ \A p \in Pid : s.byID[p] # Nil => s.byPrefix[p] = "same"
  BY <1>1, <1>2, <1>3, SetAgainApplies
<1>5. store' = IF store = Nil THEN Nil ELSE s
  BY <1>1, <1>2, <1>3
<1> QED
  BY <1>1, <1>2, <1>4, <1>5, HandlesKeeps

LEMMA OnParticipantLeftKeeps == ASSUME PartInv, OnParticipantLeft PROVE PartInv'
<1>1. /\ events # <<>> /\ Head(events).kind = "left" /\ events' = Tail(events)
      /\ store' = IF store = Nil THEN Nil ELSE StoreRemove(store, Head(events).pid)
      /\ missed' = IF response = Nil \/ "left" = "health" THEN missed
                   ELSE IF "left" = "dominant" THEN Pid ELSE missed \cup {Head(events).pid}
      /\ UNCHANGED <<roster, dominant, response, joins>>
  BY DEF OnParticipantLeft, Handles
<1>2. PICK e \in Event : e = Head(events)
  BY <1>1, HeadEvent
<1>3. PICK s : s = StoreRemove(store, e.pid)
  OBVIOUS
<1>4. ASSUME store # Nil
      PROVE  /\ s \in ParticipantStore
             /\ \A p \in Pid : s.byID[p] = Applied(e, p, store.byID[p])
             /\ \A p \in Pid : s.byID[p] # Nil => s.byPrefix[p] = "same"
  <2>1. /\ store \in ParticipantStore
        /\ \A p \in Pid : store.byID[p] # Nil => store.byPrefix[p] = "same"
    BY <1>4 DEF PartInv, PartTypes, PartTypeOK, PrefixKept
  <2>2. e.kind = "left" /\ e.pid \in Pid
    BY <1>1, <1>2 DEF Event
  <2>3. s = [byID |-> [store.byID EXCEPT ![e.pid] = Nil],
             byPrefix |-> [store.byPrefix EXCEPT ![e.pid] =
                             IF store.byPrefix[e.pid] = "same" THEN "other" ELSE store.byPrefix[e.pid]],
             total |-> store.total - 1]
    BY <1>3 DEF StoreRemove
  <2>4. s \in ParticipantStore
    BY <2>1, <2>2, <2>3 DEF ParticipantStore
  <2>5. ASSUME NEW p \in Pid
        PROVE  /\ s.byID[p] = Applied(e, p, store.byID[p])
               /\ s.byID[p] # Nil => s.byPrefix[p] = "same"
    <3>1. CASE p = e.pid
      <4>1. s.byID[p] = Nil
        BY <2>1, <2>3, <3>1 DEF ParticipantStore
      <4>2. Applied(e, p, store.byID[p]) = Nil
        BY <2>2, <3>1 DEF Applied
      <4> QED
        BY <4>1, <4>2
    <3>2. CASE p # e.pid
      <4>1. s.byID[p] = store.byID[p] /\ s.byPrefix[p] = store.byPrefix[p]
        BY <2>1, <2>3, <3>2 DEF ParticipantStore
      <4>2. Applied(e, p, store.byID[p]) = store.byID[p]
        BY <2>2, <3>2 DEF Applied
      <4> QED
        BY <2>1, <4>1, <4>2
    <3> QED
      BY <3>1, <3>2
  <2> QED
    BY <2>4, <2>5
<1>5. store' = IF store = Nil THEN Nil ELSE s
  BY <1>1, <1>2, <1>3
<1> QED
  BY <1>1, <1>2, <1>4, <1>5, HandlesKeeps

LEMMA OnDominantSpeakerChangedKeeps ==
    ASSUME PartInv, OnDominantSpeakerChanged
    PROVE  PartInv'
<1>1. /\ events # <<>> /\ Head(events).kind = "dominant" /\ events' = Tail(events)
      /\ store' = IF store = Nil THEN Nil ELSE dominantNow(Head(events))
      /\ missed' = IF response = Nil \/ "dominant" = "health" THEN missed
                   ELSE IF "dominant" = "dominant" THEN Pid ELSE missed \cup {Head(events).pid}
      /\ UNCHANGED <<roster, dominant, response, joins>>
  BY DEF OnDominantSpeakerChanged, Handles
<1>2. PICK e \in Event : e = Head(events)
  BY <1>1, HeadEvent
<1>3. PICK s : s = dominantNow(e)
  OBVIOUS
<1>4. ASSUME store # Nil
      PROVE  /\ s \in ParticipantStore
             /\ \A p \in Pid : s.byID[p] = Applied(e, p, store.byID[p])
             /\ \A p \in Pid : s.byID[p] # Nil => s.byPrefix[p] = "same"
  <2>1. /\ store \in ParticipantStore
        /\ \A p \in Pid : store.byID[p] # Nil => store.byPrefix[p] = "same"
        /\ store.byID \in [Pid -> Place]
    BY <1>4 DEF PartInv, PartTypes, PartTypeOK, PrefixKept, ParticipantStore, Place
  <2>2. e.kind = "dominant"
    BY <1>1, <1>2
  <2>3. \A p \in Pid : Applied(e, p, store.byID[p])
                         = IF store.byID[p] = Nil THEN Nil
                           ELSE [store.byID[p] EXCEPT !.dominant = (p = e.pid)]
    BY <2>2 DEF Applied
  <2>4. s = [store EXCEPT !.byID = [p \in Pid |-> Applied(e, p, store.byID[p])]]
    BY <1>3, <2>3 DEF dominantNow
  <2>5. \A p \in Pid : Applied(e, p, store.byID[p]) \in Place
    BY <2>1, AppliedType
  <2>6. PICK places \in [Pid -> Place] : places = [p \in Pid |-> Applied(e, p, store.byID[p])]
    BY <2>5
  <2>7. s = [store EXCEPT !.byID = places]
    BY <2>4, <2>6
  <2>8. s \in ParticipantStore /\ s.byID = places /\ s.byPrefix = store.byPrefix
    BY <2>1, <2>7 DEF ParticipantStore, Place
  <2>9. \A p \in Pid : places[p] # Nil => store.byID[p] # Nil
    BY <2>3, <2>6
  <2> QED
    BY <2>1, <2>6, <2>8, <2>9
<1>5. store' = IF store = Nil THEN Nil ELSE s
  BY <1>1, <1>2, <1>3
<1> QED
  BY <1>1, <1>2, <1>4, <1>5, HandlesKeeps

LEMMA OnHealthCheckResponseKeeps == ASSUME PartInv, OnHealthCheckResponse PROVE PartInv'
<1>1. /\ events # <<>> /\ Head(events).kind = "health" /\ events' = Tail(events)
      /\ store' = IF store = Nil THEN Nil ELSE [store EXCEPT !.total = Head(events).count]
      /\ missed' = IF response = Nil \/ "health" = "health" THEN missed
                   ELSE IF "health" = "dominant" THEN Pid ELSE missed \cup {Head(events).pid}
      /\ UNCHANGED <<roster, dominant, response, joins>>
  BY DEF OnHealthCheckResponse, Handles
<1>2. PICK e \in Event : e = Head(events)
  BY <1>1, HeadEvent
<1>3. PICK s : s = [store EXCEPT !.total = e.count]
  OBVIOUS
<1>4. ASSUME store # Nil
      PROVE  /\ s \in ParticipantStore
             /\ \A p \in Pid : s.byID[p] = Applied(e, p, store.byID[p])
             /\ \A p \in Pid : s.byID[p] # Nil => s.byPrefix[p] = "same"
  <2>1. /\ store \in ParticipantStore
        /\ \A p \in Pid : store.byID[p] # Nil => store.byPrefix[p] = "same"
    BY <1>4 DEF PartInv, PartTypes, PartTypeOK, PrefixKept
  <2>2. e.kind = "health" /\ e.count \in Int
    BY <1>1, <1>2 DEF Event
  <2>3. s \in ParticipantStore /\ s.byID = store.byID /\ s.byPrefix = store.byPrefix
    BY <1>3, <2>1, <2>2 DEF ParticipantStore
  <2>4. \A p \in Pid : Applied(e, p, store.byID[p]) = store.byID[p]
    BY <2>2 DEF Applied
  <2> QED
    BY <2>1, <2>3, <2>4
<1>5. store' = IF store = Nil THEN Nil ELSE s
  BY <1>1, <1>2, <1>3
<1> QED
  BY <1>1, <1>2, <1>4, <1>5, HandlesKeeps

LEMMA TrackChangeKeeps ==
    ASSUME PartInv, NEW kind \in {"published", "unpublished"}, Handles(kind, trackChange)
    PROVE  PartInv'
<1>1. /\ events # <<>> /\ Head(events).kind = kind /\ events' = Tail(events)
      /\ store' = IF store = Nil THEN Nil ELSE trackChange(Head(events))
      /\ missed' = IF response = Nil \/ kind = "health" THEN missed
                   ELSE IF kind = "dominant" THEN Pid ELSE missed \cup {Head(events).pid}
      /\ UNCHANGED <<roster, dominant, response, joins>>
  BY DEF Handles
<1>2. PICK e \in Event : e = Head(events)
  BY <1>1, HeadEvent
<1>3. PICK s : s = trackChange(e)
  OBVIOUS
<1>4. ASSUME store # Nil
      PROVE  /\ s \in ParticipantStore
             /\ \A p \in Pid : s.byID[p] = Applied(e, p, store.byID[p])
             /\ \A p \in Pid : s.byID[p] # Nil => s.byPrefix[p] = "same"
  <2>1. /\ store \in ParticipantStore
        /\ \A p \in Pid : store.byID[p] # Nil => store.byPrefix[p] = "same"
        /\ store.byID \in [Pid -> Place]
    BY <1>4 DEF PartInv, PartTypes, PartTypeOK, PrefixKept, ParticipantStore, Place
  <2>2. e.kind = kind /\ e.kind \in {"published", "unpublished"} /\ e.pid \in Pid
        /\ e.type \in TrackType /\ e.full \in BOOLEAN
    BY <1>1, <1>2 DEF Event
  <2>3. CASE e.full
    <3>1. s = setAgain(e)
      BY <1>3, <2>3 DEF trackChange
    <3> QED
      BY <1>4, <2>2, <2>3, <3>1, SetAgainApplies
  <2>4. CASE ~e.full
    <3>1. ASSUME NEW p \in Pid, p # e.pid PROVE Applied(e, p, store.byID[p]) = store.byID[p]
      BY <2>2, <3>1 DEF Applied
    <3>2. Applied(e, e.pid, store.byID[e.pid])
            = IF store.byID[e.pid] = Nil THEN Nil
              ELSE [store.byID[e.pid] EXCEPT !.published =
                      IF e.kind = "published" THEN @ \cup {e.type} ELSE @ \ {e.type}]
      BY <2>2, <2>4 DEF Applied
    <3>3. PICK o \in Place : o = Applied(e, e.pid, store.byID[e.pid])
      BY <2>1, <2>2, AppliedType
    <3>4. CASE store.byID[e.pid] = Nil
      <4>1. s = store /\ o = store.byID[e.pid]
        BY <1>3, <2>4, <3>2, <3>3, <3>4 DEF trackChange
      <4> QED
        BY <2>1, <3>1, <3>3, <4>1
    <3>5. CASE store.byID[e.pid] # Nil
      <4>1. s = [store EXCEPT !.byID = [store.byID EXCEPT ![e.pid] = o]]
        BY <1>3, <2>1, <2>2, <2>4, <3>2, <3>3, <3>5 DEF trackChange, ParticipantStore
      <4>2. PICK places \in [Pid -> Place] : places = [store.byID EXCEPT ![e.pid] = o]
        BY <2>1, <2>2
      <4>3. s \in ParticipantStore /\ s.byID = places /\ s.byPrefix = store.byPrefix
        BY <2>1, <4>1, <4>2 DEF ParticipantStore, Place
      <4>4. places[e.pid] = o /\ \A p \in Pid : p # e.pid => places[p] = store.byID[p]
        BY <2>1, <2>2, <4>2
      <4> QED
        BY <2>1, <2>2, <3>1, <3>3, <3>5, <4>3, <4>4
    <3> QED
      BY <3>4, <3>5
  <2> QED
    BY <2>2, <2>3, <2>4
<1>5. store' = IF store = Nil THEN Nil ELSE s
  BY <1>1, <1>2, <1>3
<1> QED
  BY <1>1, <1>2, <1>4, <1>5, HandlesKeeps

LEMMA SfuAnswersJoinKeeps == ASSUME PartInv, SfuAnswersJoin PROVE PartInv'
<1>1. /\ joins < MaxJoins /\ joins' = joins + 1 /\ events' = <<>> /\ missed' = {}
      /\ response' = [roster |-> roster, dominant |-> dominant]
      /\ UNCHANGED <<roster, dominant, store>>
  BY DEF SfuAnswersJoin
<1>2. roster \in Roster /\ dominant \in Pid \cup {Nil} /\ store \in {Nil} \cup ParticipantStore
      /\ joins \in 0 .. MaxJoins /\ MaxJoins \in Nat
  BY ParticipantsAssumption DEF PartInv, PartTypes, PartTypeOK
<1>3. response' \in CallState /\ response' # Nil
  <2>1. [roster |-> roster, dominant |-> dominant] \in CallState
    BY <1>2 DEF CallState
  <2> QED
    BY <1>1, <2>1, NilApart
<1>4. PartTypes'
  <2>1. joins' \in 0 .. MaxJoins
    BY <1>1, <1>2
  <2>2. <<>> \in Seq(Event)
    OBVIOUS
  <2> QED
    BY <1>1, <1>2, <1>3, <2>1, <2>2 DEF PartTypes, PartTypeOK
<1>5. NothingBefore'
  BY <1>3 DEF NothingBefore
<1>6. PrefixKept'
  BY <1>1 DEF PartInv, PrefixKept
<1>7. EventsCatchUp'
  <2> SUFFICES ASSUME NEW p \in Pid
               PROVE  Leads(<<>>, p, Known(p)', PlaceIn(roster, dominant, p))
    BY <1>1 DEF EventsCatchUp
  <2>1. Known(p)' = PlaceIn(roster, dominant, p)
    BY <1>1, <1>3 DEF Known
  <2>2. PlaceIn(roster, dominant, p) \in Place
    BY <1>2, PlaceType
  <2> QED
    BY <2>1, <2>2, LeadsEmpty
<1> QED
  BY <1>4, <1>5, <1>6, <1>7 DEF PartInv

LEMMA NewParticipantStoreKeeps == ASSUME PartInv, NewParticipantStore PROVE PartInv'
<1>1. /\ response # Nil /\ response' \in {Nil, response}
      /\ UNCHANGED <<roster, dominant, events, joins, missed>>
      /\ store' = [byID |-> [p \in Pid |-> IF p \in DOMAIN response.roster
                               THEN NewParticipant(p, response.roster[p], response.dominant)
                               ELSE Nil],
                   byPrefix |-> [p \in Pid |-> IF p \in DOMAIN response.roster THEN "same" ELSE "none"],
                   total |-> Cardinality(DOMAIN response.roster)]
  BY DEF NewParticipantStore
<1>2. response \in CallState /\ response.roster \in Roster
  <2>1. response \in CallState
    BY <1>1 DEF PartInv, PartTypes
  <2> QED
    BY <2>1 DEF CallState
<1>3. PICK places \in [Pid -> Place] :
        places = [p \in Pid |-> PlaceIn(response.roster, response.dominant, p)]
  BY <1>2, PlaceType
<1>4. PICK prefixes \in [Pid -> {"none", "same", "other"}] :
        prefixes = [p \in Pid |-> IF p \in DOMAIN response.roster THEN "same" ELSE "none"]
  OBVIOUS
<1>5. PICK n \in Nat : n = Cardinality(DOMAIN response.roster)
  <2>1. DOMAIN response.roster \subseteq Pid /\ IsFiniteSet(Pid)
    BY <1>2, RosterType, ParticipantsAssumption
  <2>2. IsFiniteSet(DOMAIN response.roster)
    BY <2>1, FS_Subset
  <2> QED
    BY <2>2, FS_CardinalityType
<1>6. store' = [byID |-> places, byPrefix |-> prefixes, total |-> n]
  BY <1>1, <1>3, <1>4, <1>5 DEF PlaceIn
<1>7. store' \in ParticipantStore /\ store' # Nil
  <2>1. [byID |-> places, byPrefix |-> prefixes, total |-> n] \in ParticipantStore
    BY DEF ParticipantStore, Place
  <2> QED
    BY <1>6, <2>1, NilApart
<1>8. PartTypes'
  BY <1>1, <1>7 DEF PartInv, PartTypes, PartTypeOK
<1>9. NothingBefore'
  BY <1>7 DEF NothingBefore
<1>10. PrefixKept'
  <2>1. \A p \in Pid : places[p] # Nil => prefixes[p] = "same"
    BY <1>3, <1>4 DEF PlaceIn
  <2> QED
    BY <1>6, <2>1 DEF PrefixKept
<1>11. EventsCatchUp'
  <2> SUFFICES ASSUME NEW p \in Pid \ missed
               PROVE  Leads(events, p, Known(p)', PlaceIn(roster, dominant, p))
    BY <1>1 DEF EventsCatchUp
  <2>1. Leads(events, p, Known(p), PlaceIn(roster, dominant, p))
    BY <1>1 DEF PartInv, EventsCatchUp
  <2>2. Known(p) = PlaceIn(response.roster, response.dominant, p)
    BY <1>1 DEF Known
  <2>3. CASE response' = Nil
    <3>1. Known(p)' = places[p]
      BY <1>6, <2>3 DEF Known
    <3> QED
      BY <1>3, <2>1, <2>2, <3>1
  <2>4. CASE response' # Nil
    <3>1. Known(p)' = PlaceIn(response.roster, response.dominant, p)
      BY <1>1, <2>4 DEF Known
    <3> QED
      BY <2>1, <2>2, <3>1
  <2> QED
    BY <2>3, <2>4
<1> QED
  BY <1>8, <1>9, <1>10, <1>11 DEF PartInv

\* The SFU tells of a change: the event it sends takes every place from the old
\* roster to the new.
LEMMA SentKeeps ==
    ASSUME PartInv, joins > 0, NEW e \in Event, events' = Append(events, e),
           roster' \in Roster, dominant' \in Pid \cup {Nil},
           UNCHANGED <<store, response, joins, missed>>,
           \A p \in Pid : PlaceIn(roster, dominant, p)' = Applied(e, p, PlaceIn(roster, dominant, p))
    PROVE  PartInv'
<1>1. events \in Seq(Event) /\ Append(events, e) \in Seq(Event)
  BY DEF PartInv, PartTypes
<1>2. PartTypes'
  BY <1>1 DEF PartInv, PartTypes, PartTypeOK
<1>3. store # Nil \/ response # Nil
  BY DEF PartInv, NothingBefore
<1>4. NothingBefore' /\ PrefixKept'
  BY <1>3 DEF PartInv, NothingBefore, PrefixKept
<1>5. EventsCatchUp'
  <2> SUFFICES ASSUME NEW p \in Pid \ missed
               PROVE  Leads(Append(events, e), p, Known(p)', PlaceIn(roster, dominant, p)')
    BY DEF EventsCatchUp
  <2>1. Leads(events, p, Known(p), PlaceIn(roster, dominant, p))
    BY <1>3 DEF PartInv, EventsCatchUp
  <2>2. Known(p)' = Known(p)
    BY DEF Known
  <2>3. Leads(Append(events, e), p, Known(p), Applied(e, p, PlaceIn(roster, dominant, p)))
    BY <1>1, <2>1, LeadsAppend
  <2> QED
    BY <2>2, <2>3
<1> QED
  BY <1>2, <1>4, <1>5 DEF PartInv

\* NewParticipant differs from p to p only by the dominance it reads.
LEMMA SameDominance ==
    ASSUME NEW p, NEW tracks, NEW d1, NEW d2, (d1 = p) <=> (d2 = p)
    PROVE  NewParticipant(p, tracks, d1) = NewParticipant(p, tracks, d2)
<1>1. (d1 = p) = (d2 = p)
  OBVIOUS
<1> QED
  BY <1>1 DEF NewParticipant

LEMMA SfuChangesKeeps == ASSUME PartInv, SfuChanges PROVE PartInv'
<1>0. /\ roster \in Roster /\ dominant \in Pid \cup {Nil} /\ DOMAIN roster \subseteq Pid
      /\ roster \in [DOMAIN roster -> SUBSET TrackType]
      /\ \A q \in DOMAIN roster : roster[q] \in SUBSET TrackType
  BY RosterType DEF PartInv, PartTypes, PartTypeOK
<1>1. joins > 0 /\ UNCHANGED <<store, response, joins, missed>>
  BY DEF SfuChanges
<1>2. ASSUME NEW p \in Pid \ DOMAIN roster,
             roster' = [q \in DOMAIN roster \cup {p} |-> IF q = p THEN {} ELSE roster[q]],
             dominant' = dominant,
             events' = Append(events, event("joined", p, Nil, TRUE))
      PROVE  PartInv'
  <2>1. PICK e : e = [kind |-> "joined", pid |-> p, type |-> Nil, full |-> TRUE,
                      tracks |-> {}, dom |-> dominant]
    OBVIOUS
  <2>2. events' = Append(events, e)
    <3>1. roster'[p] = {}
      BY <1>2
    <3> QED
      BY <1>2, <2>1, <3>1 DEF event
  <2>3. e \in Event
    BY <1>0, <2>1 DEF Event
  <2>4. roster' \in Roster
    <3>1. DOMAIN roster \cup {p} \in SUBSET Pid
      BY <1>0
    <3>2. roster' \in [DOMAIN roster \cup {p} -> SUBSET TrackType]
      BY <1>0, <1>2
    <3> QED
      BY <3>1, <3>2, RosterBuilt
  <2>5. ASSUME NEW q \in Pid
        PROVE  PlaceIn(roster, dominant, q)' = Applied(e, q, PlaceIn(roster, dominant, q))
    <3>1. CASE q = p
      <4>1. Applied(e, q, PlaceIn(roster, dominant, q)) = NewParticipant(q, {}, dominant)
        BY <2>1, <3>1 DEF Applied
      <4>2. PlaceIn(roster, dominant, q)' = NewParticipant(q, {}, dominant)
        BY <1>2, <3>1 DEF PlaceIn, NewParticipant
      <4> QED
        BY <4>1, <4>2
    <3>2. CASE q # p
      <4>1. Applied(e, q, PlaceIn(roster, dominant, q)) = PlaceIn(roster, dominant, q)
        BY <2>1, <3>2 DEF Applied
      <4>2. PlaceIn(roster, dominant, q)' = PlaceIn(roster, dominant, q)
        BY <1>2, <3>2 DEF PlaceIn, NewParticipant
      <4> QED
        BY <4>1, <4>2
    <3> QED
      BY <3>1, <3>2
  <2> QED
    BY <1>0, <1>1, <1>2, <2>2, <2>3, <2>4, <2>5, SentKeeps
<1>3. ASSUME NEW p \in DOMAIN roster,
             roster' = [q \in DOMAIN roster \ {p} |-> roster[q]],
             dominant' = IF dominant = p THEN Nil ELSE dominant,
             events' = Append(events, event("left", p, Nil, FALSE))
      PROVE  PartInv'
  <2>1. PICK e : e = [kind |-> "left", pid |-> p, type |-> Nil, full |-> FALSE,
                      tracks |-> {}, dom |-> Nil]
    OBVIOUS
  <2>2. events' = Append(events, e)
    BY <1>3, <2>1 DEF event
  <2>3. e \in Event
    BY <1>0, <2>1 DEF Event
  <2>4. roster' \in Roster
    <3>1. DOMAIN roster \ {p} \in SUBSET Pid
      BY <1>0
    <3>2. roster' \in [DOMAIN roster \ {p} -> SUBSET TrackType]
      BY <1>0, <1>3
    <3> QED
      BY <3>1, <3>2, RosterBuilt
  <2>5. ASSUME NEW q \in Pid
        PROVE  PlaceIn(roster, dominant, q)' = Applied(e, q, PlaceIn(roster, dominant, q))
    <3>1. CASE q = p
      <4>1. Applied(e, q, PlaceIn(roster, dominant, q)) = Nil
        BY <2>1, <3>1 DEF Applied
      <4>2. PlaceIn(roster, dominant, q)' = Nil
        BY <1>3, <3>1 DEF PlaceIn
      <4> QED
        BY <4>1, <4>2
    <3>2. CASE q # p
      <4>1. Applied(e, q, PlaceIn(roster, dominant, q)) = PlaceIn(roster, dominant, q)
        BY <2>1, <3>2 DEF Applied
      <4>2. PICK d2 : d2 = dominant'
        OBVIOUS
      <4>3. NewParticipant(q, roster[q], d2) = NewParticipant(q, roster[q], dominant)
        <5>1. (d2 = q) <=> (dominant = q)
          BY <1>3, <3>2, <4>2, NilApart
        <5> QED
          BY <5>1, SameDominance
      <4>4. PlaceIn(roster, dominant, q)' = IF q \in DOMAIN roster THEN NewParticipant(q, roster[q], d2)
                                            ELSE Nil
        BY <1>3, <3>2, <4>2 DEF PlaceIn, NewParticipant
      <4> QED
        BY <4>1, <4>3, <4>4 DEF PlaceIn
    <3> QED
      BY <3>1, <3>2
  <2>6. dominant' \in Pid \cup {Nil}
    BY <1>0, <1>3
  <2> QED
    BY <1>1, <2>2, <2>3, <2>4, <2>5, <2>6, SentKeeps
<1>4. ASSUME NEW p \in DOMAIN roster, NEW t \in TrackType, NEW full \in BOOLEAN,
             roster' = [roster EXCEPT ![p] = IF t \in @ THEN @ \ {t} ELSE @ \cup {t}],
             dominant' = dominant,
             events' = Append(events, event(IF t \in roster[p] THEN "unpublished" ELSE "published",
                                            p, t, full))
      PROVE  PartInv'
  <2>1. PICK tracks \in SUBSET TrackType :
          tracks = IF t \in roster[p] THEN roster[p] \ {t} ELSE roster[p] \cup {t}
    BY <1>0
  <2>2. roster' = [roster EXCEPT ![p] = tracks] /\ roster'[p] = tracks
    BY <1>0, <1>4, <2>1
  <2>3. PICK e : e = [kind |-> IF t \in roster[p] THEN "unpublished" ELSE "published",
                      pid |-> p, type |-> t, full |-> full,
                      tracks |-> IF full THEN tracks ELSE {}, dom |-> IF full THEN dominant ELSE Nil]
    OBVIOUS
  <2>4. events' = Append(events, e)
    BY <1>4, <2>2, <2>3 DEF event
  <2>5. e \in Event
    BY <1>0, <2>3 DEF Event
  <2>6. roster' \in Roster
    <3>1. DOMAIN roster \in SUBSET Pid /\ roster' \in [DOMAIN roster -> SUBSET TrackType]
      BY <1>0, <2>2
    <3> QED
      BY <3>1, RosterBuilt
  <2>7. ASSUME NEW q \in Pid
        PROVE  PlaceIn(roster, dominant, q)' = Applied(e, q, PlaceIn(roster, dominant, q))
    <3>1. CASE q = p
      <4>1. PlaceIn(roster, dominant, q)' = NewParticipant(p, tracks, dominant)
        BY <1>0, <1>4, <2>2, <3>1 DEF PlaceIn, NewParticipant
      <4>2. PICK x : x = PlaceIn(roster, dominant, q)
        OBVIOUS
      <4>3. x = NewParticipant(p, roster[p], dominant) /\ x \in Participant /\ x # Nil
        <5>1. x = NewParticipant(p, roster[p], dominant)
          BY <3>1, <4>2 DEF PlaceIn
        <5>2. roster[p] \in SUBSET TrackType
          BY <1>0
        <5>3. NewParticipant(p, roster[p], dominant) \in Participant
          BY <5>2, NewParticipantType
        <5> QED
          BY <5>1, <5>3, NilApart
      <4>4. CASE full
        <5>1. Applied(e, q, x) = NewParticipant(p, tracks, dominant)
          BY <2>3, <3>1, <4>4 DEF Applied
        <5> QED
          BY <4>1, <4>2, <5>1
      <4>5. CASE ~full
        <5>1. Applied(e, q, x) = [x EXCEPT !.published = tracks]
          <6>1. x.published = roster[p]
            BY <4>3 DEF NewParticipant
          <6>2. e.pid = p /\ e.type = t /\ ~e.full
                /\ e.kind = IF t \in roster[p] THEN "unpublished" ELSE "published"
            BY <2>3, <4>5
          <6>3. Applied(e, q, x) = [x EXCEPT !.published =
                                      IF e.kind = "published" THEN x.published \cup {e.type}
                                      ELSE x.published \ {e.type}]
            BY <3>1, <4>3, <6>2 DEF Applied
          <6> QED
            BY <2>1, <6>1, <6>2, <6>3
        <5>2. PICK b \in BOOLEAN : b = (dominant = p)
          OBVIOUS
        <5>3. x = [published |-> roster[p], dominant |-> b]
              /\ NewParticipant(p, tracks, dominant) = [published |-> tracks, dominant |-> b]
          BY <4>3, <5>2 DEF NewParticipant
        <5>4. [x EXCEPT !.published = tracks] = [published |-> tracks, dominant |-> b]
          BY <5>3
        <5> QED
          BY <4>1, <4>2, <5>1, <5>3, <5>4
      <4> QED
        BY <4>4, <4>5
    <3>2. CASE q # p
      <4>1. Applied(e, q, PlaceIn(roster, dominant, q)) = PlaceIn(roster, dominant, q)
        BY <2>3, <3>2 DEF Applied
      <4>2. PlaceIn(roster, dominant, q)' = PlaceIn(roster, dominant, q)
        BY <1>0, <1>4, <2>2, <3>2 DEF PlaceIn, NewParticipant
      <4> QED
        BY <4>1, <4>2
    <3> QED
      BY <3>1, <3>2
  <2> QED
    BY <1>0, <1>1, <1>4, <2>4, <2>5, <2>6, <2>7, SentKeeps
<1>5. ASSUME NEW p \in DOMAIN roster, dominant' = p, roster' = roster,
             events' = Append(events, event("dominant", p, Nil, FALSE))
      PROVE  PartInv'
  <2>1. PICK e : e = [kind |-> "dominant", pid |-> p, type |-> Nil, full |-> FALSE,
                      tracks |-> {}, dom |-> Nil]
    OBVIOUS
  <2>2. events' = Append(events, e)
    BY <1>5, <2>1 DEF event
  <2>3. e \in Event
    BY <1>0, <2>1 DEF Event
  <2>4. ASSUME NEW q \in Pid
        PROVE  PlaceIn(roster, dominant, q)' = Applied(e, q, PlaceIn(roster, dominant, q))
    <3>1. PICK x : x = PlaceIn(roster, dominant, q)
      OBVIOUS
    <3>2. Applied(e, q, x) = IF x = Nil THEN Nil ELSE [x EXCEPT !.dominant = (q = p)]
      BY <2>1 DEF Applied
    <3>3. CASE q \in DOMAIN roster
      <4>1. PICK b \in BOOLEAN, c \in BOOLEAN : b = (dominant = q) /\ c = (q = p)
        OBVIOUS
      <4>2. x = [published |-> roster[q], dominant |-> b]
        BY <3>1, <3>3, <4>1 DEF PlaceIn, NewParticipant
      <4>3. x # Nil
        <5>1. roster[q] \in SUBSET TrackType
          BY <1>0, <3>3
        <5>2. x \in Participant
          BY <4>2, <5>1 DEF Participant
        <5> QED
          BY <5>2, NilApart
      <4>4. Applied(e, q, x) = [published |-> roster[q], dominant |-> c]
        BY <3>2, <4>1, <4>2, <4>3
      <4>5. (p = q) = c
        BY <4>1
      <4>6. PlaceIn(roster, dominant, q)' = [published |-> roster[q], dominant |-> c]
        BY <1>5, <3>3, <4>5 DEF PlaceIn, NewParticipant
      <4> QED
        BY <3>1, <4>4, <4>6
    <3>4. CASE q \notin DOMAIN roster
      BY <1>5, <3>1, <3>2, <3>4 DEF PlaceIn
    <3> QED
      BY <3>3, <3>4
  <2> QED
    BY <1>0, <1>1, <1>5, <2>2, <2>3, <2>4, SentKeeps
<1>6. ASSUME UNCHANGED <<roster, dominant>>,
             events' = Append(events, [kind |-> "health", count |-> Cardinality(DOMAIN roster)])
      PROVE  PartInv'
  <2>1. PICK n \in Nat : n = Cardinality(DOMAIN roster)
    <3>1. IsFiniteSet(DOMAIN roster)
      BY <1>0, FS_Subset, ParticipantsAssumption
    <3> QED
      BY <3>1, FS_CardinalityType
  <2>2. PICK e : e = [kind |-> "health", count |-> n]
    OBVIOUS
  <2>3. e \in Event /\ e.kind = "health"
    BY <2>2 DEF Event
  <2>4. events' = Append(events, e)
    BY <1>6, <2>1, <2>2
  <2>5. \A q \in Pid : PlaceIn(roster, dominant, q)' = Applied(e, q, PlaceIn(roster, dominant, q))
    BY <1>6, <2>3 DEF Applied, PlaceIn, NewParticipant
  <2> QED
    BY <1>0, <1>1, <1>6, <2>3, <2>4, <2>5, SentKeeps
<1> QED
  BY <1>2, <1>3, <1>4, <1>5, <1>6 DEF SfuChanges

LEMMA PartInvStep == PartInv /\ [PartNext]_partVars => PartInv'
<1>1. ASSUME PartInv, UNCHANGED partVars PROVE PartInv'
  BY <1>1 DEF partVars, PartInv, PartTypes, PartTypeOK, NothingBefore, PrefixKept, EventsCatchUp, Known
<1>2. ASSUME PartInv, OnTrackPublished \/ OnTrackUnpublished PROVE PartInv'
  BY <1>2, TrackChangeKeeps DEF OnTrackPublished, OnTrackUnpublished
<1> QED
  BY <1>1, <1>2, NewParticipantStoreKeeps, SfuAnswersJoinKeeps, SfuChangesKeeps,
     OnParticipantJoinedKeeps, OnParticipantLeftKeeps, OnDominantSpeakerChangedKeeps,
     OnHealthCheckResponseKeeps DEF PartNext

\* The SFU event handlers of call.go and the participant store, over any number of
\* joins, participants and events under way: a client that has handled everything
\* sent to it has the SFU's roster, but for the participants of events that fell
\* between a join response and its store.
THEOREM StoreFollowsCorrect == PartSpec => []StoreFollows
<1>1. PartInv => StoreFollows
  <2> SUFFICES ASSUME PartInv PROVE StoreFollows
    OBVIOUS
  <2>1. PartTypeOK
    BY DEF PartInv, PartTypes
  <2>2. RosterFollowed
    <3> SUFFICES ASSUME events = <<>>, response = Nil, store # Nil, NEW p \in Pid \ missed
                 PROVE  IF p \in DOMAIN roster
                        THEN /\ store.byID[p] = NewParticipant(p, roster[p], dominant)
                             /\ store.byPrefix[p] = "same"
                        ELSE store.byID[p] = Nil
      BY DEF RosterFollowed
    <3>1. Leads(<<>>, p, store.byID[p], PlaceIn(roster, dominant, p))
      BY DEF PartInv, EventsCatchUp, Known
    <3>2. store.byID[p] \in Place
      BY <2>1 DEF PartTypeOK, ParticipantStore, Place
    <3>3. store.byID[p] = PlaceIn(roster, dominant, p)
      BY <3>1, <3>2, LeadsEmpty
    <3>4. CASE p \in DOMAIN roster
      <4>1. roster[p] \in SUBSET TrackType
        BY <2>1, <3>4, RosterType DEF PartTypeOK
      <4>2. NewParticipant(p, roster[p], dominant) \in Participant
        BY <4>1, NewParticipantType
      <4>3. store.byID[p] = NewParticipant(p, roster[p], dominant) /\ store.byID[p] # Nil
        BY <3>3, <3>4, <4>2, NilApart DEF PlaceIn
      <4> QED
        BY <3>4, <4>3 DEF PartInv, PrefixKept
    <3> QED
      BY <3>3, <3>4 DEF PlaceIn
  <2> QED
    BY <2>1, <2>2 DEF StoreFollows
<1> QED
  BY <1>1, PartInvInit, PartInvStep, PTL DEF PartSpec

(***************************************************************************)
(* Dispatch.                                                               *)
(***************************************************************************)

EventType == coordinatorEvents \cup SfuEvent \cup {Unknown}
Frame == [type : EventType, cid : CallCid \cup {NoCid}, number : 0 .. MaxFrames]
Handling == [stage : {"idle", "store", "callback", "calling"}, frame : Frame]
Request == [asked : BOOLEAN, source : Source, type : EventType, call : CallCid \cup {AnyCall},
            since : Nat, until : Nat, removed : BOOLEAN]

DispTypes ==
    /\ registered \in [Source -> Seq(HandlerId)] /\ live \subseteq Source
    /\ currentClient \in SignalClient /\ detachedAt \in [SignalClient -> 0 .. MaxFrames + 1]
    /\ handling \in [Reader -> Handling] /\ framesRead \in 0 .. MaxFrames
    /\ requests \in [HandlerId -> Request] /\ passed \in [Source -> Seq(Frame)]
    /\ delivered \in [HandlerId -> Seq(Frame)] /\ called \in [Source -> Seq(Frame)]
    /\ panicked \subseteq 1 .. MaxFrames

Busy(r) == handling[r].stage # "idle"
NumberOf(r) == handling[r].frame.number

\* Frames are numbered as they are read; no two readers have the same one, and a
\* frame is passed and called after it was read.
FreshNumbers ==
    /\ \A r \in Reader : IF Busy(r) THEN NumberOf(r) \in 1 .. framesRead ELSE handling[r] = idleReader
    /\ \A r1, r2 \in Reader : (Busy(r1) /\ Busy(r2) /\ r1 # r2) => NumberOf(r1) # NumberOf(r2)
    /\ \A s \in Source : \A i \in 1 .. Len(passed[s]) : passed[s][i].number \in 1 .. framesRead
    /\ \A s \in Source : \A i \in 1 .. Len(called[s]) : called[s][i].number \in 1 .. framesRead
    /\ \A r \in Reader : handling[r].stage = "store" =>
         \A s \in Source : \A i \in 1 .. Len(passed[s]) : passed[s][i].number # NumberOf(r)
    /\ \A r \in Reader : Busy(r) =>
         \A s \in Source : \A i \in 1 .. Len(called[s]) : called[s][i].number # NumberOf(r)

\* A handler is in the list of the store it asked for, once, until it is removed.
Registrations ==
    /\ \A s \in Source : \A i \in 1 .. Len(registered[s]) :
         LET q == requests[registered[s][i]] IN q.asked /\ ~q.removed /\ q.source = s
    /\ \A h \in HandlerId : (requests[h].asked /\ ~requests[h].removed) =>
         \E i \in 1 .. Len(registered[requests[h].source]) : registered[requests[h].source][i] = h
    /\ \A s \in Source : \A i, j \in 1 .. Len(registered[s]) :
         registered[s][i] = registered[s][j] => i = j
    /\ \A h \in HandlerId : requests[h].asked =>
         /\ requests[h].since <= Len(passed[requests[h].source])
         /\ requests[h].removed => requests[h].until <= Len(passed[requests[h].source])
    /\ \A h \in HandlerId : ~requests[h].asked => delivered[h] = <<>>

\* A read loop handles one frame at a time; Connect handles the first answer.
ReadInOrder ==
    /\ Busy(ConnectCaller) => handling[ConnectCaller].frame.type = ConnectedOk
    /\ \A s \in Source : Busy(s) => \A i \in 1 .. Len(called[s]) :
         called[s][i].type # ConnectedOk => called[s][i].number < NumberOf(s)

\* A callback under way on a detached client is of a frame read before.
CalledBeforeDetach ==
    \A s \in SignalClient : (handling[s].stage = "calling" /\ detachedAt[s] # 0) =>
        NumberOf(s) < detachedAt[s]

\* RoutedRight, index by index. Where a handler's part of its store's history ends:
EndOf(h) == IF requests[h].removed THEN requests[h].until ELSE Len(passed[requests[h].source])

HandlerRouted(h) ==
    LET fed == passed[requests[h].source] IN
    /\ \A i \in 1 .. Len(delivered[h]) :
         /\ matches(h, delivered[h][i])
         /\ \E k \in requests[h].since + 1 .. EndOf(h) : fed[k] = delivered[h][i]
    /\ \A k \in requests[h].since + 1 .. EndOf(h) : matches(h, fed[k]) =>
         \/ fed[k].number \in panicked
         \/ \E i \in 1 .. Len(delivered[h]) : delivered[h][i] = fed[k]
    /\ \A i, j \in 1 .. Len(delivered[h]) : delivered[h][i] = delivered[h][j] => i = j

HandlersRouted == \A h \in HandlerId : requests[h].asked => HandlerRouted(h)

\* The same frames, in the order of the store's history.
HandlersInOrder == \A h \in HandlerId : requests[h].asked => fedInOrder(h)

InHand(s, f) ==
    \E r \in Reader : sourceOf(r) = s /\ handling[r].stage \in {"callback", "calling"}
                      /\ handling[r].frame = f

CallbacksRouted(s) ==
    /\ \A i, j \in 1 .. Len(called[s]) : called[s][i] = called[s][j] => i = j
    /\ isDetached(s) => \A i \in 1 .. Len(called[s]) : called[s][i].number < detachedAt[s]
    /\ \A i, j \in 1 .. Len(called[s]) :
         (i < j /\ called[s][i].type # ConnectedOk /\ called[s][j].type # ConnectedOk)
           => called[s][i].number < called[s][j].number
    /\ \A k \in 1 .. Len(passed[s]) :
         \/ passed[s][k].number \in panicked
         \/ \E i \in 1 .. Len(called[s]) : called[s][i] = passed[s][k]
         \/ InHand(s, passed[s][k])
         \/ isDetached(s) \/ passed[s][k].type = MigrationComplete

SocketsRouted == \A s \in Source : CallbacksRouted(s)

DispInv ==
    /\ DispTypes /\ FreshNumbers /\ Registrations /\ ReadInOrder /\ CalledBeforeDetach
    /\ HandlersRouted /\ HandlersInOrder /\ SocketsRouted

LEMMA SocketsNumbered ==
    /\ Source \subseteq Nat /\ Coordinator \in Source /\ Coordinator \notin SignalClient
    /\ SignalClient \subseteq Source /\ SignalClient \subseteq Nat
    /\ ConnectCaller \in Reader /\ ConnectCaller \notin Source /\ Source \subseteq Reader
    /\ \A r \in Reader : r = ConnectCaller \/ r \in Source
    /\ \A s \in Source : s = Coordinator \/ s \in SignalClient
    /\ \A r \in Reader : sourceOf(r) \in Source
    /\ \A r \in Source : sourceOf(r) = r
    /\ sourceOf(ConnectCaller) = Coordinator
<1>1. MaxClients \in Nat \ {0}
  BY DispatchAssumption
<1>2. /\ Source \subseteq Nat /\ Coordinator \in Source /\ Coordinator \notin SignalClient
      /\ SignalClient \subseteq Source /\ SignalClient \subseteq Nat
      /\ ConnectCaller \in Reader /\ ConnectCaller \notin Source /\ Source \subseteq Reader
      /\ \A r \in Reader : r = ConnectCaller \/ r \in Source
      /\ \A s \in Source : s = Coordinator \/ s \in SignalClient
  BY <1>1 DEF Source, Coordinator, SignalClient, Reader, ConnectCaller
<1> QED
  BY <1>2 DEF sourceOf

LEMMA idleReaderType == idleReader \in Handling /\ idleReader.stage = "idle"
<1>1. 0 \in 0 .. MaxFrames
  BY DispatchAssumption
<1> QED
  BY <1>1 DEF idleReader, Handling, Frame, EventType

LEMMA DispInvInit == DispatchInit => DispInv
<1> SUFFICES ASSUME DispatchInit PROVE DispInv
  OBVIOUS
<1>0. MaxFrames \in Nat /\ MaxClients \in Nat \ {0} /\ AnyCall \notin CallCid
  BY DispatchAssumption
<1>1. \A r \in Reader : handling[r] = idleReader /\ ~Busy(r)
  BY idleReaderType DEF DispatchInit, Busy
<1>2. \A h \in HandlerId : ~requests[h].asked /\ delivered[h] = <<>>
  BY DEF DispatchInit, noRequest
<1>3. \A s \in Source : registered[s] = <<>> /\ passed[s] = <<>> /\ called[s] = <<>>
  BY DEF DispatchInit
<1>4. noRequest \in Request
  BY SocketsNumbered DEF noRequest, Request, EventType
<1>5. DispTypes
  <2>1. 1 \in SignalClient /\ 1 \in Source
    BY <1>0, SocketsNumbered DEF SignalClient
  <2>2. handling \in [Reader -> Handling] /\ requests \in [HandlerId -> Request]
    BY <1>4, idleReaderType DEF DispatchInit
  <2>3. /\ registered \in [Source -> Seq(HandlerId)] /\ passed \in [Source -> Seq(Frame)]
        /\ delivered \in [HandlerId -> Seq(Frame)] /\ called \in [Source -> Seq(Frame)]
    BY DEF DispatchInit
  <2>4. detachedAt \in [SignalClient -> 0 .. MaxFrames + 1] /\ framesRead \in 0 .. MaxFrames
    BY <1>0 DEF DispatchInit
  <2> QED
    BY <2>1, <2>2, <2>3, <2>4 DEF DispTypes, DispatchInit
<1>6. FreshNumbers
  BY <1>1, <1>3, idleReaderType DEF FreshNumbers
<1>7. Registrations /\ HandlersRouted /\ HandlersInOrder
  BY <1>2, <1>3 DEF Registrations, HandlersRouted, HandlersInOrder
<1>8. ReadInOrder /\ CalledBeforeDetach
  BY <1>1, SocketsNumbered, idleReaderType DEF ReadInOrder, CalledBeforeDetach
<1>9. SocketsRouted
  <2> SUFFICES ASSUME NEW s \in Source PROVE CallbacksRouted(s)
    BY DEF SocketsRouted
  <2>1. Len(passed[s]) = 0 /\ Len(called[s]) = 0
    BY <1>3
  <2> QED
    BY <2>1 DEF CallbacksRouted
<1> QED
  BY <1>5, <1>6, <1>7, <1>8, <1>9 DEF DispInv

\* A step that leaves the sockets alone leaves their part of the invariant.
LEMMA SocketsLeft ==
    ASSUME DispInv, UNCHANGED <<live, currentClient, detachedAt, handling, framesRead, passed,
                                called, panicked>>
    PROVE  FreshNumbers' /\ ReadInOrder' /\ CalledBeforeDetach' /\ SocketsRouted'
<1>1. FreshNumbers'
  BY DEF DispInv, FreshNumbers, Busy, NumberOf
<1>2. ReadInOrder' /\ CalledBeforeDetach'
  BY DEF DispInv, ReadInOrder, CalledBeforeDetach, Busy, NumberOf
<1>3. SocketsRouted'
  BY DEF DispInv, SocketsRouted, CallbacksRouted, isDetached, InHand
<1> QED
  BY <1>1, <1>2, <1>3

\* A handler whose request, deliveries and store are as they were is still served.
LEMMA HandlerLeft ==
    ASSUME NEW h \in HandlerId, HandlerRouted(h), requests'[h] = requests[h],
           UNCHANGED <<passed, delivered, panicked>>
    PROVE  HandlerRouted(h)'
<1>1. EndOf(h)' = EndOf(h)
  BY DEF EndOf
<1>2. \A f : matches(h, f)' <=> matches(h, f)
  BY DEF matches
<1> QED
  BY <1>1, <1>2 DEF HandlerRouted

LEMMA OrderLeft ==
    ASSUME NEW h \in HandlerId, fedInOrder(h), requests'[h] = requests[h],
           UNCHANGED <<passed, delivered>>
    PROVE  fedInOrder(h)'
<1>1. registeredAt(h)' = registeredAt(h)
  BY DEF registeredAt
<1>2. \A i, j : fedBefore(h, i, j) => fedBefore(h, i, j)'
  BY <1>1 DEF fedBefore
<1> QED
  BY <1>2 DEF fedInOrder

LEMMA AddHandlerKeeps ==
    ASSUME DispInv, NEW h \in HandlerId, NEW s \in Source, NEW t \in EventType,
           NEW c \in CallCid \cup {AnyCall}, AddHandler(h, s, t, c)
    PROVE  DispInv'
<1>1. /\ ~requests[h].asked
      /\ registered' = [registered EXCEPT ![s] = Append(registered[s], h)]
      /\ UNCHANGED <<live, currentClient, detachedAt, handling, framesRead, passed, delivered,
                     called, panicked>>
  BY DEF AddHandler
<1>2. PICK q : q = [asked |-> TRUE, source |-> s, type |-> t, call |-> c,
                    since |-> Len(passed[s]), until |-> 0, removed |-> FALSE]
  OBVIOUS
<1>3. requests' = [requests EXCEPT ![h] = q]
  BY <1>2 DEF AddHandler
<1>4. /\ registered \in [Source -> Seq(HandlerId)] /\ requests \in [HandlerId -> Request]
      /\ passed \in [Source -> Seq(Frame)] /\ delivered \in [HandlerId -> Seq(Frame)]
  BY DEF DispInv, DispTypes
<1>5. Len(passed[s]) \in Nat
  BY <1>4
<1>6. q \in Request
  BY <1>2, <1>5 DEF Request
<1>7. PICK list \in Seq(HandlerId) : list = Append(registered[s], h)
  <2>1. registered[s] \in Seq(HandlerId)
    BY <1>4
  <2>2. Append(registered[s], h) \in Seq(HandlerId)
    BY ONLY <2>1, h \in HandlerId
  <2> QED
    BY ONLY <2>2
<1>8. PICK n \in Nat : n = Len(registered[s])
  BY <1>4
<1>9. Len(list) = n + 1 /\ list[n + 1] = h /\ \A i \in 1 .. n : list[i] = registered[s][i]
  <2>1. registered[s] \in Seq(HandlerId)
    BY <1>4
  <2> QED
    BY ONLY <1>7, <1>8, <2>1, h \in HandlerId
<1>10. /\ \A x \in Source : registered'[x] = IF x = s THEN list ELSE registered[x]
       /\ \A x \in HandlerId : requests'[x] = IF x = h THEN q ELSE requests[x]
  BY <1>1, <1>3, <1>4, <1>7
<1>11. DispTypes'
  <2>1. registered' \in [Source -> Seq(HandlerId)] /\ requests' \in [HandlerId -> Request]
    BY <1>1, <1>3, <1>4, <1>6, <1>7
  <2> QED
    BY <1>1, <2>1 DEF DispInv, DispTypes
<1>12. \A x \in Source : \A i \in 1 .. Len(registered[x]) : registered[x][i] # h
  BY <1>1 DEF DispInv, Registrations
<1>13. Registrations'
  <2>1. ASSUME NEW x \in Source, NEW i \in 1 .. Len(registered'[x])
        PROVE  LET p == requests'[registered'[x][i]] IN p.asked /\ ~p.removed /\ p.source = x
    <3>1. CASE x = s /\ i = n + 1
      BY <1>2, <1>9, <1>10, <3>1
    <3>2. CASE ~(x = s /\ i = n + 1)
      <4>1. i \in 1 .. Len(registered[x]) /\ registered'[x][i] = registered[x][i]
        BY <1>8, <1>9, <1>10, <2>1, <3>2
      <4>2. registered[x][i] \in HandlerId /\ registered[x][i] # h
        BY <1>4, <1>12, <4>1
      <4> QED
        BY <1>10, <4>1, <4>2 DEF DispInv, Registrations
    <3> QED
      BY <3>1, <3>2
  <2>2. ASSUME NEW x \in HandlerId, requests'[x].asked, ~requests'[x].removed
        PROVE  \E i \in 1 .. Len(registered'[requests'[x].source]) :
                 registered'[requests'[x].source][i] = x
    <3>1. CASE x = h
      <4>1. requests'[x].source = s /\ registered'[s] = list
        BY <1>2, <1>10, <3>1
      <4>2. n + 1 \in 1 .. Len(list) /\ list[n + 1] = x
        BY <1>9, <3>1
      <4> QED
        BY <4>1, <4>2
    <3>2. CASE x # h
      <4>1. requests'[x] = requests[x] /\ requests[x].source \in Source
        BY <1>4, <1>10, <3>2 DEF Request
      <4>2. PICK i \in 1 .. Len(registered[requests[x].source]) : registered[requests[x].source][i] = x
        BY <2>2, <4>1 DEF DispInv, Registrations
      <4>3. i \in 1 .. Len(registered'[requests[x].source]) /\ registered'[requests[x].source][i] = x
        BY <1>8, <1>9, <1>10, <4>1, <4>2
      <4> QED
        BY <4>1, <4>3
    <3> QED
      BY <3>1, <3>2
  <2>3. ASSUME NEW x \in Source, NEW i \in 1 .. Len(registered'[x]), NEW j \in 1 .. Len(registered'[x]),
               registered'[x][i] = registered'[x][j]
        PROVE  i = j
    <3>1. CASE x # s
      BY <1>10, <2>3, <3>1 DEF DispInv, Registrations
    <3>2. CASE x = s
      <4>1. registered'[x] = list /\ i \in 1 .. n + 1 /\ j \in 1 .. n + 1 /\ list[i] = list[j]
        BY <1>9, <1>10, <2>3, <3>2
      <4>2. \A k \in 1 .. n : list[k] # h
        BY <1>8, <1>9, <1>12
      <4>3. CASE i = n + 1 \/ j = n + 1
        BY <1>9, <4>1, <4>2, <4>3
      <4>4. CASE i # n + 1 /\ j # n + 1
        <5>1. i \in 1 .. n /\ j \in 1 .. n
          BY <4>1, <4>4
        <5>2. registered[s][i] = registered[s][j]
          BY <1>9, <4>1, <5>1
        <5> QED
          BY <1>8, <5>1, <5>2 DEF DispInv, Registrations
      <4> QED
        BY <4>3, <4>4
    <3> QED
      BY <3>1, <3>2
  <2>4. ASSUME NEW x \in HandlerId, requests'[x].asked
        PROVE  /\ requests'[x].since <= Len(passed[requests'[x].source])
               /\ requests'[x].removed => requests'[x].until <= Len(passed[requests'[x].source])
    <3>1. CASE x = h
      BY <1>2, <1>5, <1>10, <3>1
    <3>2. CASE x # h
      BY <1>10, <2>4, <3>2 DEF DispInv, Registrations
    <3> QED
      BY <3>1, <3>2
  <2>5. ASSUME NEW x \in HandlerId, ~requests'[x].asked PROVE delivered[x] = <<>>
    <3>1. x # h
      BY <1>2, <1>10, <2>5
    <3> QED
      BY <1>10, <2>5, <3>1 DEF DispInv, Registrations
  <2> QED
    BY <1>1, <2>1, <2>2, <2>3, <2>4, <2>5 DEF Registrations
<1>14. HandlersRouted'
  <2> SUFFICES ASSUME NEW x \in HandlerId, requests'[x].asked PROVE HandlerRouted(x)'
    BY DEF HandlersRouted
  <2>1. CASE x = h
    <3>1. delivered'[x] = <<>>
      BY <1>1, <2>1 DEF DispInv, Registrations
    <3>2. Len(delivered'[x]) = 0
      BY <3>1
    <3>3. requests'[x].since = Len(passed[s]) /\ EndOf(x)' = Len(passed[s])
      BY <1>1, <1>2, <1>10, <2>1 DEF EndOf
    <3>4. \A k : k \notin requests'[x].since + 1 .. EndOf(x)'
      BY <1>5, <3>3
    <3> QED
      BY <3>2, <3>4 DEF HandlerRouted
  <2>2. CASE x # h
    <3>1. requests'[x] = requests[x]
      BY <1>10, <2>2
    <3>2. HandlerRouted(x)
      BY <3>1 DEF DispInv, HandlersRouted
    <3> QED
      BY <1>1, <3>1, <3>2, HandlerLeft
  <2> QED
    BY <2>1, <2>2
<1>15. FreshNumbers' /\ ReadInOrder' /\ CalledBeforeDetach' /\ SocketsRouted'
  BY <1>1, SocketsLeft
<1>16. HandlersInOrder'
  <2> SUFFICES ASSUME NEW x \in HandlerId, requests'[x].asked PROVE fedInOrder(x)'
    BY DEF HandlersInOrder
  <2>1. CASE x = h
    <3>1. delivered'[x] = <<>>
      BY <1>1, <2>1 DEF DispInv, Registrations
    <3>2. \A i : i \notin DOMAIN delivered'[x]
      BY <3>1
    <3> QED
      BY <3>2 DEF fedInOrder
  <2>2. CASE x # h
    <3>1. requests'[x] = requests[x]
      BY <1>10, <2>2
    <3>2. fedInOrder(x)
      BY <3>1 DEF DispInv, HandlersInOrder
    <3> QED
      BY <1>1, <3>1, <3>2, OrderLeft
  <2> QED
    BY <2>1, <2>2
<1> QED
  BY <1>11, <1>13, <1>14, <1>15, <1>16 DEF DispInv

\* A sequence without its i-th element.
LEMMA WithoutOne ==
    ASSUME NEW S, NEW list \in Seq(S), NEW i \in 1 .. Len(list), NEW rest,
           rest = SubSeq(list, 1, i - 1) \o SubSeq(list, i + 1, Len(list))
    PROVE  /\ rest \in Seq(S) /\ Len(rest) = Len(list) - 1
           /\ \A k \in 1 .. Len(rest) : rest[k] = IF k < i THEN list[k] ELSE list[k + 1]
<1>1. PICK n \in Nat : n = Len(list)
  OBVIOUS
<1>2. PICK a : a = SubSeq(list, 1, i - 1)
  OBVIOUS
<1>3. PICK b : b = SubSeq(list, i + 1, n)
  OBVIOUS
<1>4. i \in 1 .. n /\ \A k \in 1 .. n : list[k] \in S
  BY <1>1, ElementOfSeq
<1>5. a \in Seq(S) /\ Len(a) = i - 1 /\ \A k \in 1 .. i - 1 : a[k] = list[k]
  <2>1. \A k \in 1 .. i - 1 : list[k] \in S
    BY ONLY <1>4
  <2>2. 1 \in Int /\ i - 1 \in Int
    BY ONLY <1>4
  <2>3. /\ a \in Seq(S) /\ Len(a) = IF 1 <= i - 1 THEN i - 1 - 1 + 1 ELSE 0
        /\ \A k \in 1 .. i - 1 - 1 + 1 : a[k] = list[1 + k - 1]
    BY ONLY <1>2, <2>1, <2>2, SubSeqProperties
  <2> QED
    BY ONLY <1>4, <2>3
<1>6. b \in Seq(S) /\ Len(b) = n - i /\ \A k \in 1 .. n - i : b[k] = list[i + k]
  <2>1. \A k \in i + 1 .. n : list[k] \in S
    BY ONLY <1>4, n \in Nat
  <2>2. i + 1 \in Int /\ n \in Int
    BY ONLY <1>4, n \in Nat
  <2>3. /\ b \in Seq(S) /\ Len(b) = IF i + 1 <= n THEN n - (i + 1) + 1 ELSE 0
        /\ \A k \in 1 .. n - (i + 1) + 1 : b[k] = list[i + 1 + k - 1]
    BY ONLY <1>3, <2>1, <2>2, SubSeqProperties
  <2> QED
    BY ONLY <1>4, <2>3, n \in Nat
<1>7. /\ rest \in Seq(S) /\ Len(rest) = Len(a) + Len(b)
      /\ \A k \in 1 .. Len(a) + Len(b) : rest[k] = IF k <= Len(a) THEN a[k] ELSE b[k - Len(a)]
  <2>1. rest = a \o b
    BY <1>1, <1>2, <1>3
  <2> QED
    BY ONLY <1>5, <1>6, <2>1, ConcatProperties
<1>8. Len(rest) = n - 1
  BY ONLY <1>4, <1>5, <1>6, <1>7, n \in Nat
<1>9. ASSUME NEW k \in 1 .. Len(rest) PROVE rest[k] = IF k < i THEN list[k] ELSE list[k + 1]
  <2>1. rest[k] = IF k <= i - 1 THEN a[k] ELSE b[k - (i - 1)]
    BY ONLY <1>5, <1>6, <1>7, <1>9
  <2>2. CASE k < i
    <3>1. k \in 1 .. i - 1
      BY ONLY <1>4, <1>8, <1>9, <2>2, n \in Nat
    <3>2. rest[k] = a[k] /\ a[k] = list[k]
      BY ONLY <1>5, <2>1, <3>1
    <3> QED
      BY ONLY <2>2, <3>2
  <2>3. CASE ~(k < i)
    <3>1. k - (i - 1) \in 1 .. n - i /\ i + (k - (i - 1)) = k + 1 /\ ~(k <= i - 1)
      BY ONLY <1>4, <1>8, <1>9, <2>3, n \in Nat
    <3>2. rest[k] = b[k - (i - 1)]
      BY ONLY <2>1, <3>1
    <3>3. b[k - (i - 1)] = list[i + (k - (i - 1))]
      BY ONLY <1>6, <3>1
    <3>4. rest[k] = list[k + 1]
      BY ONLY <3>1, <3>2, <3>3
    <3> QED
      BY ONLY <2>3, <3>4
  <2> QED
    BY ONLY <2>2, <2>3
<1> QED
  BY ONLY <1>1, <1>7, <1>8, <1>9

LEMMA RemoveHandlerKeeps ==
    ASSUME DispInv, NEW h \in HandlerId, RemoveHandler(h)
    PROVE  DispInv'
<1>1. /\ requests[h].asked /\ ~requests[h].removed
      /\ UNCHANGED <<live, currentClient, detachedAt, handling, framesRead, passed, delivered,
                     called, panicked>>
  BY DEF RemoveHandler
<1>2. /\ registered \in [Source -> Seq(HandlerId)] /\ requests \in [HandlerId -> Request]
      /\ passed \in [Source -> Seq(Frame)] /\ delivered \in [HandlerId -> Seq(Frame)]
  BY DEF DispInv, DispTypes
<1>3. PICK s \in Source : s = requests[h].source
  <2>1. requests[h] \in Request
    BY <1>2
  <2>2. requests[h].source \in Source
    BY ONLY <2>1 DEF Request
  <2> QED
    BY ONLY <2>2
<1>4. PICK i \in 1 .. Len(registered[s]) :
        /\ registered[s][i] = h
        /\ registered' = [registered EXCEPT ![s] = SubSeq(registered[s], 1, i - 1)
                                                    \o SubSeq(registered[s], i + 1, Len(registered[s]))]
  <2>1. registered[s] \in Seq(HandlerId)
    BY <1>2
  <2>2. DOMAIN registered[s] = 1 .. Len(registered[s])
    BY ONLY <2>1
  <2> QED
    BY <1>2, <1>3, <2>2 DEF RemoveHandler
<1>5. PICK old \in Seq(HandlerId) : old = registered[s]
  <2>1. registered[s] \in Seq(HandlerId)
    BY <1>2
  <2> QED
    BY ONLY <2>1
<1>6. PICK list : list = SubSeq(old, 1, i - 1) \o SubSeq(old, i + 1, Len(old))
  OBVIOUS
<1>7. /\ list \in Seq(HandlerId) /\ Len(list) = Len(old) - 1 /\ i \in 1 .. Len(old)
      /\ \A k \in 1 .. Len(list) : list[k] = IF k < i THEN old[k] ELSE old[k + 1]
  <2>1. i \in 1 .. Len(old)
    BY <1>4, <1>5
  <2>2. old \in Seq(HandlerId)
    BY <1>5
  <2>3. /\ list \in Seq(HandlerId) /\ Len(list) = Len(old) - 1
        /\ \A k \in 1 .. Len(list) : list[k] = IF k < i THEN old[k] ELSE old[k + 1]
    BY ONLY <1>6, <2>1, <2>2, WithoutOne, ZenonT(60)
  <2> QED
    BY ONLY <2>1, <2>3
<1>8. \A x \in Source : registered'[x] = IF x = s THEN list ELSE registered[x]
  BY <1>2, <1>4, <1>5, <1>6
<1>9. PICK q : q = [requests[h] EXCEPT !.removed = TRUE, !.until = Len(passed[s])]
  OBVIOUS
<1>10. /\ q \in Request /\ q.asked /\ q.removed /\ q.source = s /\ q.until = Len(passed[s])
       /\ q.since = requests[h].since /\ q.type = requests[h].type /\ q.call = requests[h].call
  <2>1. Len(passed[s]) \in Nat /\ requests[h] \in Request
    BY <1>2
  <2> QED
    BY <1>1, <1>3, <1>9, <2>1 DEF Request
<1>11. \A x \in HandlerId : requests'[x] = IF x = h THEN q ELSE requests[x]
  <2>1. requests' = [requests EXCEPT ![h] = q]
    BY <1>2, <1>3, <1>9 DEF RemoveHandler, Request
  <2> QED
    BY <1>2, <2>1
<1>12. DispTypes'
  <2>1. registered' \in [Source -> Seq(HandlerId)]
    BY <1>2, <1>4, <1>5, <1>6, <1>7
  <2>2. requests' = [requests EXCEPT ![h] = q]
    BY <1>2, <1>3, <1>9 DEF RemoveHandler, Request
  <2>3. requests' \in [HandlerId -> Request]
    BY <1>2, <1>10, <2>2
  <2> QED
    BY <1>1, <2>1, <2>3 DEF DispInv, DispTypes
<1>13. /\ \A k \in 1 .. Len(old) : requests[old[k]].asked /\ ~requests[old[k]].removed
                                     /\ requests[old[k]].source = s
       /\ \A j, k \in 1 .. Len(old) : old[j] = old[k] => j = k
  BY <1>5 DEF DispInv, Registrations
<1>14. Registrations'
  <2>1. ASSUME NEW k \in 1 .. Len(list)
        PROVE  /\ list[k] \in HandlerId /\ list[k] # h
               /\ \E j \in 1 .. Len(old) : list[k] = old[j]
    <3>1. PICK j \in 1 .. Len(old) : list[k] = old[j] /\ j # i
      <4>1. CASE k < i
        BY <1>7, <4>1
      <4>2. CASE ~(k < i)
        <5>1. k + 1 \in 1 .. Len(old) /\ k + 1 # i /\ list[k] = old[k + 1]
          BY <1>7, <4>2
        <5> QED
          BY <5>1
      <4> QED
        BY <4>1, <4>2
    <3>2. old[j] # old[i] /\ old[i] = h
      BY <1>4, <1>5, <1>7, <1>13, <3>1
    <3> QED
      BY <3>1, <3>2
  <2>2. ASSUME NEW x \in Source, NEW k \in 1 .. Len(registered'[x])
        PROVE  LET p == requests'[registered'[x][k]] IN p.asked /\ ~p.removed /\ p.source = x
    <3>1. CASE x = s
      <4>1. registered'[x][k] = list[k] /\ k \in 1 .. Len(list)
        BY <1>8, <2>2, <3>1
      <4>2. requests'[list[k]] = requests[list[k]]
        BY <1>11, <2>1, <4>1
      <4> QED
        BY <1>13, <2>1, <3>1, <4>1, <4>2
    <3>2. CASE x # s
      <4>1. registered'[x][k] = registered[x][k] /\ k \in 1 .. Len(registered[x])
        BY <1>8, <2>2, <3>2
      <4>2. LET p == requests[registered[x][k]] IN p.asked /\ ~p.removed /\ p.source = x
        BY <4>1 DEF DispInv, Registrations
      <4>3. registered[x][k] \in HandlerId /\ registered[x][k] # h
        BY <1>2, <1>3, <3>2, <4>1, <4>2
      <4> QED
        BY <1>11, <4>1, <4>2, <4>3
    <3> QED
      BY <3>1, <3>2
  <2>3. ASSUME NEW x \in HandlerId, requests'[x].asked, ~requests'[x].removed
        PROVE  \E k \in 1 .. Len(registered'[requests'[x].source]) :
                 registered'[requests'[x].source][k] = x
    <3>1. x # h /\ requests'[x] = requests[x] /\ requests[x].source \in Source
      BY <1>2, <1>10, <1>11, <2>3 DEF Request
    <3>2. PICK k \in 1 .. Len(registered[requests[x].source]) : registered[requests[x].source][k] = x
      BY <2>3, <3>1 DEF DispInv, Registrations
    <3>3. CASE requests[x].source # s
      BY <1>8, <3>1, <3>2, <3>3
    <3>4. CASE requests[x].source = s
      <4>1. k \in 1 .. Len(old) /\ old[k] = x /\ k # i
        BY <1>4, <1>5, <3>1, <3>2, <3>4
      <4>2. \E j \in 1 .. Len(list) : list[j] = x
        <5>1. CASE k < i
          <6>1. k \in 1 .. Len(list) /\ list[k] = x
            BY <1>7, <4>1, <5>1
          <6> QED
            BY <6>1
        <5>2. CASE k > i
          <6>1. k - 1 \in 1 .. Len(list) /\ ~(k - 1 < i) /\ (k - 1) + 1 = k
            BY <1>7, <4>1, <5>2
          <6>2. list[k - 1] = x
            BY <1>7, <4>1, <6>1
          <6> QED
            BY <6>1, <6>2
        <5> QED
          BY <1>7, <4>1, <5>1, <5>2
      <4> QED
        BY <1>8, <3>1, <3>4, <4>2
    <3> QED
      BY <3>3, <3>4
  <2>4. ASSUME NEW x \in Source, NEW j \in 1 .. Len(registered'[x]), NEW k \in 1 .. Len(registered'[x]),
               registered'[x][j] = registered'[x][k]
        PROVE  j = k
    <3>1. CASE x # s
      BY <1>8, <2>4, <3>1 DEF DispInv, Registrations
    <3>2. CASE x = s
      <4>1. j \in 1 .. Len(list) /\ k \in 1 .. Len(list) /\ list[j] = list[k]
        BY <1>8, <2>4, <3>2
      <4> DEFINE jj == IF j < i THEN j ELSE j + 1
      <4> DEFINE kk == IF k < i THEN k ELSE k + 1
      <4>2. jj \in 1 .. Len(old) /\ kk \in 1 .. Len(old) /\ list[j] = old[jj] /\ list[k] = old[kk]
        BY <1>7, <4>1
      <4>3. jj = kk
        BY <1>13, <4>1, <4>2
      <4> QED
        BY <1>7, <4>1, <4>3
    <3> QED
      BY <3>1, <3>2
  <2>5. ASSUME NEW x \in HandlerId, requests'[x].asked
        PROVE  /\ requests'[x].since <= Len(passed[requests'[x].source])
               /\ requests'[x].removed => requests'[x].until <= Len(passed[requests'[x].source])
    <3>1. CASE x = h
      <4>1. requests[h].since <= Len(passed[s]) /\ Len(passed[s]) \in Nat
        BY <1>1, <1>2, <1>3 DEF DispInv, Registrations
      <4> QED
        BY <1>10, <1>11, <3>1, <4>1
    <3>2. CASE x # h
      BY <1>11, <2>5, <3>2 DEF DispInv, Registrations
    <3> QED
      BY <3>1, <3>2
  <2>6. ASSUME NEW x \in HandlerId, ~requests'[x].asked PROVE delivered[x] = <<>>
    BY <1>10, <1>11, <2>6 DEF DispInv, Registrations
  <2> QED
    BY <1>1, <2>2, <2>3, <2>4, <2>5, <2>6 DEF Registrations
<1>15. HandlersRouted'
  <2> SUFFICES ASSUME NEW x \in HandlerId, requests'[x].asked PROVE HandlerRouted(x)'
    BY DEF HandlersRouted
  <2>1. CASE x = h
    <3>1. HandlerRouted(x)
      BY <1>1, <2>1 DEF DispInv, HandlersRouted
    <3>2. /\ EndOf(x)' = EndOf(x) /\ requests'[x].source = requests[x].source
          /\ requests'[x].since = requests[x].since
      BY <1>1, <1>3, <1>10, <1>11, <2>1 DEF EndOf
    <3>3. \A f : matches(x, f)' <=> matches(x, f)
      BY <1>10, <1>11, <2>1 DEF matches
    <3> QED
      BY <1>1, <3>1, <3>2, <3>3 DEF HandlerRouted
  <2>2. CASE x # h
    <3>1. requests'[x] = requests[x]
      BY <1>11, <2>2
    <3>2. HandlerRouted(x)
      BY <3>1 DEF DispInv, HandlersRouted
    <3> QED
      BY <1>1, <3>1, <3>2, HandlerLeft
  <2> QED
    BY <2>1, <2>2
<1>16. FreshNumbers' /\ ReadInOrder' /\ CalledBeforeDetach' /\ SocketsRouted'
  BY <1>1, SocketsLeft
<1>17. HandlersInOrder'
  <2> SUFFICES ASSUME NEW x \in HandlerId, requests'[x].asked PROVE fedInOrder(x)'
    BY DEF HandlersInOrder
  <2>1. CASE x = h
    <3>1. fedInOrder(x)
      BY <1>1, <2>1 DEF DispInv, HandlersInOrder
    <3>2. registeredAt(x)' = registeredAt(x) /\ requests'[x].source = requests[x].source
      BY <1>1, <1>3, <1>10, <1>11, <2>1 DEF registeredAt
    <3>3. \A a, b : fedBefore(x, a, b) => fedBefore(x, a, b)'
      BY <1>1, <3>2 DEF fedBefore
    <3> QED
      BY <1>1, <3>1, <3>3 DEF fedInOrder
  <2>2. CASE x # h
    <3>1. requests'[x] = requests[x]
      BY <1>11, <2>2
    <3>2. fedInOrder(x)
      BY <3>1 DEF DispInv, HandlersInOrder
    <3> QED
      BY <1>1, <3>1, <3>2, OrderLeft
  <2> QED
    BY <2>1, <2>2
<1> QED
  BY <1>12, <1>14, <1>15, <1>16, <1>17 DEF DispInv

\* A step that leaves the stores and their handlers alone leaves their part of the
\* invariant.
LEMMA HandlersLeft ==
    ASSUME DispInv, UNCHANGED <<registered, requests, passed, delivered, panicked>>
    PROVE  Registrations' /\ HandlersRouted' /\ HandlersInOrder'
<1>1. Registrations'
  BY DEF DispInv, Registrations
<1>2. HandlersRouted'
  <2> SUFFICES ASSUME NEW h \in HandlerId, requests'[h].asked PROVE HandlerRouted(h)'
    BY DEF HandlersRouted
  <2>1. HandlerRouted(h)
    BY DEF DispInv, HandlersRouted
  <2> QED
    BY <2>1, HandlerLeft
<1>3. HandlersInOrder'
  BY OrderLeft DEF DispInv, HandlersInOrder
<1> QED
  BY <1>1, <1>2, <1>3

\* A read loop, or Connect, takes up the next frame.
LEMMA TakesFrame ==
    ASSUME DispInv, NEW r \in Reader, NEW g \in Frame, handling[r].stage = "idle",
           g.number = framesRead + 1, r = ConnectCaller => g.type = ConnectedOk,
           framesRead < MaxFrames, framesRead' = framesRead + 1,
           handling' = [handling EXCEPT ![r] = [stage |-> "store", frame |-> g]],
           live' \subseteq Source,
           UNCHANGED <<registered, currentClient, detachedAt, requests, passed, delivered,
                       called, panicked>>
    PROVE  DispInv'
<1>0. MaxFrames \in Nat /\ framesRead \in Nat /\ framesRead + 1 \in 0 .. MaxFrames
  BY DispatchAssumption DEF DispInv, DispTypes
<1>1. PICK v \in Handling : v = [stage |-> "store", frame |-> g]
  BY DEF Handling
<1>2. v.stage = "store" /\ v.frame = g /\ handling' = [handling EXCEPT ![r] = v]
  BY <1>1
<1>3. handling \in [Reader -> Handling]
  BY DEF DispInv, DispTypes
<1>4. \A x \in Reader : handling'[x] = IF x = r THEN v ELSE handling[x]
  BY <1>2, <1>3
<1>5. DispTypes'
  <2>1. handling' \in [Reader -> Handling]
    BY <1>2, <1>3
  <2> QED
    BY <1>0, <2>1 DEF DispInv, DispTypes
<1>6. FreshNumbers'
  <2>1. ASSUME NEW x \in Reader
        PROVE  IF Busy(x)' THEN NumberOf(x)' \in 1 .. framesRead' ELSE handling'[x] = idleReader
    <3>1. CASE x = r
      BY <1>0, <1>2, <1>4, <3>1 DEF Busy, NumberOf
    <3>2. CASE x # r
      <4>1. handling'[x] = handling[x]
        BY <1>4, <3>2
      <4>2. IF Busy(x) THEN NumberOf(x) \in 1 .. framesRead ELSE handling[x] = idleReader
        BY DEF DispInv, FreshNumbers
      <4> QED
        BY <1>0, <4>1, <4>2 DEF Busy, NumberOf
    <3> QED
      BY <3>1, <3>2
  <2>2. ASSUME NEW x \in Reader, x # r, Busy(x)'
        PROVE  Busy(x) /\ NumberOf(x)' = NumberOf(x) /\ NumberOf(x) # framesRead + 1
    <3>1. handling'[x] = handling[x]
      BY <1>4, <2>2
    <3>2. Busy(x) /\ NumberOf(x) \in 1 .. framesRead
      BY <2>2, <3>1 DEF DispInv, FreshNumbers, Busy
    <3> QED
      BY <1>0, <3>1, <3>2 DEF NumberOf
  <2>3. NumberOf(r)' = framesRead + 1
    BY <1>2, <1>4 DEF NumberOf
  <2>4. ASSUME NEW x \in Reader, NEW y \in Reader, Busy(x)', Busy(y)', x # y
        PROVE  NumberOf(x)' # NumberOf(y)'
    <3>1. CASE x = r
      BY <2>2, <2>3, <2>4, <3>1
    <3>2. CASE y = r
      BY <2>2, <2>3, <2>4, <3>2
    <3>3. CASE x # r /\ y # r
      <4>1. Busy(x) /\ Busy(y) /\ NumberOf(x)' = NumberOf(x) /\ NumberOf(y)' = NumberOf(y)
        BY <2>2, <2>4, <3>3
      <4> QED
        BY <2>4, <4>1 DEF DispInv, FreshNumbers
    <3> QED
      BY <3>1, <3>2, <3>3
  <2>5. \A s \in Source : \A i \in 1 .. Len(passed[s]) :
          passed[s][i].number \in 1 .. framesRead' /\ passed[s][i].number # framesRead + 1
    BY <1>0 DEF DispInv, FreshNumbers
  <2>6. \A s \in Source : \A i \in 1 .. Len(called[s]) :
          called[s][i].number \in 1 .. framesRead' /\ called[s][i].number # framesRead + 1
    BY <1>0 DEF DispInv, FreshNumbers
  <2>7. ASSUME NEW x \in Reader, handling'[x].stage = "store", NEW s \in Source,
               NEW i \in 1 .. Len(passed[s])
        PROVE  passed[s][i].number # NumberOf(x)'
    <3>1. CASE x = r
      BY <2>3, <2>5, <3>1
    <3>2. CASE x # r
      <4>1. handling'[x] = handling[x]
        BY <1>4, <3>2
      <4> QED
        BY <2>7, <4>1 DEF DispInv, FreshNumbers, NumberOf
    <3> QED
      BY <3>1, <3>2
  <2>8. ASSUME NEW x \in Reader, Busy(x)', NEW s \in Source, NEW i \in 1 .. Len(called[s])
        PROVE  called[s][i].number # NumberOf(x)'
    <3>1. CASE x = r
      BY <2>3, <2>6, <3>1
    <3>2. CASE x # r
      BY <2>2, <2>8, <3>2 DEF DispInv, FreshNumbers
    <3> QED
      BY <3>1, <3>2
  <2> QED
    BY <2>1, <2>4, <2>5, <2>6, <2>7, <2>8 DEF FreshNumbers
<1>7. ReadInOrder'
  <2>1. Busy(ConnectCaller)' => handling'[ConnectCaller].frame.type = ConnectedOk
    <3>1. CASE r = ConnectCaller
      BY <1>2, <1>4, <3>1, SocketsNumbered
    <3>2. CASE r # ConnectCaller
      <4>1. handling'[ConnectCaller] = handling[ConnectCaller]
        BY <1>4, <3>2, SocketsNumbered
      <4> QED
        BY <4>1 DEF DispInv, ReadInOrder, Busy
    <3> QED
      BY <3>1, <3>2
  <2>2. ASSUME NEW s \in Source, Busy(s)', NEW i \in 1 .. Len(called[s]),
               called[s][i].type # ConnectedOk
        PROVE  called[s][i].number < NumberOf(s)'
    <3>0. s \in Reader
      BY SocketsNumbered
    <3>1. CASE s = r
      <4>1. NumberOf(s)' = framesRead + 1
        BY <1>2, <1>4, <3>1 DEF NumberOf
      <4>2. called[s][i].number \in 1 .. framesRead
        BY DEF DispInv, FreshNumbers
      <4> QED
        BY <1>0, <4>1, <4>2
    <3>2. CASE s # r
      <4>1. handling'[s] = handling[s]
        BY <1>4, <3>0, <3>2
      <4>2. Busy(s) /\ NumberOf(s)' = NumberOf(s)
        BY <2>2, <4>1 DEF Busy, NumberOf
      <4> QED
        BY <2>2, <4>2 DEF DispInv, ReadInOrder
    <3> QED
      BY <3>1, <3>2
  <2> QED
    BY <2>1, <2>2 DEF ReadInOrder
<1>8. CalledBeforeDetach'
  <2> SUFFICES ASSUME NEW s \in SignalClient, handling'[s].stage = "calling", detachedAt[s] # 0
               PROVE  NumberOf(s)' < detachedAt[s]
    BY DEF CalledBeforeDetach
  <2>1. s \in Reader
    BY SocketsNumbered
  <2>2. handling'[s] = handling[s]
    BY <1>2, <1>4, <2>1
  <2> QED
    BY <2>2 DEF DispInv, CalledBeforeDetach, NumberOf
<1>9. SocketsRouted'
  <2> SUFFICES ASSUME NEW s \in Source PROVE CallbacksRouted(s)'
    BY DEF SocketsRouted
  <2>1. CallbacksRouted(s) /\ (isDetached(s)' <=> isDetached(s))
    BY DEF DispInv, SocketsRouted, isDetached
  <2>2. ASSUME NEW f, InHand(s, f) PROVE InHand(s, f)'
    <3>1. PICK x \in Reader : /\ sourceOf(x) = s /\ handling[x].stage \in {"callback", "calling"}
                              /\ handling[x].frame = f
      BY <2>2 DEF InHand
    <3>2. handling'[x] = handling[x]
      BY <1>4, <3>1
    <3> QED
      BY <3>1, <3>2 DEF InHand
  <2> QED
    BY <2>1, <2>2 DEF CallbacksRouted
<1> QED
  BY <1>5, <1>6, <1>7, <1>8, <1>9, HandlersLeft DEF DispInv

\* A frame that does not decode is read and forgotten.
LEMMA SkipsFrame ==
    ASSUME DispInv, framesRead < MaxFrames, framesRead' = framesRead + 1,
           UNCHANGED <<registered, live, currentClient, detachedAt, handling, requests, passed,
                       delivered, called, panicked>>
    PROVE  DispInv'
<1>0. MaxFrames \in Nat /\ framesRead \in Nat /\ framesRead + 1 \in 0 .. MaxFrames
  BY DispatchAssumption DEF DispInv, DispTypes
<1>1. DispTypes'
  BY <1>0 DEF DispInv, DispTypes
<1>2. \A x : x \in 1 .. framesRead => x \in 1 .. framesRead'
  BY <1>0
<1>3. FreshNumbers'
  BY <1>2 DEF DispInv, FreshNumbers, Busy, NumberOf
<1>4. ReadInOrder' /\ CalledBeforeDetach'
  BY DEF DispInv, ReadInOrder, CalledBeforeDetach, Busy, NumberOf
<1>5. SocketsRouted'
  BY DEF DispInv, SocketsRouted, CallbacksRouted, isDetached, InHand
<1> QED
  BY <1>1, <1>3, <1>4, <1>5, HandlersLeft DEF DispInv

LEMMA ReadKeeps == ASSUME DispInv, NEW s \in Source, Read(s) PROVE DispInv'
<1>0. MaxFrames \in Nat /\ framesRead \in Nat /\ framesRead < MaxFrames
  BY DispatchAssumption DEF DispInv, DispTypes, Read
<1>1. PICK f \in coordinatorFrame \cup sfuFrame :
        handling' = IF Parses(f)
                    THEN [handling EXCEPT ![s] = [stage |-> "store",
                            frame |-> [type |-> f.type, cid |-> f.cid, number |-> framesRead + 1]]]
                    ELSE handling
  BY DEF Read
<1>2. CASE ~Parses(f)
  BY <1>1, <1>2, SkipsFrame DEF Read
<1>3. CASE Parses(f)
  <2>1. f.type \in EventType /\ f.cid \in CallCid \cup {NoCid}
    BY DEF coordinatorFrame, sfuFrame, EventType, coordinatorEvents
  <2>2. PICK g \in Frame : g = [type |-> f.type, cid |-> f.cid, number |-> framesRead + 1]
    <3>1. framesRead + 1 \in 0 .. MaxFrames
      BY <1>0
    <3> QED
      BY <2>1, <3>1 DEF Frame
  <2>3. g.number = framesRead + 1
    BY <2>2
  <2>4. s \in Reader /\ s # ConnectCaller
    BY SocketsNumbered
  <2>5. handling' = [handling EXCEPT ![s] = [stage |-> "store", frame |-> g]]
    BY <1>1, <1>3, <2>2
  <2>6. live' \subseteq Source
    BY DEF DispInv, DispTypes, Read
  <2> QED
    BY <1>0, <2>3, <2>4, <2>5, <2>6, TakesFrame DEF Read
<1> QED
  BY <1>2, <1>3

LEMMA ConnectKeeps == ASSUME DispInv, Connect PROVE DispInv'
<1>0. MaxFrames \in Nat /\ framesRead \in Nat /\ framesRead < MaxFrames
  BY DispatchAssumption DEF DispInv, DispTypes, Connect
<1>1. PICK g \in Frame : g = [type |-> ConnectedOk, cid |-> NoCid, number |-> framesRead + 1]
  <2>1. framesRead + 1 \in 0 .. MaxFrames
    BY <1>0
  <2>2. ConnectedOk \in EventType
    BY DispatchAssumption DEF EventType, coordinatorEvents
  <2> QED
    BY <2>1, <2>2 DEF Frame
<1>2. g.number = framesRead + 1 /\ g.type = ConnectedOk
  BY <1>1
<1>3. handling' = [handling EXCEPT ![ConnectCaller] = [stage |-> "store", frame |-> g]]
  BY <1>1 DEF Connect
<1>4. live' \subseteq Source /\ ConnectCaller \in Reader
  BY SocketsNumbered DEF DispInv, DispTypes, Connect
<1> QED
  BY <1>0, <1>2, <1>3, <1>4, TakesFrame DEF Connect

\* Which sockets are open, and which client is current, matters to no other part.
LEMMA SocketsOpenOrClose ==
    ASSUME DispInv, live' \subseteq Source, currentClient' \in SignalClient,
           UNCHANGED <<registered, detachedAt, handling, framesRead, requests, passed, delivered,
                       called, panicked>>
    PROVE  DispInv'
<1>1. DispTypes'
  BY DEF DispInv, DispTypes
<1>2. FreshNumbers'
  BY DEF DispInv, FreshNumbers, Busy, NumberOf
<1>3. ReadInOrder' /\ CalledBeforeDetach'
  BY DEF DispInv, ReadInOrder, CalledBeforeDetach, Busy, NumberOf
<1>4. SocketsRouted'
  BY DEF DispInv, SocketsRouted, CallbacksRouted, isDetached, InHand
<1> QED
  BY <1>1, <1>2, <1>3, <1>4, HandlersLeft DEF DispInv

LEMMA MigrateKeeps == ASSUME DispInv, Migrate PROVE DispInv'
<1>1. live' \subseteq Source /\ currentClient' \in SignalClient
  BY SocketsNumbered DEF DispInv, DispTypes, Migrate
<1> QED
  BY <1>1, SocketsOpenOrClose DEF Migrate

LEMMA CloseOldKeeps == ASSUME DispInv, CloseOld PROVE DispInv'
<1>1. live' \subseteq Source /\ currentClient' \in SignalClient
  BY DEF DispInv, DispTypes, CloseOld
<1> QED
  BY <1>1, SocketsOpenOrClose DEF CloseOld

LEMMA DetachKeeps == ASSUME DispInv, Detach PROVE DispInv'
<1>0. MaxFrames \in Nat /\ framesRead \in 0 .. MaxFrames /\ currentClient \in SignalClient
  BY DispatchAssumption DEF DispInv, DispTypes
<1>1. PICK d \in 1 .. MaxFrames + 1 : d = framesRead + 1
  BY <1>0
<1>2. PICK c \in SignalClient : c = currentClient
  BY <1>0
<1>3. /\ detachedAt' = [detachedAt EXCEPT ![c] = d] /\ detachedAt[c] = 0
      /\ UNCHANGED <<registered, live, currentClient, handling, framesRead, requests, passed,
                     delivered, called, panicked>>
  BY <1>1, <1>2 DEF Detach
<1>4. detachedAt \in [SignalClient -> 0 .. MaxFrames + 1] /\ d \in 0 .. MaxFrames + 1 /\ d # 0
  BY <1>0, <1>1 DEF DispInv, DispTypes
<1>5. \A k \in SignalClient : detachedAt'[k] = IF k = c THEN d ELSE detachedAt[k]
  BY <1>3, <1>4
<1>6. DispTypes'
  <2>1. detachedAt' \in [SignalClient -> 0 .. MaxFrames + 1]
    BY <1>3, <1>4
  <2> QED
    BY <1>3, <2>1 DEF DispInv, DispTypes
<1>7. FreshNumbers'
  BY <1>3 DEF DispInv, FreshNumbers, Busy, NumberOf
<1>8. ReadInOrder'
  BY <1>3 DEF DispInv, ReadInOrder, Busy, NumberOf
<1>9. CalledBeforeDetach'
  <2> SUFFICES ASSUME NEW s \in SignalClient, handling[s].stage = "calling", detachedAt'[s] # 0
               PROVE  NumberOf(s) < detachedAt'[s]
    BY <1>3 DEF CalledBeforeDetach, NumberOf
  <2>1. CASE s = c
    <3>1. s \in Reader /\ Busy(s)
      BY SocketsNumbered DEF Busy
    <3>2. NumberOf(s) \in 1 .. framesRead
      BY <3>1 DEF DispInv, FreshNumbers
    <3> QED
      BY <1>0, <1>1, <1>5, <2>1, <3>2
  <2>2. CASE s # c
    BY <1>5, <2>2 DEF DispInv, CalledBeforeDetach
  <2> QED
    BY <2>1, <2>2
<1>10. SocketsRouted'
  <2> SUFFICES ASSUME NEW s \in Source PROVE CallbacksRouted(s)'
    BY DEF SocketsRouted
  <2>1. CallbacksRouted(s)
    BY DEF DispInv, SocketsRouted
  <2>2. isDetached(s) => isDetached(s)'
    BY <1>4, <1>5 DEF isDetached
  <2>3. isDetached(s)' => \A i \in 1 .. Len(called[s]) : called[s][i].number < detachedAt'[s]
    <3>1. CASE s = c
      <4>1. \A i \in 1 .. Len(called[s]) : called[s][i].number \in 1 .. framesRead
        BY DEF DispInv, FreshNumbers
      <4> QED
        BY <1>0, <1>1, <1>5, <3>1, <4>1
    <3>2. CASE s # c
      <4>1. isDetached(s)' => isDetached(s) /\ detachedAt'[s] = detachedAt[s]
        BY <1>5, <3>2 DEF isDetached
      <4> QED
        BY <2>1, <4>1 DEF CallbacksRouted
    <3> QED
      BY <3>1, <3>2
  <2>4. \A f : InHand(s, f)' <=> InHand(s, f)
    BY <1>3 DEF InHand
  <2> QED
    BY <1>3, <2>1, <2>2, <2>3, <2>4 DEF CallbacksRouted
<1> QED
  BY <1>3, <1>6, <1>7, <1>8, <1>9, <1>10, HandlersLeft DEF DispInv

\* Only a client's own read loop, or Connect, handles the frames of a socket.
LEMMA WhoHandles ==
    ASSUME NEW r \in Reader, NEW s \in Source, sourceOf(r) = s
    PROVE  /\ r = s \/ (r = ConnectCaller /\ s = Coordinator)
           /\ s \in SignalClient => r = s
  BY SocketsNumbered

LEMMA HandleDetachedKeeps == ASSUME DispInv, NEW r \in Reader, HandleDetached(r) PROVE DispInv'
<1>1. handling \in [Reader -> Handling] /\ handling[r] \in Handling
  BY DEF DispInv, DispTypes
<1>2. PICK f \in Frame : f = handling[r].frame
  BY <1>1 DEF Handling
<1>3. PICK v \in Handling :
        /\ handling' = [handling EXCEPT ![r] = v]
        /\ \/ v = idleReader /\ silenced(sourceOf(r), f)
           \/ v.stage = "calling" /\ v.frame = f /\ ~silenced(sourceOf(r), f)
  <2>1. CASE silenced(sourceOf(r), f)
    <3>1. handling' = [handling EXCEPT ![r] = idleReader]
      BY <1>2, <2>1 DEF HandleDetached
    <3> QED
      BY <2>1, <3>1, idleReaderType
  <2>2. CASE ~silenced(sourceOf(r), f)
    <3>1. PICK v : v = [handling[r] EXCEPT !.stage = "calling"]
      OBVIOUS
    <3>2. handling' = [handling EXCEPT ![r] = v]
      BY <1>2, <2>2, <3>1 DEF HandleDetached
    <3>3. v \in Handling /\ v.stage = "calling" /\ v.frame = f
      BY <1>1, <1>2, <3>1 DEF Handling
    <3> QED
      BY <2>2, <3>2, <3>3
  <2> QED
    BY <2>1, <2>2
<1>4. /\ handling[r].stage = "callback"
      /\ UNCHANGED <<registered, live, currentClient, detachedAt, framesRead, requests, passed,
                     delivered, called, panicked>>
  BY DEF HandleDetached
<1>5. \A x \in Reader : handling'[x] = IF x = r THEN v ELSE handling[x]
  BY <1>1, <1>3
<1>6. DispTypes'
  <2>1. handling' \in [Reader -> Handling]
    BY <1>1, <1>3
  <2> QED
    BY <1>4, <2>1 DEF DispInv, DispTypes
<1>7. ASSUME NEW x \in Reader
      PROVE  /\ Busy(x)' => Busy(x) /\ handling'[x].frame = handling[x].frame
             /\ ~Busy(x)' => handling'[x] = idleReader
             /\ handling'[x].stage = "store" => handling[x].stage = "store"
  <2>1. CASE x = r
    BY <1>2, <1>3, <1>4, <1>5, <2>1, idleReaderType DEF Busy
  <2>2. CASE x # r
    <3>1. handling'[x] = handling[x]
      BY <1>5, <2>2
    <3> QED
      BY <3>1 DEF Busy, DispInv, FreshNumbers
  <2> QED
    BY <2>1, <2>2
<1>8. FreshNumbers'
  <2>1. ASSUME NEW x \in Reader
        PROVE  IF Busy(x)' THEN NumberOf(x)' \in 1 .. framesRead' ELSE handling'[x] = idleReader
    BY <1>4, <1>7 DEF DispInv, FreshNumbers, NumberOf
  <2>2. ASSUME NEW x \in Reader, NEW y \in Reader, Busy(x)', Busy(y)', x # y
        PROVE  NumberOf(x)' # NumberOf(y)'
    BY <1>7, <2>2 DEF DispInv, FreshNumbers, NumberOf
  <2>3. ASSUME NEW x \in Reader, handling'[x].stage = "store", NEW s \in Source,
               NEW i \in 1 .. Len(passed[s])
        PROVE  passed[s][i].number # NumberOf(x)'
    <3>1. Busy(x)'
      BY <2>3 DEF Busy
    <3> QED
      BY <1>7, <2>3, <3>1 DEF DispInv, FreshNumbers, NumberOf
  <2>4. ASSUME NEW x \in Reader, Busy(x)', NEW s \in Source, NEW i \in 1 .. Len(called[s])
        PROVE  called[s][i].number # NumberOf(x)'
    BY <1>7, <2>4 DEF DispInv, FreshNumbers, NumberOf
  <2>5. /\ \A s \in Source : \A i \in 1 .. Len(passed[s]) : passed[s][i].number \in 1 .. framesRead
        /\ \A s \in Source : \A i \in 1 .. Len(called[s]) : called[s][i].number \in 1 .. framesRead
    BY DEF DispInv, FreshNumbers
  <2> QED
    BY <1>4, <2>1, <2>2, <2>3, <2>4, <2>5 DEF FreshNumbers
<1>9. ReadInOrder'
  <2>1. Busy(ConnectCaller)' => handling'[ConnectCaller].frame.type = ConnectedOk
    BY <1>7, SocketsNumbered DEF DispInv, ReadInOrder
  <2>2. ASSUME NEW s \in Source, Busy(s)'
        PROVE  Busy(s) /\ NumberOf(s)' = NumberOf(s)
    BY <1>7, <2>2, SocketsNumbered DEF NumberOf
  <2> QED
    BY <1>4, <2>1, <2>2 DEF DispInv, ReadInOrder
<1>10. CalledBeforeDetach'
  <2> SUFFICES ASSUME NEW s \in SignalClient, handling'[s].stage = "calling", detachedAt[s] # 0
               PROVE  NumberOf(s)' < detachedAt[s]
    BY <1>4 DEF CalledBeforeDetach
  <2>1. s \in Reader /\ s \in Source
    BY SocketsNumbered
  <2>2. s # r
    <3>1. ASSUME s = r PROVE FALSE
      <4>1. ~silenced(sourceOf(r), f)
        BY <1>3, <1>5, <2>1, <3>1, idleReaderType
      <4>2. sourceOf(r) = s
        BY <2>1, <3>1, SocketsNumbered
      <4> QED
        BY <4>1, <4>2 DEF silenced, isDetached
    <3> QED
      BY <3>1
  <2>3. handling'[s] = handling[s]
    BY <1>5, <2>1, <2>2
  <2> QED
    BY <2>3 DEF DispInv, CalledBeforeDetach, NumberOf
<1>11. SocketsRouted'
  <2> SUFFICES ASSUME NEW s \in Source PROVE CallbacksRouted(s)'
    BY DEF SocketsRouted
  <2>1. CallbacksRouted(s) /\ (isDetached(s)' <=> isDetached(s))
    BY <1>4 DEF DispInv, SocketsRouted, isDetached
  <2>2. ASSUME NEW g, InHand(s, g) PROVE InHand(s, g)' \/ isDetached(s) \/ g.type = MigrationComplete
    <3>1. PICK x \in Reader : /\ sourceOf(x) = s /\ handling[x].stage \in {"callback", "calling"}
                              /\ handling[x].frame = g
      BY <2>2 DEF InHand
    <3>2. CASE x # r
      <4>1. handling'[x] = handling[x]
        BY <1>5, <3>2
      <4> QED
        BY <3>1, <4>1 DEF InHand
    <3>3. CASE x = r /\ silenced(sourceOf(r), f)
      BY <1>2, <3>1, <3>3 DEF silenced
    <3>4. CASE x = r /\ ~silenced(sourceOf(r), f)
      <4>1. handling'[x].stage = "calling" /\ handling'[x].frame = g
        BY <1>2, <1>3, <1>5, <3>1, <3>4
      <4> QED
        BY <3>1, <4>1 DEF InHand
    <3> QED
      BY <3>2, <3>3, <3>4
  <2> QED
    BY <1>4, <2>1, <2>2 DEF CallbacksRouted
<1> QED
  BY <1>4, <1>6, <1>8, <1>9, <1>10, <1>11, HandlersLeft DEF DispInv

LEMMA HandleCallbackKeeps == ASSUME DispInv, NEW r \in Reader, HandleCallback(r) PROVE DispInv'
<1>1. /\ handling \in [Reader -> Handling] /\ handling[r] \in Handling
      /\ called \in [Source -> Seq(Frame)]
  BY DEF DispInv, DispTypes
<1>2. PICK f \in Frame : f = handling[r].frame
  BY <1>1 DEF Handling
<1>3. PICK s \in Source : s = sourceOf(r)
  BY SocketsNumbered
<1>4. /\ handling[r].stage = "calling" /\ handling' = [handling EXCEPT ![r] = idleReader]
      /\ called' = [called EXCEPT ![s] = Append(called[s], f)]
      /\ UNCHANGED <<registered, live, currentClient, detachedAt, framesRead, requests, passed,
                     delivered, panicked>>
  BY <1>2, <1>3 DEF HandleCallback
<1>5. \A x \in Reader : handling'[x] = IF x = r THEN idleReader ELSE handling[x]
  BY <1>1, <1>4
<1>6. called[s] \in Seq(Frame)
  BY <1>1
<1>7. PICK n \in Nat : n = Len(called[s])
  BY <1>6
<1>8. PICK list \in Seq(Frame) : list = Append(called[s], f)
  <2>1. Append(called[s], f) \in Seq(Frame)
    BY ONLY <1>6, f \in Frame, AppendProperties
  <2> QED
    BY ONLY <2>1
<1>9. Len(list) = n + 1 /\ list[n + 1] = f /\ \A i \in 1 .. n : list[i] = called[s][i]
  BY ONLY <1>6, <1>7, <1>8, f \in Frame
<1>10. \A x \in Source : called'[x] = IF x = s THEN list ELSE called[x]
  BY <1>1, <1>4, <1>8
<1>11. Busy(r) /\ NumberOf(r) = f.number
  BY <1>2, <1>4 DEF Busy, NumberOf
<1>12. f.number \in 1 .. framesRead /\ \A i \in 1 .. n : called[s][i].number # f.number
  BY <1>7, <1>11 DEF DispInv, FreshNumbers
<1>13. \A x \in Reader : Busy(x)' => x # r /\ Busy(x) /\ handling'[x] = handling[x]
  BY <1>5, idleReaderType DEF Busy
<1>14. DispTypes'
  <2>1. handling' \in [Reader -> Handling]
    BY <1>1, <1>4, idleReaderType
  <2>2. called' \in [Source -> Seq(Frame)]
    BY <1>1, <1>4, <1>8
  <2> QED
    BY <1>4, <2>1, <2>2 DEF DispInv, DispTypes
<1>15. ASSUME NEW x \in Source, NEW i \in 1 .. Len(called'[x])
       PROVE  \/ i \in 1 .. Len(called[x]) /\ called'[x][i] = called[x][i]
              \/ x = s /\ i = n + 1 /\ called'[x][i] = f
  <2>1. CASE x # s
    BY <1>10, <2>1
  <2>2. CASE x = s
    <3>1. called'[x] = list /\ i \in 1 .. n + 1
      BY <1>9, <1>10, <2>2
    <3>2. CASE i = n + 1
      BY <1>9, <2>2, <3>1, <3>2
    <3>3. CASE i # n + 1
      <4>1. i \in 1 .. n
        BY <3>1, <3>3
      <4> QED
        BY <1>7, <1>9, <2>2, <3>1, <4>1
    <3> QED
      BY <3>2, <3>3
  <2> QED
    BY <2>1, <2>2
<1>16. FreshNumbers'
  <2>1. ASSUME NEW x \in Reader
        PROVE  IF Busy(x)' THEN NumberOf(x)' \in 1 .. framesRead' ELSE handling'[x] = idleReader
    <3>1. CASE Busy(x)'
      BY <1>4, <1>13, <3>1 DEF DispInv, FreshNumbers, NumberOf
    <3>2. CASE ~Busy(x)'
      <4>1. CASE x = r
        BY <1>5, <3>2, <4>1
      <4>2. CASE x # r
        <5>1. handling'[x] = handling[x] /\ ~Busy(x)
          BY <1>5, <3>2, <4>2 DEF Busy
        <5> QED
          BY <3>2, <5>1 DEF DispInv, FreshNumbers
      <4> QED
        BY <4>1, <4>2
    <3> QED
      BY <3>1, <3>2
  <2>2. ASSUME NEW x \in Reader, NEW y \in Reader, Busy(x)', Busy(y)', x # y
        PROVE  NumberOf(x)' # NumberOf(y)'
    BY <1>13, <2>2 DEF DispInv, FreshNumbers, NumberOf
  <2>3. ASSUME NEW x \in Reader, handling'[x].stage = "store", NEW y \in Source,
               NEW i \in 1 .. Len(passed[y])
        PROVE  passed[y][i].number # NumberOf(x)'
    <3>1. Busy(x)'
      BY <2>3 DEF Busy
    <3> QED
      BY <1>13, <2>3, <3>1 DEF DispInv, FreshNumbers, NumberOf
  <2>4. ASSUME NEW x \in Reader, Busy(x)', NEW y \in Source, NEW i \in 1 .. Len(called'[y])
        PROVE  called'[y][i].number # NumberOf(x)'
    <3>1. x # r /\ Busy(x) /\ NumberOf(x)' = NumberOf(x)
      BY <1>13, <2>4 DEF NumberOf
    <3>2. CASE i \in 1 .. Len(called[y]) /\ called'[y][i] = called[y][i]
      BY <3>1, <3>2 DEF DispInv, FreshNumbers
    <3>3. CASE called'[y][i] = f
      BY <1>11, <3>1, <3>3 DEF DispInv, FreshNumbers
    <3> QED
      BY <1>15, <3>2, <3>3
  <2>5. \A y \in Source : \A i \in 1 .. Len(passed[y]) : passed[y][i].number \in 1 .. framesRead
    BY DEF DispInv, FreshNumbers
  <2>6. ASSUME NEW y \in Source, NEW i \in 1 .. Len(called'[y])
        PROVE  called'[y][i].number \in 1 .. framesRead
    <3>1. CASE i \in 1 .. Len(called[y]) /\ called'[y][i] = called[y][i]
      BY <3>1 DEF DispInv, FreshNumbers
    <3> QED
      BY <1>12, <1>15, <3>1
  <2> QED
    BY <1>4, <2>1, <2>2, <2>3, <2>4, <2>5, <2>6 DEF FreshNumbers
<1>17. ReadInOrder'
  <2>1. Busy(ConnectCaller)' => handling'[ConnectCaller].frame.type = ConnectedOk
    BY <1>13, SocketsNumbered DEF DispInv, ReadInOrder
  <2>2. ASSUME NEW x \in Source, Busy(x)', NEW i \in 1 .. Len(called'[x]),
               called'[x][i].type # ConnectedOk
        PROVE  called'[x][i].number < NumberOf(x)'
    <3>1. x \in Reader /\ x # r /\ Busy(x) /\ NumberOf(x)' = NumberOf(x)
      BY <1>13, <2>2, SocketsNumbered DEF NumberOf
    <3>2. CASE i \in 1 .. Len(called[x]) /\ called'[x][i] = called[x][i]
      BY <2>2, <3>1, <3>2 DEF DispInv, ReadInOrder
    <3>3. CASE x = s /\ called'[x][i] = f
      <4>1. r = ConnectCaller
        BY <1>3, <3>1, <3>3, WhoHandles
      <4>2. f.type = ConnectedOk
        BY <1>2, <1>11, <4>1 DEF DispInv, ReadInOrder
      <4> QED
        BY <2>2, <3>3, <4>2
    <3> QED
      BY <1>15, <3>2, <3>3
  <2> QED
    BY <2>1, <2>2 DEF ReadInOrder
<1>18. CalledBeforeDetach'
  <2> SUFFICES ASSUME NEW x \in SignalClient, handling'[x].stage = "calling", detachedAt[x] # 0
               PROVE  NumberOf(x)' < detachedAt[x]
    BY <1>4 DEF CalledBeforeDetach
  <2>1. x \in Reader
    BY SocketsNumbered
  <2>2. handling'[x] = handling[x]
    BY <1>5, <2>1, idleReaderType
  <2> QED
    BY <2>2 DEF DispInv, CalledBeforeDetach, NumberOf
<1>19. SocketsRouted'
  <2> SUFFICES ASSUME NEW x \in Source PROVE CallbacksRouted(x)'
    BY DEF SocketsRouted
  <2>1. CallbacksRouted(x) /\ (isDetached(x)' <=> isDetached(x))
    BY <1>4 DEF DispInv, SocketsRouted, isDetached
  <2>2. ASSUME NEW g, InHand(x, g) PROVE InHand(x, g)' \/ (x = s /\ g = f)
    <3>1. PICK y \in Reader : /\ sourceOf(y) = x /\ handling[y].stage \in {"callback", "calling"}
                              /\ handling[y].frame = g
      BY <2>2 DEF InHand
    <3>2. CASE y # r
      <4>1. handling'[y] = handling[y]
        BY <1>5, <3>2
      <4> QED
        BY <3>1, <4>1 DEF InHand
    <3>3. CASE y = r
      BY <1>2, <1>3, <3>1, <3>3
    <3> QED
      BY <3>2, <3>3
  <2>3. CASE x # s
    <3>1. called'[x] = called[x] /\ passed'[x] = passed[x]
      BY <1>4, <1>10, <2>3
    <3>2. \A g : InHand(x, g) => InHand(x, g)'
      BY <2>2, <2>3
    <3> QED
      BY <1>4, <2>1, <3>1, <3>2, ZenonT(60) DEF CallbacksRouted
  <2>4. CASE x = s
    <3>1. called'[x] = list /\ passed'[x] = passed[x] /\ Len(called'[x]) = n + 1
      BY <1>4, <1>9, <1>10, <2>4
    <3>2. ASSUME NEW i \in 1 .. n + 1, NEW j \in 1 .. n + 1, list[i] = list[j] PROVE i = j
      <4>1. \A k \in 1 .. n : list[k] # f
        BY <1>9, <1>12
      <4>2. CASE i = n + 1 \/ j = n + 1
        BY <1>9, <3>2, <4>1, <4>2
      <4>3. CASE i # n + 1 /\ j # n + 1
        <5>1. i \in 1 .. n /\ j \in 1 .. n
          BY <4>3
        <5>2. called[s][i] = called[s][j]
          BY <1>9, <3>2, <5>1
        <5> QED
          BY <1>7, <2>1, <2>4, <5>1, <5>2 DEF CallbacksRouted
      <4> QED
        BY <4>2, <4>3
    <3>3. ASSUME isDetached(s), NEW i \in 1 .. n + 1 PROVE list[i].number < detachedAt[s]
      <4>1. CASE i = n + 1
        <5>1. r = s /\ s \in SignalClient /\ detachedAt[s] # 0
          BY <1>3, <3>3, WhoHandles DEF isDetached
        <5>2. NumberOf(s) < detachedAt[s]
          BY <1>4, <5>1 DEF DispInv, CalledBeforeDetach
        <5> QED
          BY <1>9, <1>11, <4>1, <5>1, <5>2
      <4>2. CASE i # n + 1
        <5>1. i \in 1 .. n
          BY <4>2
        <5> QED
          BY <1>7, <1>9, <2>1, <2>4, <3>3, <5>1 DEF CallbacksRouted
      <4> QED
        BY <4>1, <4>2
    <3>4. ASSUME NEW i \in 1 .. n + 1, NEW j \in 1 .. n + 1, i < j,
                 list[i].type # ConnectedOk, list[j].type # ConnectedOk
          PROVE  list[i].number < list[j].number
      <4>1. i \in 1 .. n /\ list[i] = called[s][i]
        BY <1>9, <3>4
      <4>2. CASE j = n + 1
        <5>1. list[j] = f
          BY <1>9, <4>2
        <5>2. r # ConnectCaller
          BY <1>2, <1>11, <3>4, <5>1 DEF DispInv, ReadInOrder
        <5>3. r = s
          BY <1>3, <5>2, WhoHandles
        <5>4. called[s][i].number < NumberOf(s)
          BY <1>7, <1>11, <3>4, <4>1, <5>3 DEF DispInv, ReadInOrder
        <5> QED
          BY <1>11, <4>1, <5>1, <5>3, <5>4
      <4>3. CASE j # n + 1
        <5>1. j \in 1 .. n /\ list[j] = called[s][j]
          BY <1>9, <4>3
        <5> QED
          BY <1>7, <2>1, <2>4, <3>4, <4>1, <5>1 DEF CallbacksRouted
      <4> QED
        BY <4>2, <4>3
    <3>5. ASSUME NEW k \in 1 .. Len(passed[s])
          PROVE  \/ passed[s][k].number \in panicked
                 \/ \E i \in 1 .. n + 1 : list[i] = passed[s][k]
                 \/ InHand(s, passed[s][k])'
                 \/ isDetached(s) \/ passed[s][k].type = MigrationComplete
      <4>1. CASE \E i \in 1 .. n : called[s][i] = passed[s][k]
        BY <1>9, <4>1
      <4>2. CASE InHand(s, passed[s][k])
        <5>1. InHand(s, passed[s][k])' \/ passed[s][k] = f
          <6>1. PICK g : g = passed[s][k]
            OBVIOUS
          <6>2. g = passed'[s][k]
            BY <1>4, <6>1
          <6>3. InHand(s, g)' \/ g = f
            BY <2>2, <2>4, <4>2, <6>1
          <6> QED
            BY <6>1, <6>2, <6>3 DEF InHand
        <5>2. n + 1 \in 1 .. n + 1 /\ list[n + 1] = f
          BY <1>9
        <5> QED
          BY <5>1, <5>2
      <4> QED
        BY <1>7, <2>1, <2>4, <4>1, <4>2 DEF CallbacksRouted
    <3>6. \A i, j \in 1 .. Len(called'[s]) : called'[s][i] = called'[s][j] => i = j
      BY <2>4, <3>1, <3>2
    <3>7. isDetached(s)' => \A i \in 1 .. Len(called'[s]) : called'[s][i].number < detachedAt'[s]
      BY <1>4, <2>1, <2>4, <3>1, <3>3
    <3>8. \A i, j \in 1 .. Len(called'[s]) :
            (i < j /\ called'[s][i].type # ConnectedOk /\ called'[s][j].type # ConnectedOk)
              => called'[s][i].number < called'[s][j].number
      BY <2>4, <3>1, <3>4
    <3>9. \A k \in 1 .. Len(passed'[s]) :
            \/ passed'[s][k].number \in panicked'
            \/ \E i \in 1 .. Len(called'[s]) : called'[s][i] = passed'[s][k]
            \/ InHand(s, passed[s][k])'
            \/ isDetached(s)' \/ passed'[s][k].type = MigrationComplete
      BY <1>4, <2>1, <2>4, <3>1, <3>5
    <3> QED
      BY <2>4, <3>6, <3>7, <3>8, <3>9 DEF CallbacksRouted
  <2> QED
    BY <2>3, <2>4
<1> QED
  BY <1>4, <1>14, <1>16, <1>17, <1>18, <1>19, HandlersLeft DEF DispInv

\* A nonempty set of naturals has a smallest element.
LEMMA FirstOf ==
    ASSUME NEW T \in SUBSET Nat, T # {}
    PROVE  \E x \in T : \A y \in T : x <= y
<1>1. PICK R : R = OpToRel(<, Nat)
  OBVIOUS
<1>2. IsWellFoundedOn(R, Nat)
  BY <1>1, NatLessThanWellFounded
<1>3. PICK x \in T : \A y \in T : ~(<<y, x>> \in R)
  BY <1>2, WFMin
<1>4. R = {ss \in Nat \X Nat : ss[1] < ss[2]}
  BY <1>1 DEF OpToRel
<1>5. ASSUME NEW y \in T PROVE x <= y
  <2>1. <<y, x>> \notin R
    BY <1>3
  <2>2. <<y, x>> \in Nat \X Nat
    OBVIOUS
  <2>3. ~(y < x)
    BY <1>4, <2>1, <2>2
  <2> QED
    BY <2>3
<1> QED
  BY <1>5

\* A matching handler that Store.Intercept does not reach is behind one that panics.
LEMMA ReachedOrStopped ==
    ASSUME DispInv, NEW s \in Source, NEW f \in Frame, NEW i \in 1 .. Len(registered[s]),
           matches(registered[s][i], f)
    PROVE  registered[s][i] \in reached(s, f) \/ \E h \in reached(s, f) : h \in Panicking
<1>1. PICK list \in Seq(HandlerId) : list = registered[s]
  <2>1. registered[s] \in Seq(HandlerId)
    BY DEF DispInv, DispTypes
  <2> QED
    BY ONLY <2>1
<1>2. PICK n \in Nat : n = Len(list)
  OBVIOUS
<1>3. /\ DOMAIN list = 1 .. n /\ i \in 1 .. n /\ \A k \in 1 .. n : list[k] \in HandlerId
  BY ONLY <1>1, <1>2, i \in 1 .. Len(registered[s])
<1>4. \A k \in 1 .. n : (matches(list[k], f) /\ \A j \in 1 .. k - 1 : ~stopsAt(s, f, j))
                           => list[k] \in reached(s, f)
  BY <1>1, <1>3 DEF reached
<1>5. CASE \A j \in 1 .. i - 1 : ~stopsAt(s, f, j)
  BY <1>1, <1>3, <1>4, <1>5
<1>6. CASE \E j \in 1 .. i - 1 : stopsAt(s, f, j)
  <2>1. PICK T : T = {j \in 1 .. n : stopsAt(s, f, j)}
    OBVIOUS
  <2>2. T # {}
    BY <1>3, <1>6, <2>1
  <2>3. PICK k \in T : \A y \in T : k <= y
    <3>1. T \in SUBSET Nat
      BY <2>1
    <3> QED
      BY <2>2, <3>1, FirstOf
  <2>4. k \in 1 .. n /\ stopsAt(s, f, k)
    BY <2>1, <2>3
  <2>5. \A j \in 1 .. k - 1 : ~stopsAt(s, f, j)
    BY <2>1, <2>3, <2>4
  <2>6. matches(list[k], f) /\ list[k] \in Panicking
    BY <1>1, <2>4 DEF stopsAt
  <2> QED
    BY <1>4, <2>4, <2>5, <2>6
<1> QED
  BY <1>5, <1>6

LEMMA HandleStoreKeeps == ASSUME DispInv, NEW r \in Reader, HandleStore(r) PROVE DispInv'
<1>1. /\ handling \in [Reader -> Handling] /\ handling[r] \in Handling
      /\ passed \in [Source -> Seq(Frame)] /\ delivered \in [HandlerId -> Seq(Frame)]
      /\ requests \in [HandlerId -> Request] /\ registered \in [Source -> Seq(HandlerId)]
  BY DEF DispInv, DispTypes
<1>2. PICK f \in Frame : f = handling[r].frame
  BY <1>1 DEF Handling
<1>3. PICK s \in Source : s = sourceOf(r)
  BY SocketsNumbered
<1>4. PICK panic \in BOOLEAN : panic = \E h \in reached(s, f) : h \in Panicking
  OBVIOUS
<1>5. /\ handling[r].stage = "store"
      /\ delivered' = [h \in HandlerId |->
                         IF h \in reached(s, f) THEN Append(delivered[h], f) ELSE delivered[h]]
      /\ passed' = [passed EXCEPT ![s] = Append(passed[s], f)]
      /\ UNCHANGED <<registered, currentClient, detachedAt, framesRead, requests, called>>
  BY <1>2, <1>3 DEF HandleStore
<1>6. /\ panicked \subseteq panicked' /\ panicked' \subseteq panicked \cup {f.number}
      /\ panic => f.number \in panicked'
  BY <1>2, <1>3, <1>4 DEF HandleStore
<1>7. PICK v \in Handling :
        /\ handling' = [handling EXCEPT ![r] = v]
        /\ \/ panic /\ v = idleReader
           \/ ~panic /\ v.stage = "callback" /\ v.frame = f
  <2>1. CASE panic
    <3>1. handling' = [handling EXCEPT ![r] = idleReader]
      BY <1>2, <1>3, <1>4, <2>1 DEF HandleStore
    <3> QED
      BY <2>1, <3>1, idleReaderType
  <2>2. CASE ~panic
    <3>1. PICK v : v = [handling[r] EXCEPT !.stage = "callback"]
      OBVIOUS
    <3>2. handling' = [handling EXCEPT ![r] = v]
      BY <1>2, <1>3, <1>4, <2>2, <3>1 DEF HandleStore
    <3>3. v \in Handling /\ v.stage = "callback" /\ v.frame = f
      BY <1>1, <1>2, <3>1 DEF Handling
    <3> QED
      BY <2>2, <3>2, <3>3
  <2> QED
    BY <2>1, <2>2
<1>8. live' \subseteq Source
  BY DEF DispInv, DispTypes, HandleStore
<1>9. passed[s] \in Seq(Frame)
  BY <1>1
<1>10. PICK n \in Nat : n = Len(passed[s])
  BY <1>9
<1>11. PICK list \in Seq(Frame) : list = Append(passed[s], f)
  <2>1. Append(passed[s], f) \in Seq(Frame)
    BY ONLY <1>9, f \in Frame, AppendProperties
  <2> QED
    BY ONLY <2>1
<1>12. Len(list) = n + 1 /\ list[n + 1] = f /\ \A i \in 1 .. n : list[i] = passed[s][i]
  BY ONLY <1>9, <1>10, <1>11, f \in Frame
<1>13. /\ \A x \in Source : passed'[x] = IF x = s THEN list ELSE passed[x]
       /\ \A x \in Reader : handling'[x] = IF x = r THEN v ELSE handling[x]
  BY <1>1, <1>5, <1>7, <1>11
<1>14. Busy(r) /\ NumberOf(r) = f.number
  BY <1>2, <1>5 DEF Busy, NumberOf
<1>15. /\ f.number \in 1 .. framesRead
       /\ \A x \in Source : \A i \in 1 .. Len(passed[x]) : passed[x][i].number # f.number
  BY <1>5, <1>14 DEF DispInv, FreshNumbers
<1>16. \A h \in reached(s, f) :
         /\ h \in HandlerId /\ matches(h, f)
         /\ requests[h].asked /\ ~requests[h].removed /\ requests[h].source = s
  <2> SUFFICES ASSUME NEW h \in reached(s, f)
               PROVE  /\ h \in HandlerId /\ matches(h, f)
                      /\ requests[h].asked /\ ~requests[h].removed /\ requests[h].source = s
    OBVIOUS
  <2>1. PICK old \in Seq(HandlerId) : old = registered[s]
    <3>1. registered[s] \in Seq(HandlerId)
      BY <1>1
    <3> QED
      BY ONLY <3>1
  <2>2. DOMAIN old = 1 .. Len(old)
    OBVIOUS
  <2>3. h \in HandlerId /\ matches(h, f) /\ \E i \in 1 .. Len(old) : old[i] = h
    BY <2>1, <2>2 DEF reached
  <2> QED
    BY <2>1, <2>3 DEF DispInv, Registrations
<1>17. DispTypes'
  <2>1. handling' \in [Reader -> Handling]
    BY <1>1, <1>7
  <2>2. passed' \in [Source -> Seq(Frame)]
    BY <1>1, <1>5, <1>11
  <2>3. delivered' \in [HandlerId -> Seq(Frame)]
    <3>1. ASSUME NEW h \in HandlerId
          PROVE  (IF h \in reached(s, f) THEN Append(delivered[h], f) ELSE delivered[h]) \in Seq(Frame)
      <4>1. delivered[h] \in Seq(Frame)
        BY <1>1
      <4>2. Append(delivered[h], f) \in Seq(Frame)
        BY ONLY <4>1, f \in Frame, AppendProperties
      <4> QED
        BY <4>1, <4>2
    <3> QED
      BY <1>5, <3>1
  <2>4. f.number \in 1 .. MaxFrames
    BY <1>15, DispatchAssumption DEF DispInv, DispTypes
  <2>5. panicked' \subseteq 1 .. MaxFrames
    BY <1>6, <2>4 DEF DispInv, DispTypes
  <2> QED
    BY <1>5, <1>8, <2>1, <2>2, <2>3, <2>5 DEF DispInv, DispTypes
<1>18. ASSUME NEW x \in Reader
       PROVE  /\ Busy(x)' => Busy(x) /\ handling'[x].frame = handling[x].frame
              /\ ~Busy(x)' => handling'[x] = idleReader
              /\ handling'[x].stage = "store" => x # r /\ handling[x].stage = "store"
  <2>1. CASE x = r
    BY <1>2, <1>5, <1>7, <1>13, <2>1, idleReaderType DEF Busy
  <2>2. CASE x # r
    <3>1. handling'[x] = handling[x]
      BY <1>13, <2>2
    <3> QED
      BY <2>2, <3>1 DEF Busy, DispInv, FreshNumbers
  <2> QED
    BY <2>1, <2>2
<1>19. ASSUME NEW x \in Source, NEW i \in 1 .. Len(passed'[x])
       PROVE  \/ i \in 1 .. Len(passed[x]) /\ passed'[x][i] = passed[x][i]
              \/ x = s /\ i = n + 1 /\ passed'[x][i] = f
  <2>1. CASE x # s
    BY <1>13, <2>1
  <2>2. CASE x = s
    <3>1. passed'[x] = list /\ i \in 1 .. n + 1
      BY <1>12, <1>13, <2>2
    <3>2. CASE i = n + 1
      BY <1>12, <2>2, <3>1, <3>2
    <3>3. CASE i # n + 1
      <4>1. i \in 1 .. n
        BY <3>1, <3>3
      <4> QED
        BY <1>10, <1>12, <2>2, <3>1, <4>1
    <3> QED
      BY <3>2, <3>3
  <2> QED
    BY <2>1, <2>2
<1>20. FreshNumbers'
  <2>1. ASSUME NEW x \in Reader
        PROVE  IF Busy(x)' THEN NumberOf(x)' \in 1 .. framesRead' ELSE handling'[x] = idleReader
    BY <1>5, <1>18 DEF DispInv, FreshNumbers, NumberOf
  <2>2. ASSUME NEW x \in Reader, NEW y \in Reader, Busy(x)', Busy(y)', x # y
        PROVE  NumberOf(x)' # NumberOf(y)'
    BY <1>18, <2>2 DEF DispInv, FreshNumbers, NumberOf
  <2>3. ASSUME NEW x \in Source, NEW i \in 1 .. Len(passed'[x])
        PROVE  passed'[x][i].number \in 1 .. framesRead
    <3>1. CASE i \in 1 .. Len(passed[x]) /\ passed'[x][i] = passed[x][i]
      BY <3>1 DEF DispInv, FreshNumbers
    <3> QED
      BY <1>15, <1>19, <3>1
  <2>4. ASSUME NEW x \in Reader, handling'[x].stage = "store", NEW y \in Source,
               NEW i \in 1 .. Len(passed'[y])
        PROVE  passed'[y][i].number # NumberOf(x)'
    <3>1. Busy(x)'
      BY <2>4 DEF Busy
    <3>2. /\ x # r /\ handling[x].stage = "store" /\ Busy(x) /\ NumberOf(x)' = NumberOf(x)
      BY <1>18, <2>4, <3>1 DEF NumberOf
    <3>3. CASE i \in 1 .. Len(passed[y]) /\ passed'[y][i] = passed[y][i]
      BY <3>2, <3>3 DEF DispInv, FreshNumbers
    <3>4. CASE passed'[y][i] = f
      BY <1>14, <3>2, <3>4 DEF DispInv, FreshNumbers
    <3> QED
      BY <1>19, <3>3, <3>4
  <2>5. ASSUME NEW x \in Reader, Busy(x)', NEW y \in Source, NEW i \in 1 .. Len(called[y])
        PROVE  called[y][i].number # NumberOf(x)'
    BY <1>18, <2>5 DEF DispInv, FreshNumbers, NumberOf
  <2>6. \A y \in Source : \A i \in 1 .. Len(called[y]) : called[y][i].number \in 1 .. framesRead
    BY DEF DispInv, FreshNumbers
  <2> QED
    BY <1>5, <2>1, <2>2, <2>3, <2>4, <2>5, <2>6 DEF FreshNumbers
<1>21. ReadInOrder'
  <2>1. Busy(ConnectCaller)' => handling'[ConnectCaller].frame.type = ConnectedOk
    BY <1>18, SocketsNumbered DEF DispInv, ReadInOrder
  <2>2. ASSUME NEW x \in Source, Busy(x)'
        PROVE  Busy(x) /\ NumberOf(x)' = NumberOf(x)
    BY <1>18, <2>2, SocketsNumbered DEF NumberOf
  <2> QED
    BY <1>5, <2>1, <2>2 DEF DispInv, ReadInOrder
<1>22. CalledBeforeDetach'
  <2> SUFFICES ASSUME NEW x \in SignalClient, handling'[x].stage = "calling", detachedAt[x] # 0
               PROVE  NumberOf(x)' < detachedAt[x]
    BY <1>5 DEF CalledBeforeDetach
  <2>1. x \in Reader
    BY SocketsNumbered
  <2>2. handling'[x] = handling[x]
    BY <1>7, <1>13, <2>1, idleReaderType
  <2> QED
    BY <2>2 DEF DispInv, CalledBeforeDetach, NumberOf
<1>23. \A h \in HandlerId : delivered'[h] = IF h \in reached(s, f) THEN Append(delivered[h], f)
                                            ELSE delivered[h]
  BY <1>5
<1>24. Registrations'
  <2>1. \A x \in Source : Len(passed[x]) \in Nat /\ Len(passed'[x]) \in Nat /\ Len(passed[x]) <= Len(passed'[x])
    <3> SUFFICES ASSUME NEW x \in Source
                 PROVE  Len(passed[x]) \in Nat /\ Len(passed'[x]) \in Nat /\ Len(passed[x]) <= Len(passed'[x])
      OBVIOUS
    <3>1. passed[x] \in Seq(Frame)
      BY <1>1
    <3>2. Len(passed[x]) \in Nat
      BY ONLY <3>1
    <3> QED
      BY <1>10, <1>12, <1>13, <3>2
  <2>2. ASSUME NEW h \in HandlerId, requests'[h].asked
        PROVE  /\ requests'[h].since <= Len(passed'[requests'[h].source])
               /\ requests'[h].removed => requests'[h].until <= Len(passed'[requests'[h].source])
    <3>0. requests'[h] = requests[h] /\ requests[h] \in Request
      BY <1>1, <1>5
    <3>1. PICK q \in Request : q = requests[h]
      BY <3>0
    <3>2. q.source \in Source /\ q.since \in Nat /\ q.until \in Nat
      BY DEF Request
    <3>3. q.since <= Len(passed[q.source]) /\ (q.removed => q.until <= Len(passed[q.source]))
      BY <2>2, <3>0, <3>1 DEF DispInv, Registrations
    <3>4. /\ Len(passed[q.source]) \in Nat /\ Len(passed'[q.source]) \in Nat
          /\ Len(passed[q.source]) <= Len(passed'[q.source])
      BY <2>1, <3>2
    <3>5. q.since <= Len(passed'[q.source]) /\ (q.removed => q.until <= Len(passed'[q.source]))
      BY ONLY <3>2, <3>3, <3>4
    <3> QED
      BY <3>0, <3>1, <3>5
  <2>3. ASSUME NEW h \in HandlerId, ~requests'[h].asked PROVE delivered'[h] = <<>>
    <3>1. h \notin reached(s, f)
      BY <1>5, <1>16, <2>3
    <3> QED
      BY <1>5, <1>23, <2>3, <3>1 DEF DispInv, Registrations
  <2> QED
    BY <1>5, <2>2, <2>3 DEF DispInv, Registrations
<1>25. ASSUME NEW h \in HandlerId, requests'[h].asked PROVE HandlerRouted(h)'
  <2>1. PICK q \in Request : q = requests[h]
    BY <1>1
  <2>2. requests'[h] = q /\ q.asked /\ HandlerRouted(h)
    BY <1>5, <1>25, <2>1 DEF DispInv, HandlersRouted
  <2>3. q.source \in Source /\ q.since \in Nat /\ q.until \in Nat
    BY DEF Request
  <2>4. \A g : matches(h, g)' <=> matches(h, g)
    BY <1>5 DEF matches
  <2>5. PICK end \in Nat : end = EndOf(h)
    <3>1. passed[q.source] \in Seq(Frame)
      BY <1>1, <2>3
    <3>2. Len(passed[q.source]) \in Nat
      BY ONLY <3>1
    <3> QED
      BY <2>1, <2>3, <3>2 DEF EndOf
  <2>6. end <= Len(passed[q.source])
    <3>1. passed[q.source] \in Seq(Frame)
      BY <1>1, <2>3
    <3>2. Len(passed[q.source]) \in Nat
      BY ONLY <3>1
    <3> QED
      BY <2>1, <2>2, <2>5, <3>2 DEF EndOf, DispInv, Registrations
  <2>7. /\ \A i \in 1 .. Len(delivered[h]) :
             matches(h, delivered[h][i]) /\ \E k \in q.since + 1 .. end : passed[q.source][k] = delivered[h][i]
        /\ \A k \in q.since + 1 .. end : matches(h, passed[q.source][k]) =>
             \/ passed[q.source][k].number \in panicked
             \/ \E i \in 1 .. Len(delivered[h]) : delivered[h][i] = passed[q.source][k]
        /\ \A i, j \in 1 .. Len(delivered[h]) : delivered[h][i] = delivered[h][j] => i = j
    BY <2>1, <2>2, <2>5, SMTT(30) DEF HandlerRouted
  <2>8. \A k \in q.since + 1 .. end : passed'[q.source][k] = passed[q.source][k]
    <3>1. CASE q.source # s
      BY <1>13, <2>3, <3>1
    <3>2. CASE q.source = s
      <4>1. end <= n
        BY <1>10, <2>6, <3>2
      <4>2. \A k \in q.since + 1 .. end : k \in 1 .. n
        BY <2>3, <4>1
      <4> QED
        BY <1>12, <1>13, <3>2, <4>2
    <3> QED
      BY <3>1, <3>2
  <2>9. CASE ~(q.source = s /\ ~q.removed)
    <3>1. delivered'[h] = delivered[h]
      BY <1>16, <1>23, <2>1, <2>9
    <3>2. EndOf(h)' = end
      <4>1. CASE q.removed
        BY <2>1, <2>2, <2>5, <4>1 DEF EndOf
      <4>2. CASE ~q.removed
        <5>1. passed'[q.source] = passed[q.source]
          BY <1>13, <2>3, <2>9, <4>2
        <5> QED
          BY <2>1, <2>2, <2>5, <4>2, <5>1 DEF EndOf
      <4> QED
        BY <4>1, <4>2
    <3> QED
      BY <1>6, <2>2, <2>4, <2>7, <2>8, <3>1, <3>2 DEF HandlerRouted
  <2>10. CASE q.source = s /\ ~q.removed
    <3>1. end = n /\ EndOf(h)' = n + 1
      BY <1>10, <1>12, <1>13, <2>1, <2>2, <2>5, <2>10 DEF EndOf
    <3>2. q.since <= n
      BY <1>10, <2>1, <2>2, <2>10 DEF DispInv, Registrations
    <3>3. n + 1 \in q.since + 1 .. n + 1 /\ passed'[s][n + 1] = f
      BY <1>12, <1>13, <2>3, <3>2
    <3>4. \A k \in q.since + 1 .. n + 1 : k = n + 1 \/ k \in q.since + 1 .. end
      BY <2>3, <3>1
    <3>5. CASE h \notin reached(s, f)
      <4>1. delivered'[h] = delivered[h]
        BY <1>23, <3>5
      <4>2. matches(h, f) => f.number \in panicked'
        <5> SUFFICES ASSUME matches(h, f) PROVE f.number \in panicked'
          OBVIOUS
        <5>1. PICK i \in 1 .. Len(registered[s]) : registered[s][i] = h
          BY <2>1, <2>2, <2>10 DEF DispInv, Registrations
        <5>2. \E x \in reached(s, f) : x \in Panicking
          BY <3>5, <5>1, ReachedOrStopped
        <5> QED
          BY <1>4, <1>6, <5>2
      <4>3. \A i \in 1 .. Len(delivered[h]) : \E k \in q.since + 1 .. n + 1 : passed'[s][k] = delivered[h][i]
        <5>1. \A k \in q.since + 1 .. end : k \in q.since + 1 .. n + 1
          BY <2>3, <3>1
        <5> QED
          BY <2>7, <2>8, <2>10, <5>1
      <4>4. \A k \in q.since + 1 .. n + 1 : matches(h, passed'[s][k]) =>
              \/ passed'[s][k].number \in panicked'
              \/ \E i \in 1 .. Len(delivered[h]) : delivered[h][i] = passed'[s][k]
        BY <1>6, <2>7, <2>8, <2>10, <3>3, <3>4, <4>2
      <4> QED
        BY <2>2, <2>4, <2>7, <2>10, <3>1, <4>1, <4>3, <4>4 DEF HandlerRouted
    <3>6. CASE h \in reached(s, f)
      <4>1. PICK got \in Seq(Frame) : got = delivered[h]
        BY <1>1
      <4>2. PICK m \in Nat : m = Len(got)
        OBVIOUS
      <4>3. PICK new : new = Append(got, f)
        OBVIOUS
      <4>4. Len(new) = m + 1 /\ new[m + 1] = f /\ \A i \in 1 .. m : new[i] = got[i]
        BY ONLY <4>2, <4>3, got \in Seq(Frame), f \in Frame
      <4>5. delivered'[h] = new /\ matches(h, f)
        BY <1>16, <1>23, <3>6, <4>1, <4>3
      <4>6. \A i \in 1 .. m + 1 : i = m + 1 \/ i \in 1 .. m
        OBVIOUS
      <4>7. \A k \in q.since + 1 .. end : k \in q.since + 1 .. n + 1 /\ k \in 1 .. Len(passed[s])
        BY <1>10, <2>3, <3>1
      <4>8. \A i \in 1 .. m : got[i] # f
        <5> SUFFICES ASSUME NEW i \in 1 .. m, got[i] = f PROVE FALSE
          OBVIOUS
        <5>1. PICK k \in q.since + 1 .. end : passed[s][k] = got[i]
          BY <2>7, <2>10, <4>1, <4>2
        <5> QED
          BY <1>15, <4>7, <5>1
      <4>9. \A i \in 1 .. m + 1 : matches(h, new[i])
                                   /\ \E k \in q.since + 1 .. n + 1 : passed'[s][k] = new[i]
        <5> SUFFICES ASSUME NEW i \in 1 .. m + 1
                     PROVE  matches(h, new[i]) /\ \E k \in q.since + 1 .. n + 1 : passed'[s][k] = new[i]
          OBVIOUS
        <5>1. CASE i = m + 1
          BY <3>3, <4>4, <4>5, <5>1
        <5>2. CASE i \in 1 .. m
          <6>1. new[i] = delivered[h][i] /\ i \in 1 .. Len(delivered[h])
            BY <4>1, <4>2, <4>4, <5>2
          <6>2. matches(h, new[i])
            BY <2>7, <6>1
          <6>3. PICK k \in q.since + 1 .. end : passed[s][k] = new[i]
            BY <2>7, <2>10, <6>1
          <6>4. k \in q.since + 1 .. n + 1 /\ passed'[s][k] = new[i]
            BY <2>8, <2>10, <4>7, <6>3
          <6> QED
            BY <6>2, <6>4
        <5> QED
          BY <4>6, <5>1, <5>2
      <4>10. \A k \in q.since + 1 .. n + 1 : matches(h, passed'[s][k]) =>
               \/ passed'[s][k].number \in panicked'
               \/ \E i \in 1 .. m + 1 : new[i] = passed'[s][k]
        <5> SUFFICES ASSUME NEW k \in q.since + 1 .. n + 1, matches(h, passed'[s][k])
                     PROVE  \/ passed'[s][k].number \in panicked'
                            \/ \E i \in 1 .. m + 1 : new[i] = passed'[s][k]
          OBVIOUS
        <5>1. CASE k = n + 1
          BY <3>3, <4>4, <5>1
        <5>2. CASE k \in q.since + 1 .. end
          <6>1. passed'[s][k] = passed[s][k]
            BY <2>8, <2>10, <5>2
          <6>2. \/ passed[s][k].number \in panicked
                \/ \E i \in 1 .. m : got[i] = passed[s][k]
            BY <2>7, <2>10, <4>1, <4>2, <5>2, <6>1
          <6> QED
            BY <1>6, <4>4, <6>1, <6>2
        <5> QED
          BY <3>4, <5>1, <5>2
      <4>11. \A i, j \in 1 .. m + 1 : new[i] = new[j] => i = j
        <5> SUFFICES ASSUME NEW i \in 1 .. m + 1, NEW j \in 1 .. m + 1, new[i] = new[j] PROVE i = j
          OBVIOUS
        <5>1. CASE i \in 1 .. m /\ j \in 1 .. m
          BY <2>7, <4>1, <4>2, <4>4, <5>1
        <5>2. CASE i = m + 1 \/ j = m + 1
          BY <4>4, <4>6, <4>8, <5>2
        <5> QED
          BY <4>6, <5>1, <5>2
      <4>12. Len(delivered'[h]) = m + 1 /\ requests'[h].source = s /\ requests'[h].since = q.since
        BY <2>2, <2>10, <4>4, <4>5
      <4>13. /\ \A i \in 1 .. Len(delivered'[h]) :
                  /\ matches(h, delivered'[h][i])
                  /\ \E k \in q.since + 1 .. n + 1 : passed'[s][k] = delivered'[h][i]
             /\ \A i, j \in 1 .. Len(delivered'[h]) : delivered'[h][i] = delivered'[h][j] => i = j
        BY <4>5, <4>9, <4>11, <4>12
      <4>14. \A k \in q.since + 1 .. n + 1 : matches(h, passed'[s][k]) =>
               \/ passed'[s][k].number \in panicked'
               \/ \E i \in 1 .. Len(delivered'[h]) : delivered'[h][i] = passed'[s][k]
        BY <4>5, <4>10, <4>12
      <4> QED
        BY <2>4, <3>1, <4>12, <4>13, <4>14 DEF HandlerRouted
    <3> QED
      BY <3>5, <3>6
  <2> QED
    BY <2>9, <2>10
<1>26. SocketsRouted'
  <2> SUFFICES ASSUME NEW x \in Source PROVE CallbacksRouted(x)'
    BY DEF SocketsRouted
  <2>1. CallbacksRouted(x) /\ (isDetached(x)' <=> isDetached(x))
    BY <1>5 DEF DispInv, SocketsRouted, isDetached
  <2>2. ASSUME NEW g, InHand(x, g) PROVE InHand(x, g)'
    <3>1. PICK y \in Reader : /\ sourceOf(y) = x /\ handling[y].stage \in {"callback", "calling"}
                              /\ handling[y].frame = g
      BY <2>2 DEF InHand
    <3>2. handling'[y] = handling[y]
      BY <1>5, <1>13, <3>1
    <3> QED
      BY <3>1, <3>2 DEF InHand
  <2>3. ASSUME ~panic PROVE InHand(s, f)'
    <3>1. handling'[r].stage = "callback" /\ handling'[r].frame = f
      BY <1>7, <1>13, <2>3
    <3> QED
      BY <1>3, <3>1 DEF InHand
  <2>4. ASSUME NEW k \in 1 .. Len(passed'[x]), NEW g, g = passed'[x][k]
        PROVE  \/ g.number \in panicked'
               \/ \E i \in 1 .. Len(called[x]) : called[x][i] = g
               \/ InHand(x, g)'
               \/ isDetached(x) \/ g.type = MigrationComplete
    <3>1. CASE k \in 1 .. Len(passed[x]) /\ passed'[x][k] = passed[x][k]
      BY <1>6, <2>1, <2>2, <2>4, <3>1 DEF CallbacksRouted
    <3>2. CASE x = s /\ passed'[x][k] = f
      BY <1>6, <2>3, <2>4, <3>2
    <3> QED
      BY <1>19, <3>1, <3>2
  <2>5. \A k \in 1 .. Len(passed'[x]) :
          \/ passed'[x][k].number \in panicked'
          \/ \E i \in 1 .. Len(called'[x]) : called'[x][i] = passed'[x][k]
          \/ InHand(x, passed[x][k])'
          \/ isDetached(x)' \/ passed'[x][k].type = MigrationComplete
    BY <1>5, <2>1, <2>4 DEF InHand
  <2> QED
    BY <1>5, <2>1, <2>5 DEF CallbacksRouted
<1>27. HandlersRouted'
  BY <1>25 DEF HandlersRouted
<1>28. ASSUME NEW h \in HandlerId, requests'[h].asked PROVE fedInOrder(h)'
  <2>1. PICK q \in Request : q = requests[h]
    BY <1>1
  <2>2. requests'[h] = q /\ q.asked /\ fedInOrder(h) /\ HandlerRouted(h)
    BY <1>5, <1>28, <2>1 DEF DispInv, HandlersRouted, HandlersInOrder
  <2>3. q.source \in Source /\ q.since \in Nat /\ q.until \in Nat
    BY DEF Request
  <2>4. passed[q.source] \in Seq(Frame) /\ delivered[h] \in Seq(Frame)
    BY <1>1, <2>3
  <2>5. PICK len \in Nat : len = Len(passed[q.source])
    BY ONLY <2>4
  <2>6. PICK end \in Nat : end = EndOf(h) /\ end = IF q.removed THEN q.until ELSE len
    BY <2>1, <2>3, <2>5 DEF EndOf
  <2>7. end <= len /\ registeredAt(h) = q.since + 1 .. end
    <3>1. q.removed => q.until <= len
      BY <2>1, <2>2, <2>5 DEF DispInv, Registrations
    <3>2. end <= len
      BY ONLY <2>3, <2>5, <2>6, <3>1
    <3>3. registeredAt(h) = q.since + 1 .. end
      BY <2>1, <2>5, <2>6 DEF registeredAt
    <3> QED
      BY <3>2, <3>3
  <2>8. \A k \in 1 .. len : passed'[q.source][k] = passed[q.source][k]
    BY <1>10, <1>12, <1>13, <2>3, <2>5
  <2>9. registeredAt(h) \subseteq 1 .. len
    BY <2>3, <2>7
  <2>10. registeredAt(h) \subseteq registeredAt(h)'
    <3>1. CASE q.removed
      BY <2>1, <2>2, <3>1 DEF registeredAt
    <3>2. CASE ~q.removed
      <4>1. PICK after \in Nat : after = Len(passed'[q.source]) /\ len <= after
        BY <1>10, <1>12, <1>13, <2>3, <2>5
      <4>2. registeredAt(h)' = q.since + 1 .. after
        BY <2>2, <3>2, <4>1 DEF registeredAt
      <4> QED
        BY <2>3, <2>7, <4>1, <4>2
    <3> QED
      BY <3>1, <3>2
  <2>11. PICK m \in Nat : m = Len(delivered[h]) /\ DOMAIN delivered[h] = 1 .. m
    BY ONLY <2>4
  <2>12. ASSUME NEW i \in 1 .. m, NEW j \in 1 .. m, i < j,
                delivered'[h][i] = delivered[h][i], delivered'[h][j] = delivered[h][j]
         PROVE  fedBefore(h, i, j)'
    <3>1. fedBefore(h, i, j)
      BY <2>2, <2>11, <2>12 DEF fedInOrder
    <3>2. PICK k \in registeredAt(h), l \in registeredAt(h) :
            k < l /\ passed[q.source][k] = delivered[h][i] /\ passed[q.source][l] = delivered[h][j]
      BY <2>1, <3>1 DEF fedBefore
    <3>3. passed'[q.source][k] = delivered'[h][i] /\ passed'[q.source][l] = delivered'[h][j]
      BY <2>8, <2>9, <2>12, <3>2
    <3>4. k \in registeredAt(h)' /\ l \in registeredAt(h)'
      BY <2>10
    <3> QED
      BY <2>2, <3>2, <3>3, <3>4 DEF fedBefore
  <2>13. CASE h \notin reached(s, f)
    <3>1. delivered'[h] = delivered[h]
      BY <1>23, <2>13
    <3> QED
      BY <2>11, <2>12, <3>1 DEF fedInOrder
  <2>14. CASE h \in reached(s, f)
    <3>1. q.source = s /\ ~q.removed /\ len = n /\ end = n
      BY <1>10, <1>16, <2>1, <2>5, <2>6, <2>14
    <3>2. delivered'[h] = Append(delivered[h], f)
      BY <1>23, <2>14
    <3>3. /\ DOMAIN delivered'[h] = 1 .. m + 1 /\ delivered'[h][m + 1] = f
          /\ \A i \in 1 .. m : delivered'[h][i] = delivered[h][i]
      BY ONLY <2>4, <2>11, <3>2, f \in Frame
    <3>4. n + 1 \in registeredAt(h)' /\ passed'[s][n + 1] = f
      <4>1. q.since <= n
        BY <1>10, <2>1, <2>2, <3>1 DEF DispInv, Registrations
      <4>2. registeredAt(h)' = q.since + 1 .. n + 1
        BY <1>12, <1>13, <2>2, <3>1 DEF registeredAt
      <4> QED
        BY <1>12, <1>13, <2>3, <4>1, <4>2
    <3>5. ASSUME NEW i \in 1 .. m PROVE fedBefore(h, i, m + 1)'
      <4>1. PICK k \in q.since + 1 .. end : passed[q.source][k] = delivered[h][i]
        BY <2>1, <2>2, <2>6, <2>11 DEF HandlerRouted
      <4>2. k \in registeredAt(h)' /\ k < n + 1
        BY <2>3, <2>7, <2>10, <3>1, <4>1
      <4>3. passed'[s][k] = delivered'[h][i] /\ passed'[s][n + 1] = delivered'[h][m + 1]
        BY <2>7, <2>8, <2>9, <3>1, <3>3, <3>4, <4>1
      <4>4. requests'[h].source = s
        BY <2>2, <3>1
      <4> QED
        BY <3>4, <4>2, <4>3, <4>4 DEF fedBefore
    <3>6. ASSUME NEW i \in 1 .. m + 1, NEW j \in 1 .. m + 1, i < j PROVE fedBefore(h, i, j)'
      <4>1. i \in 1 .. m
        BY <3>6
      <4>2. CASE j = m + 1
        BY <3>5, <4>1, <4>2
      <4>3. CASE j # m + 1
        <5>1. j \in 1 .. m
          BY <4>3
        <5> QED
          BY <2>12, <3>3, <3>6, <4>1, <5>1
      <4> QED
        BY <4>2, <4>3
    <3> QED
      BY <3>3, <3>6 DEF fedInOrder
  <2> QED
    BY <2>13, <2>14
<1>29. HandlersInOrder'
  BY <1>28 DEF HandlersInOrder
<1> QED
  BY <1>17, <1>20, <1>21, <1>22, <1>24, <1>26, <1>27, <1>29 DEF DispInv

LEMMA DispInvStep == DispInv /\ [DispatchNext]_dispatchVars => DispInv'
<1> SUFFICES ASSUME DispInv, [DispatchNext]_dispatchVars PROVE DispInv'
  OBVIOUS
<1>1. ASSUME NEW h \in HandlerId, HandleCoordinatorEvent(h) PROVE DispInv'
  <2>1. PICK t \in coordinatorEvents : AddHandler(h, Coordinator, t, AnyCall)
    BY <1>1 DEF HandleCoordinatorEvent
  <2>2. t \in EventType /\ AnyCall \in CallCid \cup {AnyCall} /\ Coordinator \in Source
    BY SocketsNumbered DEF EventType
  <2> QED
    BY <2>1, <2>2, AddHandlerKeeps
<1>2. ASSUME NEW h \in HandlerId, dispatchCallEvent(h) PROVE DispInv'
  <2>1. CASE \E t \in CallEvent : AddHandler(h, Coordinator, t, OwnCid)
    <3>1. PICK t \in CallEvent : AddHandler(h, Coordinator, t, OwnCid)
      BY <2>1
    <3>2. t \in EventType /\ OwnCid \in CallCid \cup {AnyCall} /\ Coordinator \in Source
      BY SocketsNumbered, DispatchAssumption DEF EventType, coordinatorEvents
    <3> QED
      BY <3>1, <3>2, AddHandlerKeeps
  <2>2. CASE \E t \in SfuEvent : AddHandler(h, currentClient, t, AnyCall)
    <3>1. PICK t \in SfuEvent : AddHandler(h, currentClient, t, AnyCall)
      BY <2>2
    <3>2. t \in EventType /\ AnyCall \in CallCid \cup {AnyCall} /\ currentClient \in Source
      BY SocketsNumbered DEF EventType, DispInv, DispTypes
    <3> QED
      BY <3>1, <3>2, AddHandlerKeeps
  <2> QED
    BY <1>2, <2>1, <2>2 DEF dispatchCallEvent
<1>3. ASSUME NEW h \in HandlerId, RemoveHandler(h) PROVE DispInv'
  BY <1>3, RemoveHandlerKeeps
<1>4. CASE Connect
  BY <1>4, ConnectKeeps
<1>5. ASSUME NEW s \in Source, Read(s) PROVE DispInv'
  BY <1>5, ReadKeeps
<1>6. ASSUME NEW r \in Reader, HandleStore(r) \/ HandleDetached(r) \/ HandleCallback(r) PROVE DispInv'
  BY <1>6, HandleStoreKeeps, HandleDetachedKeeps, HandleCallbackKeeps
<1>7. CASE Detach \/ Migrate \/ CloseOld
  BY <1>7, DetachKeeps, MigrateKeeps, CloseOldKeeps
<1>8. CASE UNCHANGED dispatchVars
  <2>1. /\ UNCHANGED <<registered, live, currentClient, detachedAt, handling, framesRead>>
        /\ UNCHANGED <<requests, passed, delivered, called, panicked>>
    BY <1>8 DEF dispatchVars
  <2>2. live' \subseteq Source /\ currentClient' \in SignalClient
    BY <2>1 DEF DispInv, DispTypes
  <2> QED
    BY <2>1, <2>2, SocketsOpenOrClose
<1> QED
  BY <1>1, <1>2, <1>3, <1>4, <1>5, <1>6, <1>7, <1>8 DEF DispatchNext

\* The pointwise parts say what RoutedRight says of sets of frames.
LEMMA DispInvSound == DispInv => DispatchSound
<1> SUFFICES ASSUME DispInv PROVE DispatchSound
  OBVIOUS
<1>1. \A s \in Source : /\ DOMAIN registered[s] = 1 .. Len(registered[s])
                        /\ DOMAIN passed[s] = 1 .. Len(passed[s])
                        /\ DOMAIN called[s] = 1 .. Len(called[s])
  <2> SUFFICES ASSUME NEW s \in Source
               PROVE  /\ DOMAIN registered[s] = 1 .. Len(registered[s])
                      /\ DOMAIN passed[s] = 1 .. Len(passed[s])
                      /\ DOMAIN called[s] = 1 .. Len(called[s])
    OBVIOUS
  <2>1. registered[s] \in Seq(HandlerId) /\ passed[s] \in Seq(Frame) /\ called[s] \in Seq(Frame)
    BY DEF DispInv, DispTypes
  <2> QED
    BY ONLY <2>1
<1>2. \A h \in HandlerId : DOMAIN delivered[h] = 1 .. Len(delivered[h])
  <2> SUFFICES ASSUME NEW h \in HandlerId PROVE DOMAIN delivered[h] = 1 .. Len(delivered[h])
    OBVIOUS
  <2>1. delivered[h] \in Seq(Frame)
    BY DEF DispInv, DispTypes
  <2> QED
    BY ONLY <2>1
<1>3. DispatchTypeOK
  <2>1. ASSUME NEW s \in Source, NEW i \in DOMAIN registered[s] PROVE registered[s][i] \in HandlerId
    <3>1. registered[s] \in Seq(HandlerId) /\ i \in 1 .. Len(registered[s])
      BY <1>1 DEF DispInv, DispTypes
    <3> QED
      BY ONLY <3>1
  <2>2. ASSUME NEW r \in Reader PROVE handling[r].stage \in {"idle", "store", "callback", "calling"}
    <3>1. handling[r] \in Handling
      BY DEF DispInv, DispTypes
    <3> QED
      BY <3>1 DEF Handling
  <2> QED
    BY <2>1, <2>2 DEF DispInv, DispTypes, DispatchTypeOK
<1>4. ASSUME NEW h \in HandlerId, requests[h].asked
      PROVE  LET kept == {f \in fedWhile(h) :
                            /\ f.type = requests[h].type
                            /\ requests[h].call \in {AnyCall, f.cid}}
                 got == {delivered[h][i] : i \in DOMAIN delivered[h]}
             IN  /\ got \subseteq kept
                 /\ \A f \in kept \ got : f.number \in panicked
                 /\ \A i, j \in DOMAIN delivered[h] : i # j => delivered[h][i] # delivered[h][j]
                 /\ fedInOrder(h)
  <2> DEFINE fed == passed[requests[h].source]
             kept == {f \in fedWhile(h) :
                        /\ f.type = requests[h].type
                        /\ requests[h].call \in {AnyCall, f.cid}}
             got == {delivered[h][i] : i \in DOMAIN delivered[h]}
  <2>1. HandlerRouted(h)
    BY <1>4 DEF DispInv, HandlersRouted
  <2>2. fedWhile(h) = {fed[k] : k \in requests[h].since + 1 .. EndOf(h)}
    BY DEF fedWhile, registeredAt, EndOf
  <2>3. kept = {f \in {fed[k] : k \in requests[h].since + 1 .. EndOf(h)} : matches(h, f)}
    BY <2>2 DEF matches
  <2>4. got = {delivered[h][i] : i \in 1 .. Len(delivered[h])}
    BY <1>2
  <2>5. \A i, j \in DOMAIN delivered[h] : i # j => delivered[h][i] # delivered[h][j]
    BY <1>2, <2>1 DEF HandlerRouted
  <2> HIDE DEF kept, got
  <2>6. got \subseteq kept
    BY <2>1, <2>3, <2>4 DEF HandlerRouted
  <2>7. \A f \in kept \ got : f.number \in panicked
    BY <2>1, <2>3, <2>4 DEF HandlerRouted
  <2>8. fedInOrder(h)
    BY <1>4 DEF DispInv, HandlersInOrder
  <2> QED
    BY <2>5, <2>6, <2>7, <2>8 DEF kept, got
<1>5. ASSUME NEW s \in Source
      PROVE  /\ \A i, j \in DOMAIN called[s] : i # j => called[s][i] # called[s][j]
             /\ isDetached(s) => \A i \in DOMAIN called[s] : called[s][i].number < detachedAt[s]
             /\ \A i, j \in DOMAIN called[s] :
                  (i < j /\ ConnectedOk \notin {called[s][i].type, called[s][j].type})
                    => called[s][i].number < called[s][j].number
             /\ \A f \in {passed[s][i] : i \in DOMAIN passed[s]} :
                  \/ f.number \in panicked
                  \/ \E i \in DOMAIN called[s] : called[s][i] = f
                  \/ \E r \in Reader : handling[r].frame = f
                  \/ isDetached(s) \/ f.type = MigrationComplete
  <2>1. CallbacksRouted(s)
    BY DEF DispInv, SocketsRouted
  <2>2. \A f : InHand(s, f) => \E r \in Reader : handling[r].frame = f
    BY DEF InHand
  <2>3. \A k \in 1 .. Len(passed[s]) :
          \/ passed[s][k].number \in panicked
          \/ \E i \in 1 .. Len(called[s]) : called[s][i] = passed[s][k]
          \/ \E r \in Reader : handling[r].frame = passed[s][k]
          \/ isDetached(s) \/ passed[s][k].type = MigrationComplete
    BY <2>1, <2>2 DEF CallbacksRouted
  <2>4. \A i, j \in DOMAIN called[s] :
          (i < j /\ ConnectedOk \notin {called[s][i].type, called[s][j].type})
            => called[s][i].number < called[s][j].number
    BY <1>1, <2>1 DEF CallbacksRouted
  <2>5. /\ \A i, j \in DOMAIN called[s] : i # j => called[s][i] # called[s][j]
        /\ isDetached(s) => \A i \in DOMAIN called[s] : called[s][i].number < detachedAt[s]
    BY <1>1, <2>1 DEF CallbacksRouted
  <2> QED
    BY <1>1, <2>3, <2>4, <2>5
<1>6. RoutedRight
  BY <1>4, <1>5 DEF RoutedRight
<1> QED
  BY <1>3, <1>6 DEF DispatchSound

\* Every typed handler gets exactly the events of its type and call that its store
\* was fed while it was registered (wsclient.handle and Client.handle over
\* Store.Intercept), but for those a handler panicked on, and every Handler its
\* events once, in the order they were read, none from after its client was
\* detached: whatever the handlers, calls, migrations and frames.
THEOREM DispatchSoundCorrect == DispatchSpec => []DispatchSound
  BY DispInvInit, DispInvStep, DispInvSound, PTL DEF DispatchSpec
=============================================================================
