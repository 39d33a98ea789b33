----------------------------- MODULE Publishing -----------------------------
(***************************************************************************)
(* The tracks an application publishes, across the peer connections of a   *)
(* call: Call.AddTrack and AddSimulcastTracks on the application's         *)
(* goroutines, restorePublishedTracks after a rejoin or a migration, the   *)
(* publisher's own index of tracks, what an offer announces of them, and   *)
(* the simulcast layers the SFU switches on and off.                       *)
(*                                                                         *)
(* publishedTracks outlives every publisher.  AddTrack enters the track    *)
(* there before it reads the current peer, and a reconnect installs the    *)
(* new peer before it reads the list: whichever comes first, somebody adds *)
(* the track to the publisher that counts.  Only the current publisher's   *)
(* state is kept: what is added to an older one goes when that is closed.  *)
(***************************************************************************)
EXTENDS Naturals, Sequences, FiniteSets, SequencesExt

CONSTANTS PubTrack,     \* published tracks, as their ordered track ids
          Rid,          \* simulcast layers
          Adder,        \* goroutines of the application
          MaxPubPeers   \* bound: publishers built

ASSUME PubTrackAssumption ==
    PubTrack \subseteq Nat /\ IsFiniteSet(PubTrack) /\ MaxPubPeers \in Nat \ {0}

VARIABLES publishedTracks,   \* Call.publishedTracks, in the order of AddTrack
          pubPeer,           \* which publisher is current
          senders,           \* the tracks that have a transceiver of it
          pubTracks,         \* publisher.tracks
          adding,            \* goroutine |-> its AddTrack call
          restoring,         \* the reconnect: where it is, its next entry
          unserved,          \* tracks whose AddTrack or restore the publisher refused
          negotiate,         \* the publisher has an offer to make
          offer,             \* the tracks of the description just created
          announced,         \* what the SFU last heard: description and track list
          muted,             \* <<track, rid>> pairs switched off
          word               \* what the SFU last said of a layer, and to which tracks

publishVars == <<publishedTracks, pubPeer, senders, pubTracks, adding, restoring,
                 unserved, negotiate, offer, announced, muted, word>>

idleAdder == [at |-> "idle", track |-> 0, peer |-> 0]
noOffer == [out |-> FALSE, sdp |-> {}]
silent == [active |-> TRUE, to |-> {}]

PublishTypeOK ==
    /\ publishedTracks \in Seq(PubTrack) /\ IsInjective(publishedTracks)
    /\ pubPeer \in 1..MaxPubPeers
    /\ senders \subseteq PubTrack /\ pubTracks \subseteq senders
    /\ \A g \in Adder : adding[g].at \in {"idle", "listed", "peer"}
    /\ restoring \in [at : {"none", "joining", "adding", "failed"}, next : 1..Cardinality(PubTrack) + 1]
    /\ unserved \subseteq PubTrack /\ negotiate \in BOOLEAN
    /\ muted \subseteq PubTrack \X Rid

(***************************************************************************)
(* A call whose first Join has returned; nothing is published yet.         *)
(***************************************************************************)
PublishInit ==
    /\ publishedTracks = <<>> /\ pubPeer = 1 /\ senders = {} /\ pubTracks = {}
    /\ adding = [g \in Adder |-> idleAdder]
    /\ restoring = [at |-> "none", next |-> 1]
    /\ unserved = {} /\ negotiate = FALSE /\ offer = noOffer
    /\ announced = [sdp |-> {}, infos |-> {}]
    /\ muted = {} /\ word = [r \in Rid |-> silent]

peerVars == <<senders, pubTracks, negotiate, offer, announced>>
layerVars == <<muted, word>>

(***************************************************************************)
(* Call.AddTrack and Call.AddSimulcastTracks, which treat the list and the *)
(* peer alike.  First the list, under the lock a restore holds while it    *)
(* walks it; then, without the lock, the current publisher.                *)
(***************************************************************************)
AddTrackLists(g, t) ==
    /\ adding[g].at = "idle" /\ restoring.at # "adding"
    /\ t \notin ToSet(publishedTracks)
    /\ publishedTracks' = Append(publishedTracks, t)
    /\ adding' = [adding EXCEPT ![g] = [at |-> "listed", track |-> t, peer |-> 0]]
    /\ UNCHANGED <<pubPeer, restoring, unserved, peerVars, layerVars>>

publisherPeer(g) ==
    /\ adding[g].at = "listed"
    /\ adding' = [adding EXCEPT ![g].at = "peer", ![g].peer = pubPeer]
    /\ UNCHANGED <<publishedTracks, pubPeer, restoring, unserved, peerVars, layerVars>>

(***************************************************************************)
(* publisher.AddTrack and AddSimulcastTracks: a transceiver is added, its  *)
(* codecs are configured and the track is entered in p.tracks.  Either of  *)
(* the first two may fail; the second leaves the transceiver behind.       *)
(***************************************************************************)
addsTransceiver(t) ==
    /\ senders' = senders \cup {t}
    /\ pubTracks' = pubTracks \cup {t}
    /\ unserved' = unserved \ {t}

refusesTrack(t) ==
    /\ senders' \in {senders, senders \cup {t}}
    /\ pubTracks' = pubTracks
    /\ unserved' = unserved \cup {t}

(***************************************************************************)
(* The rest of Call.AddTrack: the publisher's answer, and an offer.  On a  *)
(* publisher that is no longer current it has no effect that lasts.        *)
(***************************************************************************)
AddTrackReturns(g) ==
    LET t == adding[g].track IN
    /\ adding[g].at = "peer"
    /\ adding' = [adding EXCEPT ![g] = idleAdder]
    /\ \/ /\ adding[g].peer # pubPeer
          /\ UNCHANGED <<senders, pubTracks, unserved, negotiate>>
       \/ adding[g].peer = pubPeer /\ addsTransceiver(t) /\ negotiate' = TRUE
       \/ adding[g].peer = pubPeer /\ refusesTrack(t) /\ UNCHANGED negotiate
    /\ UNCHANGED <<publishedTracks, pubPeer, restoring, offer, announced, layerVars>>

(***************************************************************************)
(* A rejoin or migration: initPubAndSub installs a publisher, Connect may  *)
(* fail, in which case the monitor starts over, and the tracks are added   *)
(* one by one, publishedTracksMu held, before one offer for all of them.   *)
(* A restore that fails makes the monitor rejoin, with a new publisher.    *)
(***************************************************************************)
NewPublisher ==
    /\ restoring.at # "adding" /\ pubPeer < MaxPubPeers
    /\ pubPeer' = pubPeer + 1
    /\ senders' = {} /\ pubTracks' = {} /\ negotiate' = FALSE /\ offer' = noOffer
    /\ announced' = [sdp |-> {}, infos |-> {}]
    /\ restoring' = [at |-> "joining", next |-> 1]
    /\ UNCHANGED <<publishedTracks, adding, unserved, layerVars>>

restorePublishedTracks ==
    /\ restoring.at = "joining"
    /\ restoring' = [restoring EXCEPT !.at = "adding"]
    /\ UNCHANGED <<publishedTracks, pubPeer, adding, unserved, peerVars, layerVars>>

RestoreTrack ==
    LET t == publishedTracks[restoring.next] IN
    /\ restoring.at = "adding" /\ restoring.next \in DOMAIN publishedTracks
    /\ \/ /\ addsTransceiver(t)
          /\ restoring' = [restoring EXCEPT !.next = @ + 1]
       \/ refusesTrack(t) /\ restoring' = [at |-> "failed", next |-> 1]
    /\ UNCHANGED <<publishedTracks, pubPeer, adding, negotiate, offer, announced, layerVars>>

\* Mutant: a restore leaves the offer to the tracks added later.
RestoreDoneSilent ==
    /\ restoring.at = "adding" /\ restoring.next = Len(publishedTracks) + 1
    /\ restoring' = [at |-> "none", next |-> 1]
    /\ UNCHANGED <<publishedTracks, pubPeer, adding, unserved, peerVars, layerVars>>

RestoreDone ==
    /\ restoring.at = "adding" /\ restoring.next = Len(publishedTracks) + 1
    /\ restoring' = [at |-> "none", next |-> 1]
    /\ negotiate' = TRUE
    /\ UNCHANGED <<publishedTracks, pubPeer, adding, unserved, senders, pubTracks, offer,
                   announced, layerVars>>

(***************************************************************************)
(* The transport makes an offer of the transceivers it has, and OnOffer    *)
(* sends it with the tracks p.tracks has by then.                          *)
(***************************************************************************)
CreateOffer ==
    /\ negotiate /\ ~offer.out
    /\ negotiate' = FALSE
    /\ offer' = [out |-> TRUE, sdp |-> senders]
    /\ UNCHANGED <<publishedTracks, pubPeer, senders, pubTracks, adding, restoring, unserved,
                   announced, layerVars>>

OnOfferTracks ==
    /\ offer.out
    /\ offer' = noOffer
    /\ announced' = [sdp |-> offer.sdp, infos |-> pubTracks]
    /\ UNCHANGED <<publishedTracks, pubPeer, senders, pubTracks, adding, restoring, unserved,
                   negotiate, layerVars>>

(***************************************************************************)
(* videoTracksByRID: of the tracks of one type that carry a layer, the one *)
(* with the greatest track id, since later entries overwrite earlier ones. *)
(* OnChangePublishQuality mutes or unmutes it.  Muting belongs to the      *)
(* track.Local and outlives the publisher.                                 *)
(***************************************************************************)
videoTracksByRID == {t \in pubTracks : \A u \in pubTracks : u <= t}

SetMuted(t, r, active) == IF active THEN muted \ {<<t, r>>} ELSE muted \cup {<<t, r>>}

OnChangePublishQuality(r, active) ==
    /\ muted' = IF videoTracksByRID = {} THEN muted
                ELSE SetMuted(CHOOSE t \in videoTracksByRID : TRUE, r, active)
    /\ word' = [word EXCEPT ![r] = [active |-> active, to |-> pubTracks]]
    /\ UNCHANGED <<publishedTracks, pubPeer, adding, restoring, unserved, peerVars>>

PublishNext ==
    \/ \E g \in Adder : \E t \in PubTrack : AddTrackLists(g, t)
    \/ \E g \in Adder : publisherPeer(g)
    \/ \E g \in Adder : AddTrackReturns(g)
    \/ NewPublisher \/ restorePublishedTracks \/ RestoreTrack \/ RestoreDone
    \/ CreateOffer \/ OnOfferTracks
    \/ \E r \in Rid : \E active \in BOOLEAN : OnChangePublishQuality(r, active)

PublishSpec == PublishInit /\ [][PublishNext]_publishVars

(***************************************************************************)
(* No track is forgotten: while no reconnect is under way, a track the     *)
(* application has asked for is on the current publisher, or its AddTrack  *)
(* has yet to reach it, or the publisher refused it; and once nothing is   *)
(* left to offer the SFU has been told of every track and has every one of *)
(* them in a description.                                                  *)
(***************************************************************************)
TracksReachSfu ==
    /\ restoring.at = "none" =>
         \A t \in ToSet(publishedTracks) :
             \/ t \in pubTracks \cup unserved
             \/ \E g \in Adder : adding[g].track = t /\ adding[g].at # "idle"
                                   /\ adding[g].peer \in {0, pubPeer}
    /\ restoring.at = "none" /\ ~negotiate /\ ~offer.out =>
         pubTracks \subseteq announced.sdp \cap announced.infos

(***************************************************************************)
(* A layer of the only video track the SFU can have meant is off exactly   *)
(* when the SFU's last word about it says so, whatever reconnects have     *)
(* happened since (OnChangePublishQuality, SetMuted).                      *)
(***************************************************************************)
LayersFollowSfu ==
    \A r \in Rid : \A t \in PubTrack :
        word[r].to = {t} => ((<<t, r>> \in muted) <=> ~word[r].active)

(***************************************************************************)
(* What is published reaches the SFU, and its layers follow the SFU.       *)
(***************************************************************************)
PublishingSound == PublishTypeOK /\ TracksReachSfu /\ LayersFollowSfu
=============================================================================
