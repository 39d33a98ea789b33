---- MODULE Participants ----
(* The participant store of a call (participant_store.go, participant.go) and
   the SFU events that maintain it (call.go). Participants are kept in two
   sets of pointers, by id and by track prefix; a participant that is set again
   is a new object. The store itself is replaced by every join, after the
   connection that delivered the join response has begun to deliver events. *)
EXTENDS Integers, Sequences, FiniteSets

CONSTANTS Pid,          \* participants, each with a track prefix of its own
          TrackType,
          MaxTotal,     \* bound on the running total
          MaxQueue,     \* events the SFU may have sent ahead of the client
          MaxJoins,
          Nil

(* What a Participant says of itself *)
Participant == [published : SUBSET TrackType, dominant : BOOLEAN]

(* The SFU's rosters, and the call state of a join response *)
Roster == UNION {[P -> SUBSET TrackType] : P \in SUBSET Pid}
CallState == [roster : Roster, dominant : Pid \cup {Nil}]

(* The prefix index holds, for a prefix, nothing, the object the id index holds
   for the same participant, or an object that index no longer holds. *)
ParticipantStore == [byID : [Pid -> Participant \cup {Nil}],
                     byPrefix : [Pid -> {"none", "same", "other"}],
                     total : Int]

ASSUME ParticipantsAssumption ==
    /\ MaxTotal \in Nat /\ MaxQueue \in Nat /\ MaxJoins \in Nat /\ IsFiniteSet(Pid)
    /\ Nil \notin Pid /\ Nil \notin Participant /\ Nil \notin CallState /\ Nil \notin ParticipantStore

VARIABLES roster,    \* the SFU: pid |-> the tracks it publishes, for those present
          dominant,  \* the SFU: the dominant speaker, or Nil
          events,    \* sent over the current connection, not yet handled
          store,     \* Call.store: Nil, or the two indexes and the total
          response,  \* the call state of a join response not yet put in the store
          joins,
          missed     \* participants an event was about while the response waited

partVars == <<roster, dominant, events, store, response, joins, missed>>

PartTypeOK ==
    /\ roster \in Roster /\ dominant \in Pid \cup {Nil}
    /\ store \in {Nil} \cup ParticipantStore
    /\ missed \subseteq Pid /\ joins \in 0 .. MaxJoins

PartInit ==
    /\ roster \in {[p \in {} |-> {}]} \cup {[p \in {q} |-> {}] : q \in Pid}
    /\ dominant = Nil /\ events = <<>>
    /\ store = Nil /\ response = Nil /\ joins = 0 /\ missed = {}

(* NewParticipant: made from the SFU's description of it *)
NewParticipant(p, tracks, dom) == [published |-> tracks, dominant |-> dom = p]

(* Mutant: the prefix index keeps the object it has *)
StoreSetOnce(s, p, o) ==
    [byID |-> [s.byID EXCEPT ![p] = o],
     byPrefix |-> [s.byPrefix EXCEPT ![p] = IF @ = "none" THEN "same" ELSE "other"],
     total |-> s.total + 1]

(* ParticipantStore.Set makes a new object the value of both indexes and counts
   it, whether or not there was one. *)
StoreSet(s, p, o) ==
    [byID |-> [s.byID EXCEPT ![p] = o], byPrefix |-> [s.byPrefix EXCEPT ![p] = "same"],
     total |-> s.total + 1]

(* ParticipantStore.Remove of the value OnParticipantLeft builds, which has no
   track prefix: the prefix index keeps its entry. *)
StoreRemove(s, p) ==
    [byID |-> [s.byID EXCEPT ![p] = Nil],
     byPrefix |-> [s.byPrefix EXCEPT ![p] = IF @ = "same" THEN "other" ELSE @],
     total |-> s.total - 1]

(* NewParticipantStore: the participants of the call state, and its count *)
NewParticipantStore ==
    /\ response # Nil
    /\ LET P == DOMAIN response.roster
       IN store' = [byID |-> [p \in Pid |-> IF p \in P
                                 THEN NewParticipant(p, response.roster[p], response.dominant)
                                 ELSE Nil],
                    byPrefix |-> [p \in Pid |-> IF p \in P THEN "same" ELSE "none"],
                    total |-> Cardinality(P)]
    \* a first join that was retried stores the response of the inner Join,
    \* and then the outer Join stores the same one again
    /\ response' \in IF store = Nil THEN {Nil, response} ELSE {Nil}
    /\ UNCHANGED <<roster, dominant, events, joins, missed>>

-----------------------------------------------------------------------------
(* The SFU: it answers a join with its roster, and tells of every change. *)

SfuAnswersJoin ==
    /\ response = Nil /\ joins < MaxJoins
    /\ joins' = joins + 1 /\ events' = <<>> /\ missed' = {}
    /\ response' = [roster |-> roster, dominant |-> dominant]
    /\ UNCHANGED <<roster, dominant, store>>

(* An event about p; full when it carries the whole participant *)
event(kind, p, t, full) ==
    [kind |-> kind, pid |-> p, type |-> t, full |-> full,
     tracks |-> IF full THEN roster'[p] ELSE {}, dom |-> IF full THEN dominant' ELSE Nil]

SfuChanges ==
    /\ joins > 0 /\ Len(events) < MaxQueue
    /\ \/ \E p \in Pid \ DOMAIN roster :
            /\ roster' = [q \in DOMAIN roster \cup {p} |-> IF q = p THEN {} ELSE roster[q]]
            /\ dominant' = dominant
            /\ events' = Append(events, event("joined", p, Nil, TRUE))
       \/ \E p \in DOMAIN roster :
            /\ roster' = [q \in DOMAIN roster \ {p} |-> roster[q]]
            /\ dominant' = IF dominant = p THEN Nil ELSE dominant
            /\ events' = Append(events, event("left", p, Nil, FALSE))
       \/ \E p \in DOMAIN roster, t \in TrackType, full \in BOOLEAN :
            /\ roster' = [roster EXCEPT ![p] = IF t \in @ THEN @ \ {t} ELSE @ \cup {t}]
            /\ dominant' = dominant
            /\ events' = Append(events, event(IF t \in roster[p] THEN "unpublished" ELSE "published",
                                              p, t, full))
       \/ \E p \in DOMAIN roster :
            /\ dominant' = p /\ roster' = roster
            /\ events' = Append(events, event("dominant", p, Nil, FALSE))
       \/ /\ UNCHANGED <<roster, dominant>>
          /\ events' = Append(events, [kind |-> "health", count |-> Cardinality(DOMAIN roster)])
    /\ UNCHANGED <<store, response, joins, missed>>

-----------------------------------------------------------------------------
(* The handlers. An event that comes before there is a store is dropped. *)

Handles(kind, newStore(_)) ==
    /\ events # <<>> /\ Head(events).kind = kind
    /\ events' = Tail(events)
    /\ store' = IF store = Nil THEN Nil ELSE newStore(Head(events))
    /\ store' # Nil => store'.total <= MaxTotal
    /\ missed' = IF response = Nil \/ kind = "health" THEN missed
                 ELSE IF kind = "dominant" THEN Pid ELSE missed \cup {Head(events).pid}
    /\ UNCHANGED <<roster, dominant, response, joins>>

setAgain(e) == StoreSet(store, e.pid, NewParticipant(e.pid, e.tracks, e.dom))

OnParticipantJoined == Handles("joined", setAgain)

OnParticipantLeft == LET left(e) == StoreRemove(store, e.pid) IN Handles("left", left)

dominantNow(e) ==
    [store EXCEPT !.byID = [p \in Pid |-> IF @[p] = Nil THEN Nil
                                          ELSE [@[p] EXCEPT !.dominant = p = e.pid]]]

OnDominantSpeakerChanged == Handles("dominant", dominantNow)

OnHealthCheckResponse ==
    LET counted(e) == [store EXCEPT !.total = e.count] IN Handles("health", counted)

(* A participant in the event replaces the stored one; otherwise the stored
   one's set of tracks changes, if there is one. *)
trackChange(e) ==
    CASE e.full -> setAgain(e)
      [] ~e.full /\ store.byID[e.pid] = Nil -> store
      [] OTHER -> [store EXCEPT !.byID[e.pid].published =
                     IF e.kind = "published" THEN @ \cup {e.type} ELSE @ \ {e.type}]

OnTrackPublished == Handles("published", trackChange)

OnTrackUnpublished == Handles("unpublished", trackChange)

PartNext ==
    \/ NewParticipantStore \/ SfuAnswersJoin \/ SfuChanges
    \/ OnParticipantJoined \/ OnParticipantLeft \/ OnDominantSpeakerChanged
    \/ OnHealthCheckResponse \/ OnTrackPublished \/ OnTrackUnpublished

PartSpec == PartInit /\ [][PartNext]_partVars

-----------------------------------------------------------------------------
(* When the client has handled everything the SFU sent, the participant a track
   is looked up by is the one the SFU knows: present, with its tracks and its
   dominance, through sets, replacements and rejoins in any order. Excepted are
   the participants an event was about between a join response and the store
   that is built from it, for that event went to the store being replaced. *)
RosterFollowed ==
    (events = <<>> /\ response = Nil /\ store # Nil) =>
        \A p \in Pid \ missed :
            IF p \in DOMAIN roster
            THEN /\ store.byID[p] = NewParticipant(p, roster[p], dominant)
                 /\ store.byPrefix[p] = "same"
            ELSE store.byID[p] = Nil

(* The store is well formed and follows the roster. *)
StoreFollows == PartTypeOK /\ RosterFollowed
====
