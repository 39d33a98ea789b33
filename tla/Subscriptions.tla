---- MODULE Subscriptions ----
(* SubscribeToTracks and the restoration of subscriptions (call.go): the list
   the application wants, the list the current SFU session is believed to have
   been told, and the RPCs between them. Calls come from several goroutines,
   hold the lock only while they read or write the two lists, and a rejoin or
   migration replaces the session while RPCs are under way. *)
EXTENDS Naturals, FiniteSets

CONSTANTS Caller,       \* goroutines of the application
          Monitor,      \* the goroutine that reconnects
          Wanted,       \* subscription lists
          Empty,        \* the list without an entry: what a new session has
          NoList,       \* nil: nothing is believed sent
          MaxSessions

ASSUME SubscriptionsAssumption ==
    /\ Monitor \notin Caller /\ NoList \notin Wanted \cup {Empty} /\ MaxSessions \in Nat \ {0}

VARIABLES subscribedTracks,   \* what the application wants
          sentSubscriptions,  \* what the session has been told, as far as is known
          session,
          sfuList,            \* what the current session really has
          call,               \* goroutine |-> its call: step, list, session, alone
          restoringSubs,          \* a new session has not been given the list yet
          doubt               \* RPCs overlapped, or a reply was lost, since the
                              \* last RPC that was alone and succeeded

subVars == <<subscribedTracks, sentSubscriptions, session, sfuList, call, restoringSubs, doubt>>

Goroutine == Caller \cup {Monitor}
List == Wanted \cup {Empty}
Call == [step : {"idle", "sending", "applied", "recording"}, list : List,
         session : 1 .. MaxSessions, alone : BOOLEAN]
noCall == [step |-> "idle", list |-> Empty, session |-> 1, alone |-> TRUE]

SubTypeOK ==
    /\ subscribedTracks \in List /\ sentSubscriptions \in List \cup {NoList} /\ sfuList \in List
    /\ session \in 1 .. MaxSessions
    /\ call \in [Goroutine -> Call]
    /\ restoringSubs \in BOOLEAN /\ doubt \in BOOLEAN

SubInit ==
    /\ subscribedTracks = Empty /\ sentSubscriptions = NoList /\ sfuList = Empty
    /\ session = 1 /\ call = [g \in Goroutine |-> noCall]
    /\ restoringSubs = FALSE /\ doubt = FALSE

busy == {g \in Goroutine : call[g].step # "idle"}

(* A goroutine starts to send a list: it notes the client and the session. *)
startSend(g, list) ==
    call' = [h \in Goroutine |->
               IF h = g THEN [step |-> "sending", list |-> list, session |-> session, alone |-> busy = {}]
               ELSE IF h \in busy THEN [call[h] EXCEPT !.alone = FALSE]
               ELSE call[h]]

sameSubscriptions(current, next) == current = next

(* SubscribeToTracks: record the wish; send it unless the session has it *)
SubscribeToTracks(g, list) ==
    /\ g \notin busy
    /\ subscribedTracks' = list
    /\ IF sentSubscriptions # NoList /\ sameSubscriptions(sentSubscriptions, list)
       THEN call' = call
       ELSE startSend(g, list)
    /\ UNCHANGED <<sentSubscriptions, session, sfuList, restoringSubs, doubt>>

(* The request reaches the SFU; one for a session that is gone changes nothing. *)
SfuApplies(g) ==
    /\ call[g].step = "sending"
    /\ sfuList' = IF call[g].session = session THEN call[g].list ELSE sfuList
    /\ call' = [call EXCEPT ![g].step = "applied"]
    /\ UNCHANGED <<subscribedTracks, sentSubscriptions, session, restoringSubs, doubt>>

(* The reply reaches the caller *)
RpcReturns(g) ==
    /\ call[g].step = "applied"
    /\ call' = [call EXCEPT ![g].step = "recording"]
    /\ UNCHANGED <<subscribedTracks, sentSubscriptions, session, sfuList, restoringSubs, doubt>>

(* sendSubscriptions after a good reply: record what the SFU was told *)
sendSubscriptionsRecords(g) ==
    /\ call[g].step = "recording"
    /\ sentSubscriptions' = call[g].list
    /\ call' = [call EXCEPT ![g] = noCall]
    /\ doubt' = ~(call[g].alone /\ call[g].session = session)
    /\ restoringSubs' = (restoringSubs /\ g # Monitor)
    /\ UNCHANGED <<subscribedTracks, session, sfuList>>

(* sendSubscriptions on an error, before or after the SFU applied the request.
   A restore that fails makes the monitor start another session. *)
sendSubscriptionsFails(g) ==
    /\ call[g].step \in {"sending", "applied"}
    /\ call' = [call EXCEPT ![g] = noCall]
    /\ doubt' = (doubt \/ call[g].step = "applied" \/ ~call[g].alone)
    /\ UNCHANGED <<subscribedTracks, sentSubscriptions, session, sfuList, restoringSubs>>

(* initPubAndSub of a rejoin or migration: a session that knows nothing, and
   nothing believed of it. *)
initSubscriber(sent) ==
    /\ Monitor \notin busy /\ session < MaxSessions
    /\ session' = session + 1
    /\ sentSubscriptions' = sent
    /\ sfuList' = Empty /\ restoringSubs' = TRUE
    /\ doubt' = (busy # {})
    /\ call' = [g \in Goroutine |-> IF g \in busy THEN [call[g] EXCEPT !.alone = FALSE] ELSE call[g]]
    /\ UNCHANGED subscribedTracks

(* Mutant: the list believed sent outlives its session *)
NewSessionKeepsSent == initSubscriber(sentSubscriptions)

NewSession == initSubscriber(NoList)

(* restoreSubscribedTracks: send the wish whatever is believed *)
restoreSubscribedTracks ==
    /\ Monitor \notin busy /\ restoringSubs
    /\ startSend(Monitor, subscribedTracks)
    /\ UNCHANGED <<subscribedTracks, sentSubscriptions, session, sfuList, restoringSubs, doubt>>

SubNext ==
    \/ \E g \in Caller, list \in List : SubscribeToTracks(g, list)
    \/ \E g \in Goroutine : SfuApplies(g) \/ RpcReturns(g)
                            \/ sendSubscriptionsRecords(g) \/ sendSubscriptionsFails(g)
    \/ NewSession \/ restoreSubscribedTracks

SubSpec == SubInit /\ [][SubNext]_subVars

-----------------------------------------------------------------------------
(* What the dedup check of SubscribeToTracks relies on: with no RPC under way,
   and none that overlapped another or lost its reply, the list believed sent is
   the list the current session has. *)
SentIsTold ==
    (busy = {} /\ ~doubt /\ sentSubscriptions # NoList) => sfuList = sentSubscriptions

(* The dedup check compares with a list the SFU has. *)
SubscriptionsTold == SubTypeOK /\ SentIsTold
====
