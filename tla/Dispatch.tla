---- MODULE Dispatch ----
(* How an event gets from a websocket to the application: the decoding of a
   coordinator frame (models/wsevent.go), wsclient.handle and Connect
   (coordinator/websocket.go), Client.handle (signal/client.go), the typed
   handlers (coordinator/client.go, signal/events.go, events.go) and the
   generated routing between the two families of events
   (events_dispatch.gen.go, coordinator/events.gen.go). The 69 coordinator and
   23 SFU event types are members of small sets: the generated switches treat
   the members of a set alike. *)
EXTENDS Naturals, Sequences

CONSTANTS AppEvent,        \* coordinator events of no call (Events \ CallEvents)
          CallEvent,       \* coordinator.CallEvents
          SfuEvent,        \* signal.Events
          MigrationComplete, \* the SFU event without a callback
          ConnectedOk,     \* the type of the coordinator's first answer
          Unknown,         \* a frame type the SDK was not generated for
          CallCid, OwnCid, \* calls, and the one this client has joined
          AnyCall, NoCid,
          MaxClients,      \* signal clients of the call: the first, and one per migration
          HandlerId,
          Panicking,       \* the handlers whose function panics
          MaxFrames        \* frames read on all sockets

ASSUME DispatchAssumption ==
    /\ MigrationComplete \in SfuEvent /\ ConnectedOk \in AppEvent /\ OwnCid \in CallCid
    /\ AppEvent \cap CallEvent = {} /\ SfuEvent \cap (AppEvent \cup CallEvent) = {}
    /\ AnyCall \notin CallCid /\ NoCid \notin CallCid /\ MaxFrames \in Nat
    /\ MaxClients \in Nat \ {0} /\ Panicking \subseteq HandlerId

(* Sockets are numbered: the coordinator's is 0, a signal client's its own
   number. Who calls handle: one read loop per socket, and Connect itself. *)
Coordinator == 0
SignalClient == 1 .. MaxClients
Source == {Coordinator} \cup SignalClient
ConnectCaller == MaxClients + 1
Reader == {ConnectCaller} \cup Source
sourceOf(r) == IF r = ConnectCaller THEN Coordinator ELSE r

VARIABLES registered,    \* source |-> its store's interceptors, in order
          live,          \* sockets whose read loop runs
          currentClient, \* Call.Client()
          detachedAt,    \* client |-> 0, or 1 + the frames read when it was detached
          handling,      \* reader |-> the frame in its handle, and how far it is
          framesRead,
          requests,      \* handler id |-> what was asked for, and where it was put
          passed,        \* source |-> frames its store has been fed, in order
          delivered,     \* handler id |-> frames its function was called with
          called,        \* source |-> frames given to the Handler's callbacks
          panicked       \* numbers of the frames a handler panicked on

dispatchVars == <<registered, live, currentClient, detachedAt, handling, framesRead,
                  requests, passed, delivered, called, panicked>>

(* coordinator.Events: what the coordinator may send, and HandleEvent accepts *)
coordinatorEvents == AppEvent \cup CallEvent

coordinatorFrame == [type : AppEvent \cup {Unknown}, cid : {NoCid}] \cup [type : CallEvent, cid : CallCid]
sfuFrame == [type : SfuEvent \cup {Unknown}, cid : {NoCid}]
idleReader == [stage |-> "idle", frame |-> [type |-> Unknown, cid |-> NoCid, number |-> 0]]
noRequest == [asked |-> FALSE, source |-> Coordinator, type |-> Unknown, call |-> AnyCall,
              since |-> 0, until |-> 0, removed |-> FALSE]

DispatchTypeOK ==
    /\ \A s \in Source : \A i \in DOMAIN registered[s] : registered[s][i] \in HandlerId
    /\ live \subseteq Source /\ currentClient \in SignalClient
    /\ detachedAt \in [SignalClient -> 0 .. MaxFrames + 1] /\ framesRead \in 0 .. MaxFrames
    /\ \A r \in Reader : handling[r].stage \in {"idle", "store", "callback", "calling"}
    /\ panicked \subseteq 1 .. MaxFrames

(* The call has its first signal client; the coordinator's socket is dialled
   by Connect below. *)
DispatchInit ==
    /\ registered = [s \in Source |-> <<>>]
    /\ live = {1} /\ currentClient = 1 /\ detachedAt = [k \in SignalClient |-> 0]
    /\ handling = [r \in Reader |-> idleReader] /\ framesRead = 0
    /\ requests = [h \in HandlerId |-> noRequest]
    /\ passed = [s \in Source |-> <<>>] /\ delivered = [h \in HandlerId |-> <<>>]
    /\ called = [s \in Source |-> <<>>] /\ panicked = {}

-----------------------------------------------------------------------------
(* Registration *)

AddHandler(h, s, t, c) ==
    /\ ~requests[h].asked
    /\ requests' = [requests EXCEPT ![h] = [asked |-> TRUE, source |-> s, type |-> t, call |-> c,
                        since |-> Len(passed[s]), until |-> 0, removed |-> FALSE]]
    /\ registered' = [registered EXCEPT ![s] = Append(@, h)]
    /\ UNCHANGED <<live, currentClient, detachedAt, handling, framesRead, passed, delivered,
                   called, panicked>>

(* coordinator.HandleEvent, by HandleCoordinatorEvent: any call's events *)
HandleCoordinatorEvent(h) ==
    \E t \in coordinatorEvents : AddHandler(h, Coordinator, t, AnyCall)

(* HandleCallEvent of the call: the coordinator's store with the call's cid,
   or the store of the signal client that is current now *)
dispatchCallEvent(h) ==
    \/ \E t \in CallEvent : AddHandler(h, Coordinator, t, OwnCid)
    \/ \E t \in SfuEvent : AddHandler(h, currentClient, t, AnyCall)

RemoveHandler(h) ==
    /\ requests[h].asked /\ ~requests[h].removed
    /\ LET s == requests[h].source IN
       /\ \E i \in DOMAIN registered[s] :
            /\ registered[s][i] = h
            /\ registered' = [registered EXCEPT ![s] = SubSeq(@, 1, i - 1) \o SubSeq(@, i + 1, Len(@))]
       /\ requests' = [requests EXCEPT ![h].removed = TRUE, ![h].until = Len(passed[s])]
    /\ UNCHANGED <<live, currentClient, detachedAt, handling, framesRead, passed, delivered,
                   called, panicked>>

-----------------------------------------------------------------------------
(* The sockets *)

(* VideoEvent.ValueByDiscriminator under ParseWebsocketEvent, and the SFU codec:
   a frame of a type that is none of theirs is a DecodeError, which both read
   loops skip *)
Parses(f) == f.type \in coordinatorEvents \cup SfuEvent

(* A read loop takes a frame off its socket and hands it to handle *)
Read(s) ==
    /\ s \in live /\ handling[s].stage = "idle" /\ framesRead < MaxFrames
    /\ framesRead' = framesRead + 1
    /\ \E f \in IF s = Coordinator THEN coordinatorFrame ELSE sfuFrame :
         handling' = IF Parses(f)
                     THEN [handling EXCEPT ![s] = [stage |-> "store",
                             frame |-> [type |-> f.type, cid |-> f.cid, number |-> framesRead + 1]]]
                     ELSE handling
    /\ UNCHANGED <<registered, live, currentClient, detachedAt, requests, passed, delivered,
                   called, panicked>>

(* wsclient.Connect: the read loop is started, and then Connect itself handles
   the answer it has read, beside the loop *)
Connect ==
    /\ Coordinator \notin live /\ passed[Coordinator] = <<>> /\ framesRead < MaxFrames
    /\ handling[ConnectCaller].stage = "idle"
    /\ live' = live \cup {Coordinator} /\ framesRead' = framesRead + 1
    /\ handling' = [handling EXCEPT ![ConnectCaller] = [stage |-> "store",
                       frame |-> [type |-> ConnectedOk, cid |-> NoCid, number |-> framesRead + 1]]]
    /\ UNCHANGED <<registered, currentClient, detachedAt, requests, passed, delivered, called,
                   panicked>>

(* Mutant: the call is not compared *)
matchesAnyCall(h, f) == f.type = requests[h].type

(* The closures HandleEvent and HandleCallEvent register: the type assertion,
   and the event's call (getCallCid) against the one asked for *)
matches(h, f) ==
    /\ f.type = requests[h].type
    /\ requests[h].call = AnyCall \/ f.cid = requests[h].call

(* Store.Intercept calls the interceptors in order, up to the first that panics *)
stopsAt(s, f, i) == matches(registered[s][i], f) /\ registered[s][i] \in Panicking
reached(s, f) ==
    {h \in HandlerId : /\ matches(h, f)
                       /\ \E i \in DOMAIN registered[s] :
                            registered[s][i] = h /\ \A j \in 1 .. i - 1 : ~stopsAt(s, f, j)}

(* The first half of handle. A panicking handler ends the handling of this
   event; on the SFU's socket handle recovers and the loop goes on, on the
   coordinator's only the goroutine recovers, its loop ends and closes the
   socket. *)
HandleStore(r) ==
    /\ handling[r].stage = "store"
    /\ LET s == sourceOf(r)
           f == handling[r].frame
           panic == \E h \in reached(s, f) : h \in Panicking
       IN /\ delivered' = [h \in HandlerId |->
                             IF h \in reached(s, f) THEN Append(delivered[h], f) ELSE delivered[h]]
          /\ passed' = [passed EXCEPT ![s] = Append(@, f)]
          /\ panicked' = IF panic THEN panicked \cup {f.number} ELSE panicked
          /\ handling' = [handling EXCEPT ![r] = IF panic THEN idleReader ELSE [@ EXCEPT !.stage = "callback"]]
          /\ live' = IF panic /\ r = Coordinator THEN live \ {Coordinator} ELSE live
    /\ UNCHANGED <<registered, currentClient, detachedAt, framesRead, requests, called>>

isDetached(s) == s \in SignalClient /\ detachedAt[s] # 0

(* Events that end in the store: those of a detached client, and the one
   Call.migrate awaits *)
silenced(s, f) == isDetached(s) \/ f.type = MigrationComplete

(* The second half: the check of the flag, and then the Handler's callback for
   the type *)
HandleDetached(r) ==
    /\ handling[r].stage = "callback"
    /\ handling' = [handling EXCEPT ![r] = IF silenced(sourceOf(r), @.frame) THEN idleReader
                                           ELSE [@ EXCEPT !.stage = "calling"]]
    /\ UNCHANGED <<registered, live, currentClient, detachedAt, framesRead, requests, passed,
                   delivered, called, panicked>>

HandleCallback(r) ==
    /\ handling[r].stage = "calling"
    /\ called' = [called EXCEPT ![sourceOf(r)] = Append(@, handling[r].frame)]
    /\ handling' = [handling EXCEPT ![r] = idleReader]
    /\ UNCHANGED <<registered, live, currentClient, detachedAt, framesRead, requests, passed,
                   delivered, panicked>>

(* Call.migrate: the old client is detached, then a new one takes its place;
   the old one is closed when the migration is over *)
Detach ==
    /\ detachedAt[currentClient] = 0 /\ currentClient + 1 \in SignalClient
    /\ detachedAt' = [detachedAt EXCEPT ![currentClient] = framesRead + 1]
    /\ UNCHANGED <<registered, live, currentClient, handling, framesRead, requests, passed,
                   delivered, called, panicked>>

Migrate ==
    /\ detachedAt[currentClient] # 0 /\ currentClient + 1 \in SignalClient
    /\ currentClient' = currentClient + 1 /\ live' = live \cup {currentClient + 1}
    /\ UNCHANGED <<registered, detachedAt, handling, framesRead, requests, passed, delivered,
                   called, panicked>>

CloseOld ==
    /\ \E k \in live \cap SignalClient : k < currentClient /\ live' = live \ {k}
    /\ UNCHANGED <<registered, currentClient, detachedAt, handling, framesRead, requests,
                   passed, delivered, called, panicked>>

DispatchNext ==
    \/ \E h \in HandlerId : HandleCoordinatorEvent(h) \/ dispatchCallEvent(h) \/ RemoveHandler(h)
    \/ Connect
    \/ \E s \in Source : Read(s)
    \/ \E r \in Reader : HandleStore(r) \/ HandleDetached(r) \/ HandleCallback(r)
    \/ Detach \/ Migrate \/ CloseOld

DispatchSpec == DispatchInit /\ [][DispatchNext]_dispatchVars

-----------------------------------------------------------------------------
(* where in its store's history a handler was registered, and the frames the
   store was fed there *)
registeredAt(h) ==
    LET r == requests[h]
    IN  r.since + 1 .. IF r.removed THEN r.until ELSE Len(passed[r.source])
fedWhile(h) == {passed[requests[h].source][i] : i \in registeredAt(h)}

(* the store was fed what was delivered i-th before what was delivered j-th *)
fedBefore(h, i, j) ==
    \E k, l \in registeredAt(h) :
        /\ k < l
        /\ passed[requests[h].source][k] = delivered[h][i]
        /\ passed[requests[h].source][l] = delivered[h][j]
fedInOrder(h) == \A i, j \in DOMAIN delivered[h] : i < j => fedBefore(h, i, j)

(* Every typed handler is called, in the order the store saw them, with
   exactly the events of its type and its call that its store was fed while it
   was registered, but for events a handler panicked on; and the Handler gets
   each event of a socket at most once and, Connect's own aside, in the order
   they were read, and never one read on a client's socket after the client was
   detached. *)
RoutedRight ==
    /\ \A h \in HandlerId : requests[h].asked =>
         LET kept == {f \in fedWhile(h) :
                        /\ f.type = requests[h].type
                        /\ requests[h].call \in {AnyCall, f.cid}}
             got == {delivered[h][i] : i \in DOMAIN delivered[h]}
         IN  /\ got \subseteq kept
             /\ \A f \in kept \ got : f.number \in panicked
             /\ \A i, j \in DOMAIN delivered[h] : i # j => delivered[h][i] # delivered[h][j]
             /\ fedInOrder(h)
    /\ \A s \in Source :
         /\ \A i, j \in DOMAIN called[s] : i # j => called[s][i] # called[s][j]
         /\ isDetached(s) => \A i \in DOMAIN called[s] : called[s][i].number < detachedAt[s]
         /\ \A i, j \in DOMAIN called[s] :
              (i < j /\ ConnectedOk \notin {called[s][i].type, called[s][j].type})
                => called[s][i].number < called[s][j].number
         /\ \A f \in {passed[s][i] : i \in DOMAIN passed[s]} :
              \/ f.number \in panicked
              \/ \E i \in DOMAIN called[s] : called[s][i] = f
              \/ \E r \in Reader : handling[r].frame = f
              \/ isDetached(s) \/ f.type = MigrationComplete

(* The registries are well formed, and every event is routed right. *)
DispatchSound == DispatchTypeOK /\ RoutedRight
====
