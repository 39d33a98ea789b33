---- MODULE EventStore ----
(* The event store (event/store.go), its awaiters (event/awaiter.go) and the
   read loop that feeds it (Client.handle of signal/client.go, wsclient.handle
   of coordinator/websocket.go). Interceptors and match functions run under the
   store's lock; Await and its timeout do not. *)
EXTENDS Naturals, Sequences, FiniteSets

CONSTANTS HandlerKind,     \* what callbacks do: "plain", "panics" or "registers"
          AwaiterId,
          Payload,         \* event payloads
          Awaited,         \* those the awaiters' match functions accept
          MaxEvents, MaxHandlers,
          NoEvent, NoCaller, ReadLoop

ASSUME EventStoreAssumption ==
    /\ HandlerKind \subseteq {"plain", "panics", "registers"}
    /\ Awaited \subseteq Payload /\ MaxEvents \in Nat /\ MaxHandlers \in Nat
    /\ NoCaller # ReadLoop

VARIABLES holder,        \* who holds the store's lock
          interceptors,  \* registered callbacks, in order
          nextID,
          removable,     \* ids the application holds a RemoveHandler of
          eventAwaiters, \* registered awaiters, in order
          awaiter,       \* id |-> its channel, flags, and what its Await returned
          reading,       \* the Intercept under way: event, phase, position, remaining
          count,         \* events read so far
          sendPanic      \* a match sent on a closed channel

evVars == <<holder, interceptors, nextID, removable, eventAwaiters, awaiter, reading, count, sendPanic>>

Event == [payload : Payload, number : 1 .. MaxEvents]
idleRead == [event |-> NoEvent, phase |-> "idle", at |-> 1, remaining |-> <<>>]
newAwaiter == [state |-> "none", chan |-> <<>>, closed |-> FALSE, timeout |-> FALSE,
               got |-> NoEvent, since |-> 0]

EvTypeOK ==
    /\ holder \in {NoCaller, ReadLoop}
    /\ \A i \in 1 .. Len(interceptors) :
         interceptors[i] \in [id : 1 .. MaxHandlers, kind : HandlerKind]
    /\ nextID \in 0 .. MaxHandlers /\ removable \subseteq 1 .. MaxHandlers
    /\ \A i \in 1 .. Len(eventAwaiters) : eventAwaiters[i] \in AwaiterId
    /\ \A a \in AwaiterId :
         /\ awaiter[a].state \in {"none", "waiting", "timing", "event", "zero", "timeout"}
         /\ awaiter[a].got \in Event \cup {NoEvent} /\ awaiter[a].since \in 0 .. MaxEvents
    /\ count \in 0 .. MaxEvents

EvInit ==
    /\ holder = NoCaller /\ interceptors = <<>> /\ nextID = 0 /\ removable = {}
    /\ eventAwaiters = <<>> /\ awaiter = [a \in AwaiterId |-> newAwaiter]
    /\ reading = idleRead /\ count = 0 /\ sendPanic = FALSE

-----------------------------------------------------------------------------
(* The application. Each call takes the lock, changes a list and releases it. *)

AddInterceptor(kind) ==
    /\ holder = NoCaller /\ nextID < MaxHandlers
    /\ nextID' = nextID + 1
    /\ interceptors' = Append(interceptors, [id |-> nextID + 1, kind |-> kind])
    /\ removable' = removable \cup {nextID + 1}
    /\ UNCHANGED <<holder, eventAwaiters, awaiter, reading, count, sendPanic>>

(* The RemoveHandler AddInterceptor returned; a second call finds nothing *)
removeInterceptor(id) ==
    /\ holder = NoCaller /\ id \in removable
    /\ \/ \E i \in 1 .. Len(interceptors) :
            /\ interceptors[i].id = id
            /\ interceptors' = SubSeq(interceptors, 1, i - 1)
                                \o SubSeq(interceptors, i + 1, Len(interceptors))
       \/ /\ \A i \in 1 .. Len(interceptors) : interceptors[i].id # id
          /\ UNCHANGED interceptors
    /\ UNCHANGED <<holder, nextID, removable, eventAwaiters, awaiter, reading, count, sendPanic>>

(* NewEventAwaiter registers the awaiter, and its caller goes on to Await *)
NewEventAwaiter(a) ==
    /\ holder = NoCaller /\ awaiter[a].state = "none"
    /\ eventAwaiters' = Append(eventAwaiters, a)
    /\ awaiter' = [awaiter EXCEPT ![a].state = "waiting", ![a].since = count]
    /\ UNCHANGED <<holder, interceptors, nextID, removable, reading, count, sendPanic>>

(* Await: the channel has an event, or is closed and gives the zero value *)
AwaitReceives(a) ==
    /\ awaiter[a].state = "waiting"
    /\ \/ /\ awaiter[a].chan # <<>>
          /\ awaiter' = [awaiter EXCEPT ![a].state = "event", ![a].got = Head(awaiter[a].chan),
                                        ![a].chan = <<>>]
       \/ /\ awaiter[a].chan = <<>> /\ awaiter[a].closed
          /\ awaiter' = [awaiter EXCEPT ![a].state = "zero"]
    /\ UNCHANGED <<holder, interceptors, nextID, removable, eventAwaiters, reading, count, sendPanic>>

(* Await: the timer wins the select, and then the flag is set *)
AwaitTimer(a) ==
    /\ \/ awaiter[a].state = "waiting" /\ awaiter' = [awaiter EXCEPT ![a].state = "timing"]
       \/ awaiter[a].state = "timing"
          /\ awaiter' = [awaiter EXCEPT ![a].state = "timeout", ![a].timeout = TRUE]
    /\ UNCHANGED <<holder, interceptors, nextID, removable, eventAwaiters, reading, count, sendPanic>>

-----------------------------------------------------------------------------
(* The read loop: Intercept under the lock, one callback at a time *)

Intercept(p) ==
    /\ reading.phase = "idle" /\ holder = NoCaller /\ count < MaxEvents
    /\ holder' = ReadLoop /\ count' = count + 1
    /\ reading' = [event |-> [payload |-> p, number |-> count + 1],
                   phase |-> "interceptors", at |-> 1, remaining |-> <<>>]
    /\ UNCHANGED <<interceptors, nextID, removable, eventAwaiters, awaiter, sendPanic>>

(* Mutant: a panic skips the unlock *)
CallInterceptorNoDefer ==
    /\ reading.phase = "interceptors" /\ reading.at <= Len(interceptors)
    /\ LET kind == interceptors[reading.at].kind IN
       \/ kind = "plain" /\ reading' = [reading EXCEPT !.at = @ + 1] /\ holder' = holder
       \/ kind = "panics" /\ reading' = idleRead /\ holder' = holder
       \/ kind = "registers" /\ reading' = [reading EXCEPT !.phase = "stuck"] /\ holder' = holder
    /\ UNCHANGED <<interceptors, nextID, removable, eventAwaiters, awaiter, count, sendPanic>>

(* A callback returns; or it panics, and the deferred unlock and the recover of
   handle leave the awaiters without the event; or it calls AddInterceptor and
   waits for the lock its own goroutine holds. *)
CallInterceptor ==
    /\ reading.phase = "interceptors" /\ reading.at <= Len(interceptors)
    /\ LET kind == interceptors[reading.at].kind IN
       \/ kind = "plain" /\ reading' = [reading EXCEPT !.at = @ + 1] /\ holder' = holder
       \/ kind = "panics" /\ reading' = idleRead /\ holder' = NoCaller
       \/ kind = "registers" /\ reading' = [reading EXCEPT !.phase = "stuck"] /\ holder' = holder
    /\ UNCHANGED <<interceptors, nextID, removable, eventAwaiters, awaiter, count, sendPanic>>

InterceptorsDone ==
    /\ reading.phase = "interceptors" /\ reading.at > Len(interceptors)
    /\ reading' = [reading EXCEPT !.phase = "awaiters", !.at = 1]
    /\ UNCHANGED <<holder, interceptors, nextID, removable, eventAwaiters, awaiter, count, sendPanic>>

(* EventAwaiter.match: a timed-out awaiter counts as matched and gets nothing *)
match(a) == awaiter[a].timeout \/ reading.event.payload \in Awaited

(* EventAwaiter.Match: send the event, and close the channel *)
Match(a) ==
    awaiter' = [awaiter EXCEPT
        ![a].chan = IF match(a) /\ ~awaiter[a].timeout THEN Append(@, reading.event) ELSE @,
        ![a].closed = @ \/ match(a)]

(* Mutant: a matched awaiter stays in the list *)
remainsAlways(a) == IF awaiter[a].timeout THEN <<>> ELSE <<a>>

(* what Intercept keeps of the list *)
remains(a) == IF match(a) THEN <<>> ELSE <<a>>

MatchAwaiter ==
    /\ reading.phase = "awaiters" /\ reading.at <= Len(eventAwaiters)
    /\ LET a == eventAwaiters[reading.at] IN
       /\ Match(a)
       /\ sendPanic' = (sendPanic \/ (match(a) /\ ~awaiter[a].timeout /\ awaiter[a].closed))
       /\ reading' = [reading EXCEPT !.at = @ + 1, !.remaining = @ \o remains(a)]
    /\ UNCHANGED <<holder, interceptors, nextID, removable, eventAwaiters, count>>

InterceptReturns ==
    /\ reading.phase = "awaiters" /\ reading.at > Len(eventAwaiters)
    /\ eventAwaiters' = reading.remaining
    /\ reading' = idleRead /\ holder' = NoCaller
    /\ UNCHANGED <<interceptors, nextID, removable, awaiter, count, sendPanic>>

ReadStep == CallInterceptor \/ InterceptorsDone \/ MatchAwaiter \/ InterceptReturns

EvNext ==
    \/ \E kind \in HandlerKind : AddInterceptor(kind)
    \/ \E id \in 1 .. MaxHandlers : removeInterceptor(id)
    \/ \E a \in AwaiterId : NewEventAwaiter(a) \/ AwaitReceives(a) \/ AwaitTimer(a)
    \/ \E p \in Payload : Intercept(p)
    \/ ReadStep

(* The read loop goes on: callbacks return. *)
EvFairness == WF_evVars(ReadStep)

EvSpec == EvInit /\ [][EvNext]_evVars /\ EvFairness

-----------------------------------------------------------------------------
(* An Await that reports no error returns an event its match function accepted
   and that came after the awaiter was registered, never the zero value of a
   closed channel; and no match sends on a closed channel. *)
AwaitHonest ==
    /\ ~sendPanic
    /\ \A a \in AwaiterId :
         /\ awaiter[a].state # "zero"
         /\ awaiter[a].state = "event" =>
              awaiter[a].got.payload \in Awaited /\ awaiter[a].got.number > awaiter[a].since

(* The lock comes free again after every event, whatever panics, unless a
   callback registers a handler with the store that is calling it: that one
   waits for itself for ever. *)
LockReleased == holder = ReadLoop ~> (holder = NoCaller \/ reading.phase = "stuck")

(* The store's lists keep their types, and every Await is answered honestly. *)
EventsDelivered == EvTypeOK /\ AwaitHonest
====
