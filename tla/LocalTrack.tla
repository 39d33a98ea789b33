----------------------------- MODULE LocalTrack -----------------------------
(***************************************************************************)
(* track.Local: the pump that writes a provider's samples, and the calls   *)
(* that start and stop it.  pion binds the track to a peer connection when *)
(* it is negotiated and unbinds it when the connection closes; during a    *)
(* migration the track is on two connections at once.  The application     *)
(* replaces the provider and closes the track.                             *)
(*                                                                         *)
(* s.binding is written outside s.mu, before the critical section of Bind  *)
(* and Unbind.  A critical section is one action, or two when it waits for *)
(* a pump to end with the lock held.                                       *)
(***************************************************************************)
EXTENDS Integers, FiniteSets

CONSTANTS
    Ctx,        \* peer connections' contexts, each bound at most once at a time
    Provider,   \* sample providers
    Pump,       \* write loops
    App,        \* the application's goroutine
    None,       \* the nil pointer
    MaxBinds    \* bound on the negotiations

ASSUME LocalTrackAssumption ==
    /\ None \notin Ctx \cup Provider \cup Pump \cup {App}
    /\ App \notin Ctx
    /\ MaxBinds \in Nat
    /\ IsFiniteSet(Pump) /\ Cardinality(Pump) > MaxBinds

VARIABLES
    at,         \* where each context is in Bind or Unbind
    binding,    \* s.binding, by the context it was made for
    mu,         \* who holds s.mu across actions
    app,        \* where the application is
    incoming,   \* StartWrite's argument
    provider,   \* s.provider
    closed,     \* s.closed
    pump,       \* s.pump
    running,    \* the pumps that have not ended
    cancelled,  \* those whose context is done
    orphans,    \* history: running pumps a Bind left behind, replaced or refused
    binds       \* negotiations left

lockVars == <<mu, app, incoming>>
pumpVars == <<pump, running, cancelled, orphans>>
vars == <<at, binding, lockVars, provider, closed, pumpVars, binds>>

TypeOK ==
    /\ at \in [Ctx -> {"new", "bind", "bound", "unbind", "stopping"}]
    /\ binding \in Ctx \cup {None}
    /\ mu \in Ctx \cup {App, None}
    /\ app \in {"idle", "swapping", "closing"}
    /\ incoming \in Provider \cup {None}
    /\ provider \in Provider \cup {None}
    /\ closed \in BOOLEAN
    /\ pump \in Pump \cup {None}
    /\ running \subseteq Pump /\ cancelled \subseteq running /\ orphans \subseteq running
    /\ binds \in 0 .. MaxBinds

\* NewLocalTrack.
Init ==
    /\ at = [c \in Ctx |-> "new"] /\ binding = None
    /\ mu = None /\ app = "idle" /\ incoming = None
    /\ provider = None /\ closed = FALSE
    /\ pump = None /\ running = {} /\ cancelled = {} /\ orphans = {}
    /\ binds = MaxBinds

Goes(c, place) == at' = [at EXCEPT ![c] = place]

-----------------------------------------------------------------------------
(* Pumps. *)

\* A pump starts, whether or not another one still runs.
startPumpLocked ==
    \E p \in Pump \ running :
        /\ pump' = p /\ running' = running \cup {p}
        /\ orphans' = orphans \cup (running \cap {pump})
        /\ UNCHANGED cancelled

\* stopPumpLocked cancels the pump; its caller goes on when the pump has ended.
cancelPump == cancelled' = cancelled \cup (running \cap {pump}) /\ UNCHANGED <<pump, running, orphans>>

\* Mutant: nobody waits for the pump.
pumpEndedUnwaited == TRUE

pumpEnded == pump \notin running

\* Mutant: the pump takes s.mu on its way out.
runPumpLocks(p) ==
    /\ p \in running /\ mu = None
    /\ running' = running \ {p} /\ cancelled' = cancelled \ {p} /\ orphans' = orphans \ {p}
    /\ UNCHANGED <<at, binding, lockVars, provider, closed, pump, binds>>

\* A pump ends: cancelled, at the end of its samples, or on an error.
runPump(p) ==
    /\ p \in running
    /\ running' = running \ {p} /\ cancelled' = cancelled \ {p} /\ orphans' = orphans \ {p}
    /\ UNCHANGED <<at, binding, lockVars, provider, closed, pump, binds>>

-----------------------------------------------------------------------------
(* pion. *)

\* Bind up to its critical section.
Bind(c) ==
    /\ at[c] = "new" /\ Goes(c, "bind")
    /\ binds > 0 /\ binds' = binds - 1
    /\ binding' = c
    /\ UNCHANGED <<lockVars, provider, closed, pumpVars>>

\* Whether Bind has a provider to start.
pumps == provider # None /\ ~closed

\* The critical section of Bind; the provider's OnBind may refuse.
BindLocked(c) ==
    /\ at[c] = "bind" /\ mu = None
    /\ \/ pumps /\ startPumpLocked /\ Goes(c, "bound") /\ UNCHANGED binding
       \/ /\ pumps /\ binding' = None /\ Goes(c, "new")
          /\ orphans' = orphans \cup (running \cap {pump})
          /\ UNCHANGED <<pump, running, cancelled>>
       \/ ~pumps /\ Goes(c, "bound") /\ UNCHANGED <<binding, pumpVars>>
    /\ UNCHANGED <<lockVars, provider, closed, binds>>

\* Unbind up to its critical section: the binding goes, whoever made it.
Unbind(c) ==
    /\ at[c] = "bound" /\ Goes(c, "unbind")
    /\ binding' = None
    /\ UNCHANGED <<lockVars, provider, closed, pumpVars, binds>>

UnbindLocked(c) ==
    /\ at[c] = "unbind" /\ mu = None /\ mu' = c /\ Goes(c, "stopping")
    /\ cancelPump
    /\ UNCHANGED <<binding, app, incoming, provider, closed, binds>>

\* Mutant: the pump outlives the negotiation.
UnbindReturnsEarly(c) ==
    /\ at[c] = "stopping" /\ mu' = None /\ Goes(c, "new")
    /\ UNCHANGED <<binding, app, incoming, provider, closed, pumpVars, binds>>

\* The pump has ended: s.pump is cleared and the provider told.
UnbindReturns(c) ==
    /\ at[c] = "stopping" /\ pumpEnded
    /\ pump' = None /\ mu' = None /\ Goes(c, "new")
    /\ UNCHANGED <<binding, app, incoming, provider, closed, running, cancelled, orphans, binds>>

-----------------------------------------------------------------------------
(* The application. *)

\* StartWrite on a bound track stops the present pump first; its own provider
\* may refuse to be bound, which changes nothing.
StartWrite(new) ==
    /\ app = "idle" /\ mu = None /\ provider # new
    /\ \/ /\ binding # None /\ ~closed
          /\ mu' = App /\ app' = "swapping" /\ incoming' = new
          /\ cancelPump
          /\ UNCHANGED provider
       \/ /\ binding = None \/ closed
          /\ provider' = new
          /\ UNCHANGED <<lockVars, pumpVars>>
    /\ UNCHANGED <<at, binding, closed, binds>>

StartWriteReturns ==
    /\ app = "swapping" /\ pumpEnded
    /\ startPumpLocked
    /\ provider' = incoming
    /\ mu' = None /\ app' = "idle" /\ incoming' = None
    /\ UNCHANGED <<at, binding, closed, binds>>

Close ==
    /\ app = "idle" /\ mu = None /\ ~closed
    /\ closed' = TRUE
    /\ mu' = App /\ app' = "closing"
    /\ cancelPump
    /\ UNCHANGED <<at, binding, incoming, provider, binds>>

CloseReturns ==
    /\ app = "closing" /\ pumpEnded
    /\ pump' = None /\ mu' = None /\ app' = "idle"
    /\ UNCHANGED <<at, binding, incoming, provider, closed, running, cancelled, orphans, binds>>

-----------------------------------------------------------------------------
Binding(c) == BindLocked(c) \/ UnbindLocked(c) \/ UnbindReturns(c)
Calls == StartWriteReturns \/ CloseReturns

Next ==
    \/ \E c \in Ctx : Bind(c) \/ Unbind(c) \/ Binding(c)
    \/ \E new \in Provider : StartWrite(new)
    \/ Close \/ Calls
    \/ \E p \in Pump : runPump(p)

Spec == Init /\ [][Next]_vars

\* Calls under way go on, mutexes are handed over fairly, and a cancelled pump
\* ends, as SampleProvider promises.  pion and the application owe nothing.
TrackFairness ==
    /\ \A c \in Ctx : SF_vars(Binding(c))
    /\ WF_vars(Calls)
    /\ \A p \in Pump : WF_vars(p \in cancelled /\ runPump(p))

FairSpec == Spec /\ TrackFairness

-----------------------------------------------------------------------------
\* Every write loop can be stopped: it is the one s.pump names, or a Bind has
\* replaced it while it ran.
PumpsAccounted == running \subseteq {pump} \cup orphans

\* A track on no connection reads no samples, whatever was started while it was
\* being unbound, except through pumps that a Bind left behind.
UnboundTrackSilent ==
    app = "idle" /\ (\A c \in Ctx : at[c] = "new") => running \subseteq orphans

\* Samples are never packetized for a connection that has gone: a stored
\* binding belongs to a context not yet unbound.
NoStaleBinding == binding # None => at[binding] \in {"bind", "bound"}

\* A closed track never starts another pump, though Bind and StartWrite may
\* have begun before it was closed.
ClosedStartsNothing == [][closed => running' \subseteq running]_vars

\* A track follows its connections through Bind, Unbind, StartWrite and Close:
\* what is bound is live, what is unbound is silent, what is closed stays so.
TrackFollows == [](TypeOK /\ UnboundTrackSilent /\ NoStaleBinding) /\ ClosedStartsNothing

\* stopPumpLocked waits for the pump with s.mu held, and never for ever: every
\* Bind and Unbind returns.
TrackCallsReturn == \A c \in Ctx : (at[c] \in {"bind", "unbind"}) ~> (at[c] \in {"new", "bound"})

-----------------------------------------------------------------------------
(* What the comments say, and the code does not guarantee. *)

\* A track that stays bound to a connection keeps writing to it: when no Bind or
\* Unbind is under way, a bound track has a binding.
BoundTrackWrites ==
    (\A c \in Ctx : at[c] \in {"new", "bound"}) /\ (\E c \in Ctx : at[c] = "bound") => binding # None
=============================================================================
