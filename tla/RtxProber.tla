----------------------------- MODULE RtxProber ------------------------------
(***************************************************************************)
(* The RTX prober: the first packet of a simulcast layer starts a          *)
(* goroutine that sends batches of padding on the layer's RTX SSRC, so     *)
(* that the SFU learns the mapping.  Time is a small clock; a write may    *)
(* take any time, and fails once the stream is unbound.                    *)
(***************************************************************************)
EXTENDS Integers

CONSTANTS
    Stream,         \* rtxProberStreams, one per binding
    BatchSize,
    Interval,       \* between batches
    Duration,       \* of the probing
    InitialDelay,
    MaxNow          \* bound of the clock

ASSUME ProberAssumption == BatchSize \in Nat /\ Interval \in Nat \ {0} /\ Duration \in Nat

VARIABLES
    proberNow,
    liveStreams,       \* streams in p.streams, which still have a connection below
    firstSeen,      \* the writer's sync.Once is done
    probed,
    prober,     \* each stream's goroutine: place, start of its loop, probes left in the batch
    ticked,     \* intervals for which a tick was taken or dropped
    probes      \* history: probe packets sent for each stream

proberVars == <<proberNow, liveStreams, firstSeen, probed, prober, ticked, probes>>

ProberInit ==
    /\ proberNow = 0 /\ liveStreams = {} /\ firstSeen = {} /\ probed = {}
    /\ prober = [s \in Stream |-> [at |-> "none", since |-> 0, left |-> 0]]
    /\ ticked = [s \in Stream |-> 0] /\ probes = [s \in Stream |-> 0]

ProberGoes(s, place, since, left) ==
    prober' = [prober EXCEPT ![s] = [at |-> place, since |-> since, left |-> left]]

\* A video stream with RTX and the mid and rsid extensions; others are not wrapped.
BindProber(s) ==
    /\ s \notin liveStreams \cup firstSeen /\ liveStreams' = liveStreams \cup {s}
    /\ UNCHANGED <<proberNow, firstSeen, probed, prober, ticked, probes>>

\* The goroutine is not told.
UnbindProber(s) ==
    /\ s \in liveStreams /\ liveStreams' = liveStreams \ {s}
    /\ UNCHANGED <<proberNow, firstSeen, probed, prober, ticked, probes>>

\* rtxProberWriter.Write of the first packet.
FirstWrite(s) ==
    /\ s \in liveStreams \ firstSeen /\ firstSeen' = firstSeen \cup {s}
    /\ ProberGoes(s, "start", proberNow, 0)
    /\ UNCHANGED <<proberNow, liveStreams, probed, ticked, probes>>

\* probeStream up to the sleep; without a mid and a rid there is nothing to send.
probeStream(s) ==
    /\ prober[s].at = "start" /\ probed' = probed \cup {s}
    /\ \E named \in BOOLEAN :
        ProberGoes(s, IF s \in probed \/ ~named THEN "none" ELSE "sleep", proberNow, 0)
    /\ UNCHANGED <<proberNow, liveStreams, firstSeen, ticked, probes>>

\* Mutant: the deadline itself is still in time.
beforeDeadlineLate(s) == proberNow <= prober[s].since + Duration

beforeDeadline(s) == proberNow < prober[s].since + Duration

\* The sleep is over: the ticker and the deadline count from here.
ProbeDelayOver(s) ==
    /\ prober[s].at = "sleep" /\ proberNow >= prober[s].since + InitialDelay
    /\ ProberGoes(s, "loop", proberNow, 0)
    /\ UNCHANGED <<proberNow, liveStreams, firstSeen, probed, ticked, probes>>

ProbeLoop(s) ==
    /\ prober[s].at = "loop"
    /\ IF beforeDeadline(s) THEN ProberGoes(s, "batch", prober[s].since, BatchSize)
                            ELSE ProberGoes(s, "none", 0, 0)
    /\ UNCHANGED <<proberNow, liveStreams, firstSeen, probed, ticked, probes>>

\* One packet of the batch, or the error that ends the probing.
sendProbePacket(s) ==
    /\ prober[s].at = "batch"
    /\ IF prober[s].left = 0
       THEN ProberGoes(s, "tick", prober[s].since, 0) /\ UNCHANGED probes
       ELSE IF s \in liveStreams
       THEN ProberGoes(s, "batch", prober[s].since, prober[s].left - 1) /\ probes' = [probes EXCEPT ![s] = @ + 1]
       ELSE ProberGoes(s, "none", 0, 0) /\ UNCHANGED probes
    /\ UNCHANGED <<proberNow, liveStreams, firstSeen, probed, ticked>>

\* A tick; the ticker drops those that come while one is waiting.
ProbeTick(s) ==
    LET produced == (proberNow - prober[s].since) \div Interval
    IN  /\ prober[s].at = "tick" /\ produced > ticked[s]
        /\ ticked' = [ticked EXCEPT ![s] = produced]
        /\ ProberGoes(s, "loop", prober[s].since, 0)
        /\ UNCHANGED <<proberNow, liveStreams, firstSeen, probed, probes>>

ProberClock == proberNow < MaxNow /\ proberNow' = proberNow + 1 /\ UNCHANGED <<liveStreams, firstSeen, probed, prober, ticked, probes>>

ProberNext ==
    \/ ProberClock
    \/ \E s \in Stream :
        \/ BindProber(s) \/ UnbindProber(s) \/ FirstWrite(s) \/ probeStream(s) \/ ProbeDelayOver(s)
        \/ ProbeLoop(s) \/ sendProbePacket(s) \/ ProbeTick(s)

ProberSpec == ProberInit /\ [][ProberNext]_proberVars

-----------------------------------------------------------------------------
\* The probing costs no more than its budget ("50 packets in the first second"):
\* slow writes and missed ticks never add a batch, and a stream is probed once.
ProbeBudget ==
    \A s \in Stream : probes[s] <= BatchSize * ((Duration + Interval - 1) \div Interval)
=============================================================================
