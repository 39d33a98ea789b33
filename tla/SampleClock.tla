----------------------------- MODULE SampleClock ----------------------------
(***************************************************************************)
(* How track.Local places samples on the RTP timeline: a binding's         *)
(* sampleClock, its packetizer and its sequencer.  RTP time wraps, and 0   *)
(* means that a sample has no PacketTimestamp.                             *)
(***************************************************************************)
EXTENDS Integers

CONSTANTS
    HalfTicks,   \* half of RTP time, 2^31 in the code
    Rate,        \* the codec's clock rate,
    ClockSecond,      \* in ticks per so many units of time
    SampleDurations,   \* of samples
    Walls,       \* wall clock times of samples, 0 for none
    Drops,       \* PrevDroppedPackets
    MaxSamples   \* bound on the sequence numbers used

Tick == 0 .. 2 * HalfTicks - 1
wrapTicks(n) == n % (2 * HalfTicks)

\* Whether int32(t) is negative, for a difference t.
isNegative(t) == wrapTicks(t) >= HalfTicks

\* The ticks a duration spans.
spanOf(d) == wrapTicks((d * Rate) \div ClockSecond)

\* A sample and the packets dropped before the next one span no more than half of
\* RTP time, which is 12 hours at 48 kHz: int32 differences say nothing beyond it.
ASSUME SampleClockAssumption ==
    /\ HalfTicks \in Nat \ {0} /\ Rate \in Nat /\ ClockSecond \in Nat \ {0}
    /\ SampleDurations \subseteq Int /\ Walls \subseteq Nat /\ Drops \subseteq Nat
    /\ \A d, e \in SampleDurations \cap Nat : \A k \in Drops : spanOf(d) + k * spanOf(e) <= HalfTicks

Sample == [duration : SampleDurations, pts : Tick, wall : Walls, dropped : Drops]

VARIABLES
    clock,      \* binding.clock
    wire,       \* the packetizer's timestamp and the sequencer's next number
    clockStep        \* history: how far the last sample on the wire is from the one before

writerVars == <<clock, wire, clockStep>>

NewClock == [started |-> FALSE, start |-> 0, end |-> 0, wall |-> 0]

\* newBinding; the packetizer's base and the first sequence number are random.
WriterInit ==
    /\ clock = NewClock
    /\ wire = [ts |-> 2 * HalfTicks - 1, seq |-> 0]
    /\ clockStep = [wire |-> 0, least |-> 0, places |-> 0]

\* Mutant: the previous sample may be overlapped.
laterPlain(target, start) == target

\* A sample never starts before the previous one's end.
later(target, start) ==
    IF wrapTicks(target - start) # 0 /\ ~isNegative(target - start) THEN target ELSE start

\* What the packetizer skips to get from the previous sample's end to this one.
skipTo(c, end, at) == wrapTicks(at - end)

\* sampleClock.place: where the sample starts and what it spans, or an error.
clockPlace(c, s) ==
    LET span == spanOf(s.duration)
        end == IF ~c.started /\ s.pts # 0 THEN wrapTicks(s.pts - s.dropped * span) ELSE c.end
        start == wrapTicks(end + s.dropped * span)
        byWall == s.wall # 0 /\ c.wall # 0
        target == IF s.pts # 0 THEN s.pts
                  ELSE IF byWall THEN wrapTicks(c.start + ((s.wall - c.wall) * Rate) \div ClockSecond)
                  ELSE start
        at == IF c.started THEN later(target, start) ELSE start
    IN  [ok |-> /\ s.duration >= 0
                /\ ~(c.started /\ s.pts # 0 /\ isNegative(s.pts - c.start))
                /\ ~(c.started /\ s.pts = 0 /\ byWall /\ s.wall < c.wall),
         start |-> at, span |-> span, skip |-> skipTo(c, end, at)]

\* WriteSample from the pump or the application, under binding.mu.  A sample the
\* clock refuses, and one the pump discards while muted, changes nothing.
WriteSample(s) ==
    LET p == clockPlace(clock, s)
        before == wrapTicks(clock.end - clock.start)
    IN  /\ p.ok
        /\ clock' = [started |-> TRUE, start |-> p.start, end |-> wrapTicks(p.start + p.span), wall |-> s.wall]
        /\ wire' = [ts |-> wrapTicks(wire.ts + p.skip + p.span), seq |-> wire.seq + s.dropped + 1]
        /\ clockStep' = IF ~clock.started THEN clockStep
                   ELSE [wire |-> wrapTicks(p.skip + before), least |-> wrapTicks(before + s.dropped * p.span),
                         places |-> wrapTicks(p.start - clock.start)]

WriterNext == \E s \in Sample : wire.seq < MaxSamples /\ WriteSample(s)

WriterSpec == WriterInit /\ [][WriterNext]_writerVars

-----------------------------------------------------------------------------
\* "It never lands closer to the previous sample than that sample's length",
\* across late and early samples, mixed kinds of time and the wrap of RTP time;
\* and each dropped packet leaves room for one.  What receivers measure on the
\* wire is what the clock decided.
SamplesNeverOverlap == clockStep.wire >= clockStep.least /\ clockStep.wire = clockStep.places
=============================================================================
