----------------------------- MODULE AudioWriter -----------------------------
(***************************************************************************)
(* TrackWriter (audio/rtc/writer.go) over the Opus encoder's framing       *)
(* (audio/opus/opus.go): audio is cut into frames, queued up to a cap and  *)
(* popped by the track's pump.  Samples are numbered as they are written;  *)
(* the input already has the codec's rate and layout (module Resampler has *)
(* the conversion).  Write, Flush, Clear and Close run under w.mu;         *)
(* NextSample pops under it and stores the level after.                    *)
(***************************************************************************)
EXTENDS Integers, Sequences, SequencesExt

CONSTANTS frameSamples,  \* samples in one Opus frame
          maxFrames,     \* frames the queue holds
          WriteSizes,    \* lengths of the buffers written
          MaxWritten,    \* bound: samples written
          MaxClears      \* bound: calls of Clear

ASSUME AudioWriterAssumption ==
    /\ frameSamples \in Nat \ {0} /\ maxFrames \in Nat \ {0}
    /\ WriteSizes \subseteq Nat \ {0} /\ MaxWritten \in Nat /\ MaxClears \in Nat

VARIABLES written,      \* samples written so far
          carried,      \* the partial frame the encoder holds
          queue,        \* queuedFrame: [samples, level]
          writerClosed,
          level,        \* the sample the current loudness was measured from
          popped,       \* the level NextSample has popped and not stored yet
          handed,       \* the frame last handed to the track, [samples, after, previous]
          cleared,      \* the last sample written before the latest Clear
          clears

audioWriterVars == <<written, carried, queue, writerClosed, level, popped, handed, cleared, clears>>
writerHistory == <<handed, cleared, clears>>

silenceLevel == 0      \* no sample
NotPopped == -1
NoFrame == [samples |-> <<>>, after |-> 0, previous |-> 0]

AudioWriterInit ==
    /\ written = 0 /\ carried = <<>> /\ queue = <<>> /\ writerClosed = FALSE
    /\ level = silenceLevel /\ popped = NotPopped
    /\ handed = NoFrame /\ cleared = 0 /\ clears = 0

\* No more than maxFrames wait: the oldest go first.
trim(q) == IF Len(q) > maxFrames THEN SubSeq(q, Len(q) - maxFrames + 1, Len(q)) ELSE q

\* Encode: the frames now complete, of the samples carried over and the new ones.
samplesOf(n) == [i \in 1..n |-> written + i]
wholeFrames(samples) == Len(samples) \div frameSamples
frameAt(samples, k) == SubSeq(samples, (k - 1) * frameSamples + 1, k * frameSamples)
leftover(samples) == SubSeq(samples, wholeFrames(samples) * frameSamples + 1, Len(samples))

\* enqueueWithLevels: the k-th packet is as loud as the k-th frame-long chunk of this input.
chunksIn(n) == (n + frameSamples - 1) \div frameSamples
levelOf(k, n) == written + 1 + ((IF k > chunksIn(n) THEN chunksIn(n) ELSE k) - 1) * frameSamples

framesEncoded(n) ==
    LET samples == carried \o samplesOf(n) IN
    [k \in 1..wholeFrames(samples) |-> [samples |-> frameAt(samples, k), level |-> levelOf(k, n)]]

Write(n) ==
    /\ ~writerClosed /\ written + n <= MaxWritten
    /\ queue' = IF framesEncoded(n) = <<>> THEN queue ELSE trim(queue \o framesEncoded(n))
    /\ carried' = leftover(carried \o samplesOf(n))
    /\ written' = written + n
    /\ UNCHANGED <<writerClosed, level, popped, writerHistory>>

\* The partial frame is padded with silence and is as loud as what was last sent.
Flush ==
    /\ ~writerClosed
    /\ queue' = IF carried = <<>> THEN queue
                ELSE trim(Append(queue, [samples |-> carried, level |-> level]))
    /\ carried' = <<>>
    /\ UNCHANGED <<written, writerClosed, level, popped, writerHistory>>

\* Mutant: without the encoder's Reset, Clear keeps a partial frame.
ClearQueueOnly ==
    /\ clears < MaxClears /\ clears' = clears + 1
    /\ queue' = <<>> /\ level' = silenceLevel
    /\ cleared' = written
    /\ UNCHANGED <<written, carried, writerClosed, popped, handed>>

Clear ==
    /\ clears < MaxClears /\ clears' = clears + 1
    /\ queue' = <<>> /\ carried' = <<>> /\ level' = silenceLevel
    /\ cleared' = written
    /\ UNCHANGED <<written, writerClosed, popped, handed>>

CloseWriter ==
    /\ ~writerClosed
    /\ writerClosed' = TRUE /\ queue' = <<>>
    /\ UNCHANGED <<written, carried, level, popped, writerHistory>>

\* NextSample: io.EOF once closed, silence when the queue is empty.
NextSamplePops ==
    /\ popped = NotPopped /\ ~writerClosed
    /\ IF queue = <<>>
       THEN popped' = silenceLevel /\ UNCHANGED <<queue, handed>>
       ELSE /\ popped' = Head(queue).level /\ queue' = Tail(queue)
            /\ handed' = [samples |-> Head(queue).samples, after |-> cleared,
                          previous |-> IF handed.samples = <<>> THEN 0 ELSE Last(handed.samples)]
    /\ UNCHANGED <<written, carried, writerClosed, level, cleared, clears>>

NextSampleStoresLevel ==
    /\ popped # NotPopped
    /\ level' = popped /\ popped' = NotPopped
    /\ UNCHANGED <<written, carried, queue, writerClosed, writerHistory>>

AudioWriterNext ==
    \/ \E n \in WriteSizes : Write(n)
    \/ Flush \/ Clear \/ CloseWriter
    \/ NextSamplePops \/ NextSampleStoresLevel

AudioWriterSpec == AudioWriterInit /\ [][AudioWriterNext]_audioWriterVars

(***************************************************************************)
(* The listener hears the writer's samples in order and each at most once; *)
(* a frame popped after a Clear holds nothing written before it, not even  *)
(* a partial frame the encoder carried; the queue never outgrows its cap   *)
(* and holds, with the encoder's partial frame, the newest audio without a *)
(* hole: every frame starts where the one before it ends, and the last one *)
(* ends where the partial frame starts.  A frame's loudness was measured   *)
(* from a sample of that frame.                                            *)
(***************************************************************************)
carriedFrom == written - Len(carried) + 1

\* The first sample of the i-th frame of q; past the last one, the sample that follows.
startIn(q, end, i) == IF i <= Len(q) THEN q[i].samples[1] ELSE end

NoHole(q, end) ==
    \A i \in DOMAIN q :
      /\ q[i].samples # <<>>
      /\ \A j \in DOMAIN q[i].samples : q[i].samples[j] = startIn(q, end, i) + j - 1
      /\ startIn(q, end, i + 1) = startIn(q, end, i) + Len(q[i].samples)

PlaysNewest ==
    /\ \A i \in DOMAIN handed.samples : handed.samples[i] > handed.previous /\ handed.samples[i] > handed.after
    /\ Len(queue) <= maxFrames
    /\ NoHole(queue, carriedFrom)
    /\ \A j \in DOMAIN carried : carried[j] = carriedFrom + j - 1
    /\ \A i \in DOMAIN queue : Len(queue[i].samples) = frameSamples =>
         queue[i].level - queue[i].samples[1] \in 0..(frameSamples - 1)
=============================================================================
