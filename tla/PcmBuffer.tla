----------------------------- MODULE PcmBuffer -----------------------------
(***************************************************************************)
(* The audio package's buffers: a byte stream chopped anywhere is aligned  *)
(* to whole frames (Aligner, FromReader, FromByteSeq, Collect, stream.go), *)
(* and the collected buffer is cut, padded and windowed (PCM, pcm.go and   *)
(* chunk.go).  Bytes are numbered as they arrive; a frame is the sequence  *)
(* of its bytes, 0 being a byte of silence.                                *)
(***************************************************************************)
EXTENDS Integers, Sequences, SequencesExt

CONSTANTS StreamBytes,     \* lengths of the byte streams considered
          BytesPerSample,  \* 2 for s16, 4 for f32
          Layouts,         \* channel counts
          MaxRead,         \* bound: bytes one read or chunk delivers
          ChunkSizes, Overlaps, \* arguments of Chunks, in frames
          Durations,       \* arguments of Head and Tail, in ticks
          PcmRate, Second  \* frames per second, and ticks of time per second

ASSUME PcmBufferAssumption ==
    /\ StreamBytes \subseteq Nat /\ BytesPerSample \in Nat \ {0}
    /\ Layouts \subseteq Nat \ {0} /\ MaxRead \in Nat
    /\ ChunkSizes \subseteq Nat \ {0} /\ Overlaps \subseteq Nat /\ Durations \subseteq Nat
    /\ PcmRate \in Nat \ {0} /\ Second \in Nat \ {0}

VARIABLES total, channels,
          bytesFed,          \* bytes the source has delivered
          alignerBuf,   \* Aligner.buf
          pcmFrames,       \* the collected buffer's frames
          streamState,  \* "streaming", "eof", "failed" or "stopped"
          chunkArgs,    \* the arguments of the iteration in progress
          chunkAt,      \* its next frame
          view          \* the buffer last cut out: [frames, pts, channel]

pcmVars == <<total, channels, bytesFed, alignerBuf, pcmFrames, streamState, chunkArgs, chunkAt, view>>
streamVars == <<total, channels, bytesFed, alignerBuf, pcmFrames, streamState>>

NoArgs == [size |-> 0, step |-> 0, padLast |-> FALSE]
wholeBuffer(fs, pts) == [frames |-> fs, pts |-> pts, channel |-> 0]

PcmInit ==
    /\ total \in StreamBytes /\ channels \in Layouts
    /\ bytesFed = 0 /\ alignerBuf = <<>> /\ pcmFrames = <<>> /\ streamState = "streaming"
    /\ chunkArgs = NoArgs /\ chunkAt = 0 /\ view = wholeBuffer(<<>>, 0)

frameSize == BytesPerSample * channels

\* FromBytes: trailing bytes that do not complete a frame are dropped.
FromBytes(b) ==
    [k \in 1..(Len(b) \div frameSize) |-> SubSeq(b, (k - 1) * frameSize + 1, k * frameSize)]

\* Mutant: the bytes after the last whole frame are lost.
remainderNone(b) == <<>>

remainder(b) == SubSeq(b, Len(b) - (Len(b) % frameSize) + 1, Len(b))

padded(b) == b \o [i \in 1..((frameSize - (Len(b) % frameSize)) % frameSize) |-> 0]

(***************************************************************************)
(* One read of FromReader, or one chunk of FromByteSeq: n bytes and an     *)
(* error, EOF or none.  EOF pads the trailing partial frame; another error *)
(* ends the iteration without it.  The consumer may stop at any buffer.    *)
(***************************************************************************)
ReadStream(n, result) ==
    LET b == alignerBuf \o [i \in 1..n |-> bytesFed + i] IN
    /\ streamState = "streaming" /\ bytesFed + n <= total
    /\ result = "eof" => bytesFed + n = total
    /\ result = "stopped" => FromBytes(b) # <<>>
    /\ bytesFed' = bytesFed + n
    /\ streamState' = result
    /\ pcmFrames' = pcmFrames \o FromBytes(b) \o
         (IF result = "eof" THEN FromBytes(padded(remainder(b))) ELSE <<>>)
    /\ alignerBuf' = IF result = "eof" THEN <<>> ELSE remainder(b)
    /\ UNCHANGED <<total, channels, chunkArgs, chunkAt, view>>

\* Times in ticks, truncated like time.Duration.
timeOf(n) == (n * Second) \div PcmRate
framesIn(d) == (d * PcmRate) \div Second

Slice(p, from, to) ==
    [p EXCEPT !.frames = SubSeq(@, from + 1, to), !.pts = @ + timeOf(from)]

silentFrames(n) == [i \in 1..n |-> [j \in 1..frameSize |-> 0]]

PadTo(p, n, at) ==
    LET missing == silentFrames(n - Len(p.frames)) IN
    IF Len(p.frames) >= n THEN p
    ELSE [p EXCEPT !.frames = IF at = "start" THEN missing \o @ ELSE @ \o missing,
                   !.pts = IF at = "start" THEN @ - timeOf(n - Len(p.frames)) ELSE @]

\* The collected buffer; Collect keeps the first buffer's time, zero.
collected == wholeBuffer(pcmFrames, 0)

Head_(want, pad, at) ==
    IF Len(pcmFrames) >= want THEN Slice(collected, 0, want)
    ELSE IF pad THEN PadTo(collected, want, at) ELSE collected

Tail_(want, pad, at) ==
    IF Len(pcmFrames) >= want THEN Slice(collected, Len(pcmFrames) - want, Len(pcmFrames))
    ELSE IF pad THEN PadTo(collected, want, at) ELSE collected

Channel(i) ==
    [collected EXCEPT !.channel = IF channels = 1 THEN 0 ELSE i,
       !.frames = IF channels = 1 THEN @
                  ELSE [k \in DOMAIN @ |-> SubSeq(@[k], (i - 1) * BytesPerSample + 1, i * BytesPerSample)]]

TakeHead(d, pad, at) ==
    /\ streamState = "eof" /\ view' = Head_(framesIn(d), pad, at)
    /\ UNCHANGED <<streamVars, chunkArgs, chunkAt>>

TakeTail(d, pad, at) ==
    /\ streamState = "eof" /\ view' = Tail_(framesIn(d), pad, at)
    /\ UNCHANGED <<streamVars, chunkArgs, chunkAt>>

TakeChannel(i) ==
    /\ streamState = "eof" /\ i <= channels /\ view' = Channel(i)
    /\ UNCHANGED <<streamVars, chunkArgs, chunkAt>>

(***************************************************************************)
(* Chunks, one step per buffer yielded; SlidingWindow is Chunks with the   *)
(* overlap its hop leaves.                                                 *)
(***************************************************************************)
stepOf(size, overlap) == IF size - overlap > 1 THEN size - overlap ELSE 1

Chunks(size, overlap, padLast) ==
    /\ streamState = "eof" /\ chunkArgs = NoArgs
    /\ chunkArgs' = [size |-> size, step |-> stepOf(size, overlap), padLast |-> padLast]
    /\ chunkAt' = 0
    /\ UNCHANGED <<streamVars, view>>

YieldChunk ==
    LET end == IF chunkAt + chunkArgs.size < Len(pcmFrames) THEN chunkAt + chunkArgs.size ELSE Len(pcmFrames)
        chunk == Slice(collected, chunkAt, end)
    IN  /\ chunkArgs # NoArgs /\ chunkAt < Len(pcmFrames)
        /\ view' = IF chunkArgs.padLast THEN PadTo(chunk, chunkArgs.size, "end") ELSE chunk
        /\ chunkAt' = chunkAt + chunkArgs.step
        /\ UNCHANGED <<streamVars, chunkArgs>>

PcmNext ==
    \/ \E n \in 0..MaxRead : \E result \in {"streaming", "eof", "failed", "stopped"} : ReadStream(n, result)
    \/ \E d \in Durations : \E pad \in BOOLEAN : \E at \in {"start", "end"} :
         TakeHead(d, pad, at) \/ TakeTail(d, pad, at)
    \/ \E i \in Layouts : TakeChannel(i)
    \/ \E size \in ChunkSizes : \E overlap \in Overlaps : \E padLast \in BOOLEAN : Chunks(size, overlap, padLast)
    \/ YieldChunk

PcmSpec == PcmInit /\ [][PcmNext]_pcmVars

(***************************************************************************)
(* However the bytes were chopped, the frames handed on are the bytes in   *)
(* order, in whole frames, and the aligner holds exactly the rest; at the  *)
(* end of the stream nothing is missing and less than a frame of silence   *)
(* was added.                                                              *)
(***************************************************************************)
byteAt(i) == IF i <= bytesFed THEN i ELSE 0

NothingLostAligning ==
    LET inFrames == Len(pcmFrames) * frameSize IN
    /\ \A k \in DOMAIN pcmFrames :
         /\ Len(pcmFrames[k]) = frameSize
         /\ \A j \in DOMAIN pcmFrames[k] : pcmFrames[k][j] = byteAt((k - 1) * frameSize + j)
    /\ Len(alignerBuf) < frameSize
    /\ \A j \in DOMAIN alignerBuf : alignerBuf[j] = inFrames + j
    /\ streamState # "eof" => inFrames + Len(alignerBuf) = bytesFed
    /\ streamState = "eof" =>
         bytesFed = total /\ alignerBuf = <<>> /\ inFrames - total \in 0..(frameSize - 1)

(***************************************************************************)
(* Every frame of a chunk, a head, a tail or a channel, padded or not,     *)
(* plays at the time it has in the collected buffer, to within the         *)
(* truncation of a tick, and frames that were not there are silent.        *)
(***************************************************************************)
sampleOf(channel, k) ==
    IF channel = 0 THEN pcmFrames[k]
    ELSE SubSeq(pcmFrames[k], (channel - 1) * BytesPerSample + 1, channel * BytesPerSample)
near(a, b) == a - b \in {-1, 0, 1}
silent(f) == \A b \in DOMAIN f : f[b] = 0

keepsTime(p) ==
    \A j \in DOMAIN p.frames :
      ~silent(p.frames[j]) =>
        \E k \in DOMAIN pcmFrames : /\ p.frames[j] = sampleOf(p.channel, k)
                                    /\ near(p.pts + timeOf(j - 1), timeOf(k - 1))

PcmFaithful == NothingLostAligning /\ keepsTime(view)
=============================================================================
