----------------------------- MODULE WavFile -----------------------------
(***************************************************************************)
(* WAV files (audio/wav.go, audio/wavwriter.go), byte for byte: the header *)
(* WriteWAV emits, the incremental WAVWriter that patches the sizes into   *)
(* it on Close, and ReadWAV's walk over the chunks of its own files and of *)
(* files other encoders wrote.  A sample is the sequence of its bytes.     *)
(***************************************************************************)
EXTENDS Integers, Sequences, SequencesExt

CONSTANTS WavRate,        \* sample rate
          WavChannels,    \* channel counts
          SampleByte,     \* values of a foreign file's sample bytes
          MaxWavFrames    \* bound: frames recorded

ASSUME WavFileAssumption ==
    /\ WavRate \in 1..65535 /\ WavChannels \subseteq 1..255
    /\ SampleByte \subseteq 0..255 /\ MaxWavFrames \in Nat

VARIABLES wavFormat,      \* "s16" or "f32"
          wavChannels,
          wavBytes,       \* the file
          wavWritten,     \* WAVWriter.written
          wavHeld,        \* frames the resampler has not put out yet
          wavClosed,
          recorded        \* frames handed to Write so far; a foreign file's frames

wavVars == <<wavFormat, wavChannels, wavBytes, wavWritten, wavHeld, wavClosed, recorded>>

bytesPer(format) == IF format = "f32" THEN 4 ELSE 2

\* Little-endian numbers; the values here stay below 2^16.
le16(v) == <<v % 256, (v \div 256) % 256>>
le32(v) == le16(v) \o <<0, 0>>
num16(b) == b[1] + 256 * b[2]
num32(b) == num16(b) + (IF b[3] + b[4] > 0 THEN 65536 ELSE 0)

RIFF == <<82, 73, 70, 70>>
WAVE == <<87, 65, 86, 69>>
FMT == <<102, 109, 116, 32>>
FACT == <<102, 97, 99, 116>>
DATA == <<100, 97, 116, 97>>
LIST == <<76, 73, 83, 84>>

writeChunk(id, payload) ==
    id \o le32(Len(payload)) \o payload \o (IF Len(payload) % 2 = 1 THEN <<0>> ELSE <<>>)

fmtPayload(tag, ch, width) ==
    le16(tag) \o le16(ch) \o le32(WavRate) \o le32(WavRate * ch * width) \o le16(ch * width) \o le16(8 * width)

formatTag(format) == IF format = "f32" THEN 3 ELSE 1

\* WriteWAV of frames f; the sizes are those of the body written.
wavBody(format, ch, data) ==
    WAVE \o writeChunk(FMT, fmtPayload(formatTag(format), ch, bytesPer(format)))
         \o (IF format = "f32" THEN writeChunk(FACT, le32(Len(data) \div (4 * ch))) ELSE <<>>)
         \o writeChunk(DATA, data)

WriteWAV(format, ch, data) ==
    RIFF \o le32(Len(wavBody(format, ch, data))) \o wavBody(format, ch, data)

(***************************************************************************)
(* Frames of audio.  Frame k of a recording is made of bytes that name it. *)
(***************************************************************************)
frameBytes(k) == [i \in 1..(bytesPer(wavFormat) * wavChannels) |-> 16 * k + i]
framesBytes(from, to) == FlattenSeq([i \in 1..(to - from + 1) |-> frameBytes(from + i - 1)])

\* What another encoder may have written: an odd chunk first, the plain or the extensible
\* format chunk, integers of 1, 3 or 4 bytes, and a placeholder for the data's size.
foreignFile(width, extensible, placeholder, ch, sample) ==
    LET data == FlattenSeq([i \in 1..ch |-> sample])
        chunkFmt == IF extensible
                    THEN fmtPayload(65534, ch, width) \o le16(22) \o le16(8 * width) \o le32(0) \o le16(1) \o [i \in 1..14 |-> 0]
                    ELSE fmtPayload(1, ch, width)
        rest == WAVE \o writeChunk(LIST, <<1, 2, 3>>) \o writeChunk(FMT, chunkFmt)
                     \o DATA \o (IF placeholder THEN <<255, 255, 255, 255>> ELSE le32(Len(data))) \o data
    IN  RIFF \o le32(Len(rest)) \o rest

\* The two high bytes of an integer sample; 8-bit samples are biased by 128.
narrowed(sample) ==
    IF Len(sample) = 1 THEN <<0, (sample[1] + 128) % 256>>
    ELSE SubSeq(sample, Len(sample) - 1, Len(sample))

WavInit ==
    /\ wavChannels \in WavChannels /\ wavHeld = 0 /\ wavWritten = 0
    /\ \/ /\ wavFormat \in {"s16", "f32"} /\ wavClosed = FALSE /\ recorded = <<>>
          /\ wavBytes = WriteWAV(wavFormat, wavChannels, <<>>)
       \/ \E width \in {1, 3, 4} : \E sample \in [1..width -> SampleByte] : \E ext, hold \in BOOLEAN :
            /\ wavFormat = "s16" /\ wavClosed = TRUE
            /\ wavBytes = foreignFile(width, ext, hold, wavChannels, sample)
            /\ recorded = [i \in 1..wavChannels |-> narrowed(sample)]

(***************************************************************************)
(* WAVWriter.  The resampler takes n frames and puts out some of those it  *)
(* holds; emit appends them to the file.                                   *)
(***************************************************************************)
framesOut == wavWritten \div (bytesPer(wavFormat) * wavChannels)

samplesIn(bytes, width) ==
    [k \in 1..(Len(bytes) \div width) |-> SubSeq(bytes, (k - 1) * width + 1, k * width)]

emit(n) ==
    LET data == framesBytes(framesOut + 1, framesOut + n) IN
    /\ wavBytes' = wavBytes \o data
    /\ wavWritten' = wavWritten + Len(data)

WriteFrames(n, out) ==
    /\ ~wavClosed /\ framesOut + wavHeld + n <= MaxWavFrames /\ out <= wavHeld + n
    /\ emit(out)
    /\ wavHeld' = wavHeld + n - out
    /\ recorded' = recorded \o samplesIn(framesBytes(framesOut + wavHeld + 1, framesOut + wavHeld + n), bytesPer(wavFormat))
    /\ UNCHANGED <<wavFormat, wavChannels, wavClosed>>

patch(bytes, offset, value) ==
    [i \in DOMAIN bytes |-> IF i - offset \in 1..4 THEN le32(value)[i - offset] ELSE bytes[i]]

\* Mutant: the fact chunk of a float file is not counted.
dataSizeAtShort(format) == 40

dataSizeAt(format) == IF format = "f32" THEN 52 ELSE 40
headerBytes(format) == IF format = "f32" THEN 56 ELSE 44

patchSizes(bytes, n) ==
    LET even == IF n % 2 = 1 THEN Append(bytes, 0) ELSE bytes
        riff == patch(even, 4, headerBytes(wavFormat) - 8 + n + (n % 2))
        data == patch(riff, dataSizeAt(wavFormat), n)
    IN  IF wavFormat = "f32" THEN patch(data, 44, n \div (4 * wavChannels)) ELSE data

\* Close flushes the resampler, then patches; it is safe to call twice.
CloseWav ==
    LET data == framesBytes(framesOut + 1, framesOut + wavHeld) IN
    /\ ~wavClosed /\ wavClosed' = TRUE
    /\ wavWritten' = wavWritten + Len(data)
    /\ wavBytes' = patchSizes(wavBytes \o data, wavWritten + Len(data))
    /\ wavHeld' = 0
    /\ UNCHANGED <<wavFormat, wavChannels, recorded>>

WavNext ==
    \/ \E n \in 0..MaxWavFrames : \E out \in 0..MaxWavFrames : WriteFrames(n, out)
    \/ CloseWav

WavSpec == WavInit /\ [][WavNext]_wavVars

(***************************************************************************)
(* ReadWAV: the chunks from position 12 on, a size past the end of the     *)
(* file taken for the rest of it, chunks word aligned.                     *)
(***************************************************************************)
bytesAt(bytes, pos, n) == SubSeq(bytes, pos + 1, pos + n)

chunkOf(bytes, pos) ==
    LET said == num32(bytesAt(bytes, pos + 4, 4))
        left == Len(bytes) - pos - 8
    IN  [id |-> bytesAt(bytes, pos, 4), payload |-> bytesAt(bytes, pos + 8, IF said > left THEN left ELSE said)]

nextChunk(pos, size) == pos + 8 + size + (size % 2)

chunksOf(bytes) ==
    LET walk[pos \in 12..(Len(bytes) + 1)] ==
          IF pos + 8 > Len(bytes) THEN <<>>
          ELSE <<chunkOf(bytes, pos)>> \o walk[nextChunk(pos, Len(chunkOf(bytes, pos).payload))]
    IN  walk[12]

lastPayload(bytes, id) == SelectLastInSeq(chunksOf(bytes), LAMBDA c : c.id = id)

realTag(f) == IF num16(bytesAt(f, 0, 2)) = 65534 /\ Len(f) >= 26 THEN num16(bytesAt(f, 24, 2)) ELSE num16(bytesAt(f, 0, 2))

\* wavFromInt, or FromBytes when the width is already that of the format.
decoded(tag, width, payload) ==
    IF tag = 3 \/ width = 2 THEN samplesIn(payload, width)
    ELSE [k \in DOMAIN samplesIn(payload, width) |-> narrowed(samplesIn(payload, width)[k])]

ReadWAV(bytes) ==
    LET f == chunksOf(bytes)[lastPayload(bytes, FMT)].payload
        data == chunksOf(bytes)[lastPayload(bytes, DATA)].payload
        tag == realTag(f)
        width == num16(bytesAt(f, 14, 2)) \div 8
    IN  [format |-> IF tag = 3 THEN "f32" ELSE "s16", channels |-> num16(bytesAt(f, 2, 2)),
         rate |-> num32(bytesAt(f, 4, 4)), samples |-> decoded(tag, width, data)]

(***************************************************************************)
(* A file that was closed reads back as exactly the frames handed to it,   *)
(* the resampler's tail included, and its RIFF size is the file's; another *)
(* encoder's file, with chunks of odd length, an extensible header or a    *)
(* placeholder size, reads as the high bytes of its samples.               *)
(***************************************************************************)
WavReadsBack ==
    wavClosed =>
      /\ lastPayload(wavBytes, FMT) > 0 /\ lastPayload(wavBytes, DATA) > 0
      /\ ReadWAV(wavBytes) = [format |-> wavFormat, channels |-> wavChannels, rate |-> WavRate,
                              samples |-> recorded]
      /\ num32(bytesAt(wavBytes, 4, 4)) = Len(wavBytes) - 8
=============================================================================
