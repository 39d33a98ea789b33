----------------------------- MODULE AudioReader -----------------------------
(***************************************************************************)
(* TrackReader (audio/rtc/reader.go): remote RTP packets, lost, late,      *)
(* duplicated or malformed, turned into a stream of decoded and concealed  *)
(* buffers.  Sequence numbers and timestamps wrap.  A track that carries   *)
(* RED is unwrapped first (module Red).                                    *)
(***************************************************************************)
EXTENDS Integers, Sequences, FiniteSets

CONSTANTS ReadSeqMod,   \* 2^16: sequence numbers
          ReadTsMod,    \* 2^32: timestamps
          FrameTicks,   \* the timestamp's advance over one frame
          FirstSent,    \* where the sender's numbering may start
          MaxConceal,   \* frames concealed in one run
          MaxReadSent       \* bound: packets the sender sends

ASSUME AudioReaderAssumption ==
    /\ ReadSeqMod \in Nat \ {0} /\ ReadSeqMod % 2 = 0 /\ ReadTsMod \in Nat \ {0}
    /\ FrameTicks \in Nat \ {0} /\ MaxConceal \in Nat \ {0} /\ MaxReadSent \in Nat
    /\ FirstSent \subseteq Nat

VARIABLES startSeq,         \* the number of the sender's first packet
          readSent,          \* packets sent so far
          inFlight,      \* packets the network may still deliver
          conceal,       \* concealment is enabled
          expectedSeq, haveSeq, baseTimestamp, haveBase,
          resets,        \* times the decoder's history was discarded
          pcm            \* buffers handed out: [n, pts, kind]

readerVars == <<startSeq, readSent, inFlight, conceal, expectedSeq, haveSeq,
                baseTimestamp, haveBase, resets, pcm>>
fixedVars == <<startSeq, conceal>>

\* What the n-th packet carries on the wire.
seqOf(n) == n % ReadSeqMod
timestampOf(n) == (n * FrameTicks) % ReadTsMod

ReaderInit ==
    /\ startSeq \in FirstSent /\ readSent = 0 /\ inFlight = {}
    /\ conceal \in BOOLEAN
    /\ expectedSeq = 0 /\ haveSeq = FALSE /\ baseTimestamp = 0 /\ haveBase = FALSE
    /\ resets = 0 /\ pcm = <<>>

\* The sender, and a network that delivers packets in any order, more than once
\* or never, but not half a sequence space late.
SendPacket ==
    /\ readSent < MaxReadSent
    /\ readSent' = readSent + 1
    /\ inFlight' = {n \in inFlight \cup {startSeq + readSent} : n + ReadSeqMod \div 2 > startSeq + readSent + 1}
    /\ UNCHANGED <<fixedVars, expectedSeq, haveSeq, baseTimestamp, haveBase, resets, pcm>>

\* Time since the first packet, as ptsOf computes it.
ptsOf(timestamp, base) == (timestamp - base + ReadTsMod) % ReadTsMod

(***************************************************************************)
(* concealGap: count frames that end just before timestamp.  n numbers the *)
(* packets the frames stand for, kind says why they were not decoded.      *)
(***************************************************************************)
capped(count) == IF count > MaxConceal THEN MaxConceal ELSE count

concealGap(count, timestamp, base, n, kind) ==
    IF ~conceal THEN <<>>
    ELSE [j \in 1..capped(count) |->
            LET i == capped(count) + 1 - j IN
            [n |-> n - i, kind |-> kind,
             pts |-> ptsOf((timestamp - i * FrameTicks + i * ReadTsMod) % ReadTsMod, base)]]

\* Mutant: a comparison that does not wrap takes old packets for new ones.
gapOfPlain(s) == IF s >= expectedSeq THEN s - expectedSeq ELSE 0

gapOf(s) == (s - expectedSeq + ReadSeqMod) % ReadSeqMod

tooLate(gap) == gap > ReadSeqMod \div 2

(***************************************************************************)
(* handle: drop what is late, conceal what is missing, decode.  A payload  *)
(* that does not decode is concealed, or ends the stream when concealment  *)
(* is off.                                                                 *)
(***************************************************************************)
handle(n, decodes) ==
    LET s == seqOf(n)  ts == timestampOf(n)
        base == IF haveBase THEN baseTimestamp ELSE ts
        gap == IF haveSeq THEN gapOf(s) ELSE 0
        filled == IF gap > 0 THEN concealGap(gap, ts, base, n, "missing") ELSE <<>>
        heard == IF decodes THEN <<[n |-> n, kind |-> "decoded", pts |-> ptsOf(ts, base)]>>
                 ELSE concealGap(1, ts, base, n + 1, "malformed")
    IN  /\ baseTimestamp' = base /\ haveBase' = TRUE
        /\ IF haveSeq /\ tooLate(gap)
           THEN UNCHANGED <<expectedSeq, haveSeq, resets, pcm>>
           ELSE /\ expectedSeq' = (s + 1) % ReadSeqMod /\ haveSeq' = TRUE
                /\ resets' = IF conceal /\ gap > MaxConceal THEN resets + 1 ELSE resets
                /\ pcm' = pcm \o filled \o heard

ReadPacket(n, decodes) ==
    /\ n \in inFlight
    /\ \E again \in {{}, {n}} : inFlight' = (inFlight \ {n}) \cup again
    /\ handle(n, decodes)
    /\ UNCHANGED <<fixedVars, readSent>>

ReaderNext ==
    \/ SendPacket
    \/ \E n \in inFlight : \E decodes \in BOOLEAN : ReadPacket(n, decodes)

ReaderSpec == ReaderInit /\ [][ReaderNext]_readerVars

(***************************************************************************)
(* The application hears the sender's packets in order and none twice,     *)
(* neither decoded after it was concealed nor the reverse; every decoded   *)
(* buffer, and every one concealed for a missing packet, carries the time  *)
(* of its packet, wrapping with the timestamp; and with concealment on     *)
(* nothing that the sequence numbers show to be missing is left out        *)
(* between two buffers, except by a run longer than MaxConceal, which      *)
(* resets the decoder (they cannot show a run of whole rounds).            *)
(***************************************************************************)
OnTime(frame) == frame.pts = ptsOf(timestampOf(frame.n), baseTimestamp)

Holes == {i \in DOMAIN pcm : i > 1 /\ (pcm[i].n - pcm[i - 1].n - 1) % ReadSeqMod # 0}

AudioInOrder ==
    /\ \A i \in DOMAIN pcm : i > 1 => pcm[i - 1].n < pcm[i].n
    /\ \A i \in DOMAIN pcm : pcm[i].kind # "malformed" => OnTime(pcm[i])
    /\ conceal => Cardinality(Holes) <= resets
=============================================================================
