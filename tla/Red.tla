-------------------------------- MODULE Red ---------------------------------
(***************************************************************************)
(* RFC 2198 redundancy for Opus: the packetizer that repeats earlier       *)
(* frames, a network that loses, duplicates and reorders, and the decoder  *)
(* that recovers what never arrived.  A RED payload is its block headers,  *)
(* up to the one without the follow bit, and then its bytes; a byte is     *)
(* named by the packet it was encoded for and its place there.             *)
(***************************************************************************)
EXTENDS Integers, Sequences, FiniteSets, SequencesExt

CONSTANTS
    RedWidth,        \* bits of a sequence number
    TsWidth,         \* bits of a timestamp
    Distance,        \* frames each packet repeats
    MaxOffset,       \* largest timestamp offset of a block header
    MaxBlock,        \* largest length of a block header
    MaxSize,         \* largest RED payload
    HeaderSize,      \* bytes of a redundant block's header; the primary one's is 1
    Window,          \* sequence numbers the decoder remembers
    Lengths,         \* sizes of the Opus frames
    Steps,           \* timestamp steps: one frame, or more after SkipSamples
    MaxSent,         \* bound on the packets sent
    MaxDuplicates    \* bound on the duplicates the network makes

ASSUME RedAssumption ==
    /\ RedWidth \in Nat \ {0} /\ TsWidth \in Nat /\ Distance \in Nat
    /\ MaxOffset \in Nat /\ MaxBlock \in Nat /\ Lengths \subseteq Nat /\ Steps \subseteq Nat
    /\ MaxSent \in Nat
    /\ Window \in 1 .. 2^(RedWidth - 1) /\ Distance < Window

\* Powers of two, for the provers, which do not know them.
ASSUME RedPowers ==
    /\ 2^(RedWidth - 1) \in Nat \ {0} /\ 2^RedWidth = 2 * 2^(RedWidth - 1)
    /\ 2^TsWidth \in Nat \ {0}

redDiff(a, b) == (a - b) % 2^RedWidth
tsDiff(a, b) == (a - b) % 2^TsWidth

VARIABLES
    sent,        \* history: every packet sent, by the order of sending
    history,     \* Encoder.history
    next,        \* the inner packetizer's next sequence number and timestamp
    network,     \* packets under way
    duplicates,  \* duplicates the network may still make
    decoder,     \* Decoder
    redOut,         \* history: the packets handed out
    twice,       \* history: those handed out again while the decoder remembers them
    owed         \* history: those some packet that came out has repeated

gotVars == <<redOut, twice, owed>>
redVars == <<sent, history, next, network, duplicates, decoder, gotVars>>

\* The bytes of the frame encoded n-th.
Bytes(n, len) == [i \in 1 .. len |-> <<n, i>>]

-----------------------------------------------------------------------------
(* The wire format. *)

\* What a block header can describe.
fitsHeader(pkt, f) == tsDiff(pkt.ts, f.ts) <= MaxOffset /\ Len(f.payload) <= MaxBlock

\* Mutant: frames before a gap are repeated too.
precedingAny(hist, pkt) ==
    LET ok(i) == \A j \in i .. Len(hist) : fitsHeader(pkt, hist[j])
    IN  SelectInSeq([i \in 1 .. Len(hist) |-> ok(i)], LAMBDA b : b)

\* Encoder.precedingRun: where the run of frames directly before pkt begins, 0
\* for none.
precedingRun(hist, pkt) ==
    LET back(i) == Len(hist) - i + 1
        ok(i) == \A j \in i .. Len(hist) :
                    /\ back(j) <= Distance
                    /\ redDiff(pkt.seq, hist[j].seq) = back(j)
                    /\ fitsHeader(pkt, hist[j])
    IN  SelectInSeq([i \in 1 .. Len(hist) |-> ok(i)], LAMBDA b : b)

\* Bytes of a RED payload that repeats frames.
sizeOf(pkt, frames) ==
    1 + Len(pkt.payload) + HeaderSize * Len(frames) + Len(FlattenSeq([i \in 1 .. Len(frames) |-> frames[i].payload]))

\* Redundancy past MaxSize is dropped, oldest first.
repeated(hist, pkt) ==
    LET from == precedingRun(hist, pkt)
        run == IF from = 0 THEN <<>> ELSE SubSeq(hist, from, Len(hist))
        cuts == {n \in 0 .. Len(run) : n = Len(run) \/ sizeOf(pkt, SubSeq(run, n + 1, Len(run))) <= MaxSize}
    IN  SubSeq(run, 1 + CHOOSE n \in cuts : \A m \in cuts : n <= m, Len(run))

\* Encoder.Encode: the headers hold an offset and a length of limited widths.
Encode(hist, pkt) ==
    LET frames == repeated(hist, pkt)
    IN  [headers |-> [i \in 1 .. Len(frames) |->
                        [off |-> tsDiff(pkt.ts, frames[i].ts) % (MaxOffset + 1),
                         len |-> Len(frames[i].payload) % (MaxBlock + 1)]],
         bytes |-> FlattenSeq([i \in 1 .. Len(frames) |-> frames[i].payload]) \o pkt.payload]

\* Encoder.remember.
remember(hist, pkt) ==
    IF Distance = 0 THEN hist
    ELSE Append(IF Len(hist) = Distance THEN Tail(hist) ELSE hist, pkt)

\* parse: the redundant blocks, oldest first, and the primary one.
parse(payload) ==
    LET h == payload.headers
        end[i \in 0 .. Len(h)] == IF i = 0 THEN 0 ELSE end[i - 1] + h[i].len
    IN  [redundant |-> [i \in 1 .. Len(h) |->
                          [off |-> h[i].off, payload |-> SubSeq(payload.bytes, end[i - 1] + 1, end[i])]],
         primary |-> SubSeq(payload.bytes, end[Len(h)] + 1, Len(payload.bytes))]

-----------------------------------------------------------------------------
(* The sender. *)

NewDecoder == [started |-> FALSE, newest |-> 0, seen |-> {}]

RedInit ==
    /\ sent = <<>> /\ history = <<>>
    /\ next \in [seq : {0, 2^RedWidth - 1}, ts : {0}]
    /\ network = {} /\ duplicates = MaxDuplicates
    /\ decoder = NewDecoder /\ redOut = {} /\ twice = {} /\ owed = {}

\* Packetize; the inner packetizer numbers the packets.
Packetize(len, step) ==
    /\ Len(sent) < MaxSent
    /\ LET pkt == [seq |-> next.seq, ts |-> next.ts, payload |-> Bytes(Len(sent) + 1, len)]
           red == [id |-> Len(sent) + 1, seq |-> pkt.seq, ts |-> pkt.ts, wire |-> Encode(history, pkt)]
       IN  /\ sent' = Append(sent, pkt)
           /\ history' = remember(history, pkt)
           /\ network' = network \cup {red}
           /\ next' = [seq |-> (next.seq + 1) % 2^RedWidth, ts |-> (next.ts + step) % 2^TsWidth]
    /\ UNCHANGED <<duplicates, decoder, gotVars>>

\* GeneratePadding takes a sequence number and is neither wrapped nor repeated;
\* it has no payload, and the decoder refuses it.
GeneratePadding ==
    /\ Len(sent) < MaxSent
    /\ sent' = Append(sent, [seq |-> next.seq, ts |-> next.ts, payload |-> <<>>])
    /\ next' = [next EXCEPT !.seq = (@ + 1) % 2^RedWidth]
    /\ UNCHANGED <<history, network, duplicates, decoder, gotVars>>

-----------------------------------------------------------------------------
(* The decoder. *)

\* Decoder.markSeen; bit i of seen is the newest minus i.
markSeen(d, s) ==
    LET ahead == redDiff(s, d.newest)
        back == redDiff(d.newest, s)
    IN  IF ahead \in 1 .. 2^(RedWidth - 1) - 1
        THEN [new |-> TRUE,
              d |-> [d EXCEPT !.newest = s,
                              !.seen = {i + ahead : i \in {j \in @ : j + ahead < Window}} \cup {0}]]
        ELSE IF back >= Window THEN [new |-> TRUE, d |-> d]
        ELSE [new |-> back \notin d.seen, d |-> [d EXCEPT !.seen = @ \cup {back}]]

\* The packets the redundant blocks stand for (carried).
recovered(pkt) ==
    LET blocks == parse(pkt.wire).redundant
    IN  [i \in 1 .. Len(blocks) |->
           [seq |-> (pkt.seq - (Len(blocks) - i + 1)) % 2^RedWidth,
            ts |-> tsDiff(pkt.ts, blocks[i].off), payload |-> blocks[i].payload]]

\* The new ones among packets, and the decoder after it.
taken(d, packets) ==
    LET upTo[i \in 0 .. Len(packets)] ==
          IF i = 0 THEN [d |-> d, out |-> <<>>]
          ELSE LET acc == upTo[i - 1]
                   m == markSeen(acc.d, packets[i].seq)
               IN  [d |-> m.d, out |-> IF m.new THEN Append(acc.out, packets[i]) ELSE acc.out]
    IN  upTo[Len(packets)]

\* Decoder.Decode after parse: the packets handed out, and the decoder after it.
Decode(d, pkt) ==
    LET first == markSeen(IF d.started THEN d ELSE [started |-> TRUE, newest |-> pkt.seq, seen |-> {}], pkt.seq)
        primary == [seq |-> pkt.seq, ts |-> pkt.ts, payload |-> parse(pkt.wire).primary]
        rest == taken(first.d, IF d.started THEN recovered(pkt) ELSE <<>>)
    IN  IF first.new THEN [d |-> rest.d, out |-> Append(rest.out, primary)]
        ELSE [d |-> first.d, out |-> <<>>]

\* A packet arrives, once or again.
Arrive(pkt) ==
    /\ pkt \in network
    /\ LET res == Decode(decoder, pkt)
           got == Range(res.out)
       IN  /\ decoder' = res.d /\ redOut' = redOut \cup got
           /\ twice' = twice \cup {p \in got \cap redOut : redDiff(res.d.newest, p.seq) < Window}
           /\ owed' = owed \cup {n \in 1 .. pkt.id - 1 :
                                   got # {} /\ decoder.started /\ n >= pkt.id - Len(pkt.wire.headers)}
    /\ \/ network' = network \ {pkt} /\ UNCHANGED duplicates
       \/ duplicates > 0 /\ duplicates' = duplicates - 1 /\ UNCHANGED network
    /\ UNCHANGED <<sent, history, next>>

Lose(pkt) ==
    /\ pkt \in network /\ network' = network \ {pkt}
    /\ UNCHANGED <<sent, history, next, duplicates, decoder, gotVars>>

RedNext ==
    \/ \E len \in Lengths, step \in Steps : Packetize(len, step)
    \/ GeneratePadding
    \/ \E pkt \in network : Arrive(pkt) \/ Lose(pkt)

RedSpec == RedInit /\ [][RedNext]_redVars

-----------------------------------------------------------------------------
\* Whatever is lost, reordered or skipped, a packet handed out, recovered or not,
\* is exactly a packet that was sent: its sequence number, timestamp and bytes.
RecoveredFaithfully == redOut \subseteq Range(sent)

\* "Every sequence number comes out at most once", under any reordering and
\* duplication, until it is older than the window the decoder remembers.
OutAtMostOnce == twice = {}

\* Nothing that can be recovered is missing: once a packet has come out, so has
\* every frame it repeats.  Only the first packet's redundancy is left alone.
RecoverableComesOut == \A n \in owed : sent[n] \in redOut

\* The decoder gives back what was sent: all it can, faithfully, and once.
RedLossless == RecoveredFaithfully /\ OutAtMostOnce /\ RecoverableComesOut
=============================================================================
