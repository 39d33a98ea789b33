-------------------------------- MODULE G711 --------------------------------
(***************************************************************************)
(* The G.711 companding laws (audio/g711.go) as functions between 16-bit   *)
(* samples and bytes.  The run picks a law and visits every sample under    *)
(* it, the 16-bit range being divided into blocks.                         *)
(***************************************************************************)
EXTENDS Integers

CONSTANT Block    \* samples of a block: how the run divides the 16-bit range

ASSUME BlockAssumption == Block \in Nat \ {0}

VARIABLES law, pcmSample

companderVars == <<law, pcmSample>>

MinSample == -32768
MaxSample == 32767
Bias == 132
Clip == 32635

CompanderInit == law = "none" /\ pcmSample = MinSample

(***************************************************************************)
(* buildExponentTable: the number of significant bits of the top byte, at  *)
(* most 7, is the segment of a magnitude.                                  *)
(***************************************************************************)
g711Exponent(top) == CHOOSE e \in 0..7 : /\ top < 2^e \/ e = 7
                                         /\ e = 0 \/ top >= 2^(e - 1)

\* Mutant: clipped late, the bias overflows the top segment.
magnitudeUnclipped(s) == IF s = MinSample THEN MaxSample ELSE IF s < 0 THEN -s ELSE s

\* Both encoders negate carefully and clip.
magnitudeOf(s) ==
    LET m == IF s = MinSample THEN MaxSample ELSE IF s < 0 THEN -s ELSE s
    IN  IF m > Clip THEN Clip ELSE m

mantissaOf(m, exponent) == (m \div 2^(exponent + 3)) % 16

\* The byte's seven magnitude bits, before they are inverted for the wire.
encodeMuLaw(s) ==
    LET m == magnitudeOf(s) + Bias
        exponent == g711Exponent((m \div 256) % 256)
    IN  255 - ((IF s < 0 THEN 128 ELSE 0) + 16 * exponent + mantissaOf(m, exponent))

\* Inverting alternate bits: exclusive or with 85 (01010101).
toggle55(b) == LET bit(i) == (b \div 2^i) % 2
                   flip(i) == IF i % 2 = 0 THEN (1 - bit(i)) * 2^i ELSE bit(i) * 2^i
               IN  flip(0) + flip(1) + flip(2) + flip(3) + flip(4) + flip(5) + flip(6) + flip(7)

encodeALaw(s) ==
    LET m == magnitudeOf(s)
        exponent == g711Exponent((m \div 256) % 256)
        encoded == IF m >= 256 THEN 16 * exponent + mantissaOf(m, exponent) ELSE m \div 16
    IN  toggle55((IF s < 0 THEN 0 ELSE 128) + encoded)

decodeMuLaw(b) ==
    LET c == 255 - b
        exponent == (c \div 16) % 8
        m == (8 * (c % 16) + Bias) * 2^exponent - Bias
    IN  IF c >= 128 THEN -m ELSE m

decodeALaw(b) ==
    LET c == toggle55(b)
        exponent == (c \div 16) % 8
        m == IF exponent = 0 THEN 16 * (c % 16) + 8
             ELSE (16 * (c % 16) + 264) * 2^(exponent - 1)
    IN  IF c < 128 THEN -m ELSE m

ToG711(l, s) == IF l = "alaw" THEN encodeALaw(s) ELSE encodeMuLaw(s)
FromG711(l, b) == IF l = "alaw" THEN decodeALaw(b) ELSE decodeMuLaw(b)

FirstSampleOfRun ==
    /\ law = "none" /\ law' \in {"mulaw", "alaw"}
    /\ pcmSample' \in {MinSample + Block * k : k \in 0..(65535 \div Block)}

NextSampleOfRun ==
    /\ law # "none" /\ pcmSample < MaxSample /\ (pcmSample + 1 - MinSample) % Block # 0
    /\ pcmSample' = pcmSample + 1 /\ UNCHANGED law

CompanderNext == FirstSampleOfRun \/ NextSampleOfRun
CompanderSpec == CompanderInit /\ [][CompanderNext]_companderVars

(***************************************************************************)
(* The two directions do not drift apart (the comment at muLawDecode):     *)
(* companding and expanding a sample costs at most half its segment's step *)
(* beyond the clipping, never reorders two samples, keeps the range of an  *)
(* int16, and a second trip through the codec changes nothing more.        *)
(***************************************************************************)
CompandingFaithful == law # "none" =>
    LET trip(s) == FromG711(law, ToG711(law, s))
        clipped == IF pcmSample < 0 THEN -magnitudeOf(pcmSample) ELSE magnitudeOf(pcmSample)
        step == IF law = "mulaw" THEN 2^(g711Exponent(((magnitudeOf(pcmSample) + Bias) \div 256) % 256) + 3)
                ELSE 16 * (IF magnitudeOf(pcmSample) < 512 THEN 1
                           ELSE 2^(g711Exponent(magnitudeOf(pcmSample) \div 256) - 1))
    IN  /\ ToG711(law, pcmSample) \in 0..255
        /\ trip(pcmSample) \in MinSample..MaxSample
        /\ trip(pcmSample) - clipped \in -(step \div 2)..(step \div 2)
        /\ pcmSample < MaxSample => trip(pcmSample) <= trip(pcmSample + 1)
        /\ trip(trip(pcmSample)) = trip(pcmSample)
=============================================================================
