------------------------------ MODULE Resampler ------------------------------
(***************************************************************************)
(* StreamResampler (audio/resample.go): how many frames it has read, where *)
(* its rational cursor is, how many frames it has produced and into which  *)
(* buffers it cuts them, whatever the sizes of the writes.  What a frame   *)
(* sounds like (the kernel's weights) is left out; which input frames the  *)
(* kernel reads is kept.                                                   *)
(***************************************************************************)
EXTENDS Integers, Sequences, SequencesExt

CONSTANTS Shape,       \* what a write may bring: [rate, channels]
          OutRate,
          FrameSize,   \* frames of an emitted buffer; 0 for whatever is ready
          Zeros,       \* sincZeros: reach of the kernel at its full bandwidth
          MaxWrite,    \* bound: frames of one write
          MaxFed       \* bound: frames written in a run

ASSUME ResamplerAssumption ==
    /\ \A s \in Shape : s.rate \in Nat \ {0} /\ s.channels \in Nat \ {0}
    /\ OutRate \in Nat \ {0} /\ Zeros \in Nat \ {0}
    /\ FrameSize \in Nat /\ MaxWrite \in Nat /\ MaxFed \in Nat

VARIABLES shape,      \* the input parameters locked in, or None
          buf,        \* frames in the input buffer
          position,        \* the cursor: [int, frac]
          pending,    \* output frames not yet in a buffer
          emitted,    \* output frames handed out since the last reset
          bufs,       \* lengths of the buffers the last call returned
          fed,        \* input frames since the parameters were locked in
          made,       \* output frames since then
          gone,       \* input frames (with the priming) compacted away since then
          framesWritten,    \* frames written in the whole run
          lastFlush   \* the last stream flushed: its frames in and out

resamplerVars == <<shape, buf, position, pending, emitted, bufs, fed, made, gone, framesWritten, lastFlush>>

None == [rate |-> 0, channels |-> 0]

ResamplerInit ==
    /\ shape = None /\ buf = 0 /\ position = [int |-> 0, frac |-> 0]
    /\ pending = 0 /\ emitted = 0 /\ bufs = <<>>
    /\ fed = 0 /\ made = 0 /\ gone = 0 /\ framesWritten = 0
    /\ lastFlush = [rate |-> OutRate, in |-> 0, out |-> 0]

\* gcd, for the lowest terms of the step.
gcd(a, b) == CHOOSE d \in 1..a : /\ a % d = 0 /\ b % d = 0
                                 /\ \A e \in (d + 1)..a : ~(a % e = 0 /\ b % e = 0)
stepNum(s) == s.rate \div gcd(s.rate, OutRate)
stepDen(s) == OutRate \div gcd(s.rate, OutRate)

\* newSincFilter: the kernel reaches further when it has to filter out what a
\* lower rate cannot carry.  The rolloff is left out.
halfTaps(s) == IF s.rate <= OutRate THEN Zeros ELSE (Zeros * s.rate + OutRate - 1) \div OutRate
filtered(s) == s.rate # OutRate

\* The resampler's fields, as one value that the steps of a call transform.
Fields == [shape |-> shape, buf |-> buf, pos |-> position, pending |-> pending,
           emitted |-> emitted, fed |-> fed, made |-> made, gone |-> gone, out |-> <<>>]

(***************************************************************************)
(* configure: lock in the parameters and prime the filter with silence.    *)
(***************************************************************************)
configure(r, s) ==
    LET primed == IF filtered(s) THEN halfTaps(s) ELSE 0 IN
    [r EXCEPT !.shape = s, !.buf = primed, !.pos = [int |-> primed, frac |-> 0],
              !.pending = 0, !.fed = 0, !.made = 0, !.gone = 0]

feed(r, n) == [r EXCEPT !.buf = @ + n, !.fed = @ + n]

\* Mutant: a cursor kept as a whole number loses the fraction at every step.
advanceRounded(p, s) == [int |-> p.int + (stepNum(s) + stepDen(s) - 1) \div stepDen(s), frac |-> 0]

advance(p, s) ==
    LET frac == p.frac + stepNum(s)
    IN  [int |-> p.int + frac \div stepDen(s), frac |-> frac % stepDen(s)]

(***************************************************************************)
(* produce: an output frame for every cursor position whose kernel lies in *)
(* the buffer, then drop the frames the filter cannot reach back to.       *)
(***************************************************************************)
outputs(r) ==
    LET s == r.shape
        loop[c \in [pos : [int : Nat, frac : Nat], made : Nat]] ==
            IF c.pos.int + halfTaps(s) < r.buf
            THEN loop[[pos |-> advance(c.pos, s), made |-> c.made + 1]]
            ELSE c
    IN  loop[[pos |-> r.pos, made |-> 0]]

produce(r) ==
    IF ~filtered(r.shape)
    THEN [r EXCEPT !.pending = @ + r.buf, !.made = @ + r.buf, !.gone = @ + r.buf, !.buf = 0]
    ELSE LET end == outputs(r)
             reach == end.pos.int - halfTaps(r.shape) + 1
             keep == IF reach > 0 THEN reach ELSE 0
         IN  [r EXCEPT !.pending = @ + end.made, !.made = @ + end.made,
                       !.pos = [int |-> end.pos.int - keep, frac |-> end.pos.frac],
                       !.buf = @ - keep, !.gone = @ + keep]

(***************************************************************************)
(* collect: cut what is pending into buffers; a partial one only at the    *)
(* end of a stream.                                                        *)
(***************************************************************************)
collect(r, final) ==
    LET size == IF FrameSize = 0 THEN r.pending ELSE FrameSize
        whole == IF r.pending = 0 THEN 0 ELSE r.pending \div size
        rest == r.pending - whole * size
        cut == [i \in 1..whole |-> size] \o (IF final /\ rest > 0 THEN <<rest>> ELSE <<>>)
        taken == IF final THEN r.pending ELSE whole * size
    IN  [r EXCEPT !.pending = @ - taken, !.emitted = @ + taken, !.out = @ \o cut]

(***************************************************************************)
(* Flush: run the filter past the last frame, hand everything out, reset.  *)
(***************************************************************************)
drained(r) ==
    collect(produce([r EXCEPT !.buf = @ + (IF filtered(r.shape) THEN halfTaps(r.shape) ELSE 0)]), TRUE)

reset(r) == [r EXCEPT !.shape = None, !.buf = 0, !.pending = 0, !.emitted = 0,
                      !.pos = [int |-> 0, frac |-> 0], !.fed = 0, !.made = 0, !.gone = 0]

becomes(r) ==
    /\ shape' = r.shape /\ buf' = r.buf /\ position' = r.pos /\ pending' = r.pending
    /\ emitted' = r.emitted /\ fed' = r.fed /\ made' = r.made /\ gone' = r.gone
    /\ bufs' = r.out

flushedStream(r) == [rate |-> r.shape.rate, in |-> r.fed, out |-> r.made]

\* Write; a stream that changes shape is drained and started over.
ResamplerWrite(n, s) ==
    LET changed == shape # None /\ shape # s
        old == IF changed THEN drained(Fields) ELSE Fields
        ready == IF changed \/ shape = None
                 THEN configure(IF changed THEN reset(old) ELSE old, s) ELSE old
    IN  /\ framesWritten + n <= MaxFed
        /\ framesWritten' = framesWritten + n
        /\ becomes(collect(produce(feed(ready, n)), FALSE))
        /\ lastFlush' = IF changed THEN flushedStream(old) ELSE lastFlush

ResamplerFlush ==
    /\ shape # None
    /\ LET r == drained(Fields) IN
         /\ becomes(reset(r))
         /\ lastFlush' = flushedStream(r)
    /\ UNCHANGED framesWritten

ResamplerReset ==
    /\ shape # None
    /\ becomes(reset(Fields))
    /\ UNCHANGED <<framesWritten, lastFlush>>

ResamplerNext ==
    \/ \E n \in 1..MaxWrite : \E s \in Shape : ResamplerWrite(n, s)
    \/ ResamplerFlush
    \/ ResamplerReset

ResamplerSpec == ResamplerInit /\ [][ResamplerNext]_resamplerVars

(***************************************************************************)
(* However a stream is cut into writes, its output is the one of a single  *)
(* write: the cursor is exactly made * stepNum / stepDen input frames past *)
(* the start, every output frame the buffer allows has been made, a        *)
(* flushed stream has given the number of frames its duration asks for     *)
(* (Write and Flush: the change of shape "costs a filter reset but no      *)
(* samples"), and the kernel never reads outside the buffer.               *)
(***************************************************************************)
ResampledExactly ==
    /\ shape # None /\ filtered(shape) =>
         LET num == stepNum(shape)  den == stepDen(shape)  h == halfTaps(shape) IN
         /\ (gone + position.int - h) * den + position.frac = made * num
         /\ (made * num) \div den + h >= fed
         /\ made > 0 => ((made - 1) * num) \div den + h < fed
         /\ position.int - h + 1 >= 0 /\ buf >= 0 /\ gone + buf = fed + h
    /\ shape # None /\ ~filtered(shape) => made = fed /\ buf = 0
    /\ lastFlush.out * lastFlush.rate >= lastFlush.in * OutRate
    /\ (lastFlush.out - 1) * lastFlush.rate < lastFlush.in * OutRate
    /\ shape # None => emitted + pending = made
    /\ FrameSize > 0 => pending < FrameSize
=============================================================================
