----------------------------- MODULE AudioProofs -----------------------------
(***************************************************************************)
(* Proofs about the audio package: AudioWriter, for any frame length, any  *)
(* cap of the queue and any sizes of the writes; PcmBuffer, for any frame  *)
(* size and cuts; Resampler, for any rates, filter length and input.  The  *)
(* lemmas on remainders, quotients and least elements are MediaProofs'.    *)
(***************************************************************************)
EXTENDS MediaProofs, AudioWriter, PcmBuffer, Resampler

(***************************************************************************)
(* AudioWriter.                                                            *)
(***************************************************************************)

QueuedFrame == [samples : Seq(Nat), level : Nat]

\* Frames start in the order of the queue, and the carried samples come last.
StartsInOrder(q, end) ==
    \A i, j \in 1 .. Len(q) + 1 : i <= j => startIn(q, end, i) <= startIn(q, end, j)

\* Nothing that waits is as old as sample a or b.
StartsAfter(q, end, a, b) ==
    \A i \in 1 .. Len(q) + 1 : startIn(q, end, i) > a /\ startIn(q, end, i) > b

LevelsMeasured(q) ==
    \A i \in 1 .. Len(q) : Len(q[i].samples) = frameSamples =>
        q[i].level - q[i].samples[1] \in 0 .. (frameSamples - 1)

\* What a queue promises that ends before sample `end' and holds nothing up to a and b.
Waits(q, end, a, b) ==
    /\ q \in Seq(QueuedFrame) /\ NoHole(q, end) /\ StartsInOrder(q, end)
    /\ StartsAfter(q, end, a, b) /\ LevelsMeasured(q)

lastHanded == IF handed.samples = <<>> THEN 0 ELSE Last(handed.samples)

AudioWriterTypeOK ==
    /\ written \in Nat /\ carried \in Seq(Nat) /\ writerClosed \in BOOLEAN
    /\ level \in Nat /\ popped \in Nat \cup {NotPopped}
    /\ handed \in [samples : Seq(Nat), after : Nat, previous : Nat]
    /\ cleared \in Nat /\ clears \in Nat

WriterInv ==
    /\ AudioWriterTypeOK
    /\ Len(carried) < frameSamples /\ Len(carried) <= written
    /\ \A j \in 1 .. Len(carried) : carried[j] = carriedFrom + j - 1
    /\ Waits(queue, carriedFrom, cleared, lastHanded)
    /\ Len(queue) <= maxFrames
    /\ \A i \in 1 .. Len(handed.samples) :
         handed.samples[i] > handed.previous /\ handed.samples[i] > handed.after

-----------------------------------------------------------------------------
\* A queued frame's fields have their types.
LEMMA QueuedFrameOf ==
    ASSUME NEW q \in Seq(QueuedFrame), NEW i \in 1 .. Len(q)
    PROVE  q[i] \in QueuedFrame /\ q[i].samples \in Seq(Nat) /\ Len(q[i].samples) \in Nat /\ q[i].level \in Nat
<1>1. q[i] \in QueuedFrame
  BY ElementOfSeq
<1>2. q[i].samples \in Seq(Nat) /\ q[i].level \in Nat
  BY <1>1 DEF QueuedFrame
<1> QED
  BY <1>1, <1>2, LenProperties

\* Whether a sample starts a frame or follows the queue, it is a number.
LEMMA StartIsNumber ==
    ASSUME NEW q \in Seq(QueuedFrame), NEW end \in Nat, NoHole(q, end), NEW i \in 1 .. Len(q) + 1
    PROVE  startIn(q, end, i) \in Nat
<1>0. Len(q) \in Nat
  OBVIOUS
<1>1. CASE i <= Len(q)
  <2>1. i \in 1 .. Len(q) /\ i \in DOMAIN q
    BY <1>0, <1>1
  <2>2. q[i].samples # <<>>
    BY <2>1 DEF NoHole
  <2>3. q[i].samples \in Seq(Nat)
    BY <2>1, QueuedFrameOf
  <2>4. Len(q[i].samples) \in Nat /\ Len(q[i].samples) # 0
    BY <2>2, <2>3, EmptySeq
  <2>5. q[i].samples[1] \in Nat
    BY <2>3, <2>4, ElementOfSeq
  <2> QED
    BY <1>1, <2>5 DEF startIn
<1>2. CASE ~(i <= Len(q))
  BY <1>2 DEF startIn
<1> QED
  BY <1>1, <1>2

\* trim drops the oldest frames: what is left waits as it did.
LEMMA TrimWaits ==
    ASSUME NEW q, NEW end \in Nat, NEW a \in Nat, NEW b \in Nat, Waits(q, end, a, b)
    PROVE  Waits(trim(q), end, a, b) /\ Len(trim(q)) <= maxFrames
<1>0. q \in Seq(QueuedFrame) /\ Len(q) \in Nat /\ maxFrames \in Nat \ {0}
  BY AudioWriterAssumption DEF Waits
<1>1. CASE ~(Len(q) > maxFrames)
  BY <1>0, <1>1 DEF trim
<1>2. CASE Len(q) > maxFrames
  <2>1. PICK d \in Nat : d = Len(q) - maxFrames
    BY <1>0, <1>2
  <2>2. PICK t : t = SubSeq(q, d + 1, Len(q))
    OBVIOUS
  <2>3. trim(q) = t
    BY <1>2, <2>1, <2>2 DEF trim
  <2>4. /\ t \in Seq(QueuedFrame) /\ Len(t) = maxFrames
        /\ \A i \in 1 .. maxFrames : t[i] = q[d + i]
    <3>1. d + 1 \in 1 .. Len(q) + 1 /\ Len(q) \in d .. Len(q) /\ Len(q) - (d + 1) + 1 = maxFrames
      BY <1>0, <1>2, <2>1
    <3>2. SubSeq(q, d + 1, Len(q)) \in Seq(QueuedFrame)
      BY <1>0, <2>1
    <3>3. Len(SubSeq(q, d + 1, Len(q))) = maxFrames
      BY <1>0, <2>1
    <3>4. \A i \in 1 .. maxFrames : SubSeq(q, d + 1, Len(q))[i] = q[d + i]
      BY <1>0, <2>1
    <3> QED
      BY <2>2, <3>2, <3>3, <3>4
  <2>5. \A i \in 1 .. maxFrames + 1 : startIn(t, end, i) = startIn(q, end, d + i)
    BY <1>0, <2>1, <2>4 DEF startIn
  <2>6. \A i \in 1 .. maxFrames + 1 : d + i \in 1 .. Len(q) + 1
    BY <1>0, <2>1
  <2>7. NoHole(t, end)
    <3> SUFFICES ASSUME NEW i \in 1 .. maxFrames
                 PROVE  /\ t[i].samples # <<>>
                        /\ \A j \in DOMAIN t[i].samples : t[i].samples[j] = startIn(t, end, i) + j - 1
                        /\ startIn(t, end, i + 1) = startIn(t, end, i) + Len(t[i].samples)
      BY <2>4 DEF NoHole
    <3>1. d + i \in DOMAIN q /\ t[i] = q[d + i] /\ i \in 1 .. maxFrames + 1 /\ i + 1 \in 1 .. maxFrames + 1
      BY <1>0, <2>1, <2>4
    <3>2. startIn(t, end, i) = startIn(q, end, d + i) /\ startIn(t, end, i + 1) = startIn(q, end, (d + i) + 1)
      <4>1. d + (i + 1) = (d + i) + 1
        BY <2>1
      <4> QED
        BY <2>5, <3>1, <4>1
    <3>3. /\ q[d + i].samples # <<>>
          /\ \A j \in DOMAIN q[d + i].samples : q[d + i].samples[j] = startIn(q, end, d + i) + j - 1
          /\ startIn(q, end, (d + i) + 1) = startIn(q, end, d + i) + Len(q[d + i].samples)
      BY <3>1 DEF Waits, NoHole
    <3> QED
      BY <3>1, <3>2, <3>3
  <2>8. StartsInOrder(t, end)
    <3> SUFFICES ASSUME NEW i \in 1 .. maxFrames + 1, NEW j \in 1 .. maxFrames + 1, i <= j
                 PROVE  startIn(t, end, i) <= startIn(t, end, j)
      BY <2>4 DEF StartsInOrder
    <3>1. d + i \in 1 .. Len(q) + 1 /\ d + j \in 1 .. Len(q) + 1 /\ d + i <= d + j
      BY <1>0, <2>1, <2>6
    <3>2. startIn(q, end, d + i) <= startIn(q, end, d + j)
      BY <3>1 DEF Waits, StartsInOrder
    <3> QED
      BY <2>5, <3>2
  <2>9. StartsAfter(t, end, a, b)
    <3> SUFFICES ASSUME NEW i \in 1 .. maxFrames + 1
                 PROVE  startIn(t, end, i) > a /\ startIn(t, end, i) > b
      BY <2>4 DEF StartsAfter
    <3>1. startIn(q, end, d + i) > a /\ startIn(q, end, d + i) > b
      BY <2>6 DEF Waits, StartsAfter
    <3> QED
      BY <2>5, <3>1
  <2>10. LevelsMeasured(t)
    <3>1. \A i \in 1 .. maxFrames : d + i \in 1 .. Len(q)
      BY <1>0, <2>1
    <3> QED
      BY <2>4, <3>1 DEF Waits, LevelsMeasured
  <2> QED
    BY <1>0, <2>3, <2>4, <2>7, <2>8, <2>9, <2>10 DEF Waits
<1> QED
  BY <1>1, <1>2


\* Frames that start where a queue ends wait behind it.
LEMMA ConcatWaits ==
    ASSUME NEW q, NEW r, NEW end \in Nat, NEW mid \in Nat, NEW a \in Nat, NEW b \in Nat,
           Waits(q, mid, a, b), Waits(r, end, a, b), startIn(r, end, 1) = mid
    PROVE  Waits(q \o r, end, a, b)
<1>0. /\ q \in Seq(QueuedFrame) /\ Len(q) \in Nat /\ r \in Seq(QueuedFrame) /\ Len(r) \in Nat
      /\ NoHole(q, mid) /\ NoHole(r, end)
  BY DEF Waits
<1>1. PICK c : c = q \o r
  OBVIOUS
<1>2. c \in Seq(QueuedFrame) /\ Len(c) = Len(q) + Len(r)
  BY <1>0, <1>1
<1>3. \A i \in 1 .. Len(q) : c[i] = q[i]
  BY <1>0, <1>1
<1>4. \A i \in 1 .. Len(r) : c[Len(q) + i] = r[i]
  BY <1>0, <1>1
<1>5. \A i \in 1 .. Len(q) + 1 : startIn(c, end, i) = startIn(q, mid, i)
  <2> SUFFICES ASSUME NEW i \in 1 .. Len(q) + 1 PROVE startIn(c, end, i) = startIn(q, mid, i)
    OBVIOUS
  <2>1. CASE i <= Len(q)
    <3>1. i \in 1 .. Len(q) /\ i <= Len(c)
      BY <1>0, <1>2, <2>1
    <3> QED
      BY <2>1, <3>1, <1>3 DEF startIn
  <2>2. CASE i = Len(q) + 1
    <3>1. startIn(q, mid, i) = mid
      BY <1>0, <2>2 DEF startIn
    <3>2. CASE Len(r) = 0
      <4>1. startIn(c, end, i) = end
        BY <1>0, <1>2, <2>2, <3>2 DEF startIn
      <4>2. startIn(r, end, 1) = end
        BY <3>2 DEF startIn
      <4> QED
        BY <3>1, <4>1, <4>2
    <3>3. CASE Len(r) # 0
      <4>1. c[i] = r[1] /\ i <= Len(c) /\ 1 <= Len(r)
        BY <1>0, <1>2, <1>4, <2>2, <3>3
      <4> QED
        BY <3>1, <4>1 DEF startIn
    <3> QED
      BY <3>2, <3>3
  <2> QED
    BY <1>0, <2>1, <2>2
<1>6. \A i \in 1 .. Len(r) + 1 : startIn(c, end, Len(q) + i) = startIn(r, end, i)
  <2> SUFFICES ASSUME NEW i \in 1 .. Len(r) + 1 PROVE startIn(c, end, Len(q) + i) = startIn(r, end, i)
    OBVIOUS
  <2>1. CASE i <= Len(r)
    <3>1. i \in 1 .. Len(r) /\ Len(q) + i <= Len(c)
      BY <1>0, <1>2, <2>1
    <3> QED
      BY <2>1, <3>1, <1>4 DEF startIn
  <2>2. CASE ~(i <= Len(r))
    <3>1. ~(Len(q) + i <= Len(c))
      BY <1>0, <1>2, <2>2
    <3> QED
      BY <2>2, <3>1 DEF startIn
  <2> QED
    BY <2>1, <2>2
\* A place in the whole is one in q, or one in r and the end.
<1>7. \A i \in 1 .. Len(c) + 1 : i \in 1 .. Len(q) \/ \E k \in 1 .. Len(r) + 1 : i = Len(q) + k
  <2> SUFFICES ASSUME NEW i \in 1 .. Len(c) + 1, i \notin 1 .. Len(q)
               PROVE  \E k \in 1 .. Len(r) + 1 : i = Len(q) + k
    OBVIOUS
  <2>1. i - Len(q) \in 1 .. Len(r) + 1 /\ i = Len(q) + (i - Len(q))
    BY <1>0, <1>2
  <2> QED
    BY <2>1
<1>8. NoHole(c, end)
  <2> SUFFICES ASSUME NEW i \in 1 .. Len(c)
               PROVE  /\ c[i].samples # <<>>
                      /\ \A j \in DOMAIN c[i].samples : c[i].samples[j] = startIn(c, end, i) + j - 1
                      /\ startIn(c, end, i + 1) = startIn(c, end, i) + Len(c[i].samples)
    BY <1>2 DEF NoHole
  <2>1. CASE i \in 1 .. Len(q)
    <3>1. i \in DOMAIN q /\ i \in 1 .. Len(q) + 1 /\ i + 1 \in 1 .. Len(q) + 1
      BY <1>0, <2>1
    <3>2. c[i] = q[i] /\ startIn(c, end, i) = startIn(q, mid, i) /\ startIn(c, end, i + 1) = startIn(q, mid, i + 1)
      BY <1>3, <1>5, <2>1, <3>1
    <3>3. /\ q[i].samples # <<>>
          /\ \A j \in DOMAIN q[i].samples : q[i].samples[j] = startIn(q, mid, i) + j - 1
          /\ startIn(q, mid, i + 1) = startIn(q, mid, i) + Len(q[i].samples)
      BY <1>0, <3>1 DEF NoHole
    <3> QED
      BY <3>2, <3>3
  <2>2. CASE i \notin 1 .. Len(q)
    <3>1. PICK k \in 1 .. Len(r) : i = Len(q) + k
      <4>1. i - Len(q) \in 1 .. Len(r) /\ i = Len(q) + (i - Len(q))
        BY <1>0, <1>2, <2>2
      <4> QED
        BY <4>1
    <3>2. k \in DOMAIN r /\ k \in 1 .. Len(r) + 1 /\ k + 1 \in 1 .. Len(r) + 1 /\ i + 1 = Len(q) + (k + 1)
      BY <1>0, <3>1
    <3>3. c[i] = r[k] /\ startIn(c, end, i) = startIn(r, end, k) /\ startIn(c, end, i + 1) = startIn(r, end, k + 1)
      BY <1>4, <1>6, <3>1, <3>2
    <3>4. /\ r[k].samples # <<>>
          /\ \A j \in DOMAIN r[k].samples : r[k].samples[j] = startIn(r, end, k) + j - 1
          /\ startIn(r, end, k + 1) = startIn(r, end, k) + Len(r[k].samples)
      BY <1>0, <3>2 DEF NoHole
    <3> QED
      BY <3>3, <3>4
  <2> QED
    BY <2>1, <2>2
<1>9. StartsInOrder(c, end)
  <2> SUFFICES ASSUME NEW i \in 1 .. Len(c) + 1, NEW j \in 1 .. Len(c) + 1, i <= j
               PROVE  startIn(c, end, i) <= startIn(c, end, j)
    BY DEF StartsInOrder
  <2>1. CASE j \in 1 .. Len(q)
    <3>1. i \in 1 .. Len(q) + 1 /\ j \in 1 .. Len(q) + 1
      BY <1>0, <2>1
    <3>2. startIn(q, mid, i) <= startIn(q, mid, j)
      BY <3>1 DEF Waits, StartsInOrder
    <3> QED
      BY <1>5, <3>1, <3>2
  <2>2. CASE j \notin 1 .. Len(q)
    <3>1. PICK k \in 1 .. Len(r) + 1 : j = Len(q) + k
      BY <1>7, <2>2
    <3>2. startIn(c, end, j) = startIn(r, end, k)
      BY <1>6, <3>1
    <3>3. startIn(r, end, 1) \in Nat /\ startIn(r, end, k) \in Nat /\ startIn(r, end, 1) <= startIn(r, end, k)
      <4>1. 1 \in 1 .. Len(r) + 1 /\ 1 <= k
        BY <1>0
      <4>2. startIn(r, end, 1) <= startIn(r, end, k)
        BY <4>1 DEF Waits, StartsInOrder
      <4> QED
        BY <1>0, <4>1, <4>2, StartIsNumber
    <3>4. CASE i \in 1 .. Len(q)
      <4>1. i \in 1 .. Len(q) + 1 /\ Len(q) + 1 \in 1 .. Len(q) + 1 /\ i <= Len(q) + 1
        BY <1>0, <3>4
      <4>2. startIn(q, mid, i) <= startIn(q, mid, Len(q) + 1) /\ startIn(q, mid, i) \in Nat
        BY <1>0, <4>1, StartIsNumber DEF Waits, StartsInOrder
      <4>3. startIn(q, mid, Len(q) + 1) = mid
        BY <1>0 DEF startIn
      <4>4. startIn(c, end, i) = startIn(q, mid, i)
        BY <1>5, <4>1
      <4> QED
        BY <3>2, <3>3, <4>2, <4>3, <4>4
    <3>5. CASE i \notin 1 .. Len(q)
      <4>1. PICK m \in 1 .. Len(r) + 1 : i = Len(q) + m
        BY <1>7, <3>5
      <4>2. m <= k
        BY <1>0, <3>1, <4>1
      <4>3. startIn(r, end, m) <= startIn(r, end, k)
        BY <4>2 DEF Waits, StartsInOrder
      <4> QED
        BY <1>6, <3>2, <4>1, <4>3
    <3> QED
      BY <3>4, <3>5
  <2> QED
    BY <2>1, <2>2
<1>10. StartsAfter(c, end, a, b)
  <2> SUFFICES ASSUME NEW i \in 1 .. Len(c) + 1
               PROVE  startIn(c, end, i) > a /\ startIn(c, end, i) > b
    BY DEF StartsAfter
  <2>1. CASE i \in 1 .. Len(q)
    <3>1. i \in 1 .. Len(q) + 1
      BY <1>0, <2>1
    <3> QED
      BY <1>5, <3>1 DEF Waits, StartsAfter
  <2>2. CASE i \notin 1 .. Len(q)
    <3>1. PICK k \in 1 .. Len(r) + 1 : i = Len(q) + k
      BY <1>7, <2>2
    <3> QED
      BY <1>6, <3>1 DEF Waits, StartsAfter
  <2> QED
    BY <2>1, <2>2
<1>11. LevelsMeasured(c)
  <2> SUFFICES ASSUME NEW i \in 1 .. Len(c), Len(c[i].samples) = frameSamples
               PROVE  c[i].level - c[i].samples[1] \in 0 .. (frameSamples - 1)
    BY DEF LevelsMeasured
  <2>1. CASE i \in 1 .. Len(q)
    BY <1>3, <2>1 DEF Waits, LevelsMeasured
  <2>2. CASE i \notin 1 .. Len(q)
    <3>1. i - Len(q) \in 1 .. Len(r) /\ c[i] = r[i - Len(q)]
      <4>1. i - Len(q) \in 1 .. Len(r) /\ i = Len(q) + (i - Len(q))
        BY <1>0, <1>2, <2>2
      <4> QED
        BY <1>4, <4>1
    <3> QED
      BY <3>1 DEF Waits, LevelsMeasured
  <2> QED
    BY <2>1, <2>2
<1> QED
  BY <1>1, <1>2, <1>8, <1>9, <1>10, <1>11 DEF Waits

\* The encoder's input: the carried samples and the new ones, without a hole.
LEMMA EncoderInput ==
    ASSUME WriterInv, NEW n \in Nat
    PROVE  LET s == carried \o samplesOf(n) IN
           /\ s \in Seq(Nat) /\ Len(s) = Len(carried) + n
           /\ \A i \in 1 .. Len(s) : s[i] = carriedFrom + i - 1
<1>0. written \in Nat /\ carried \in Seq(Nat) /\ Len(carried) \in Nat
  BY DEF WriterInv, AudioWriterTypeOK
<1>1. PICK new : new = samplesOf(n)
  OBVIOUS
<1>2. new \in Seq(Nat) /\ Len(new) = n /\ \A i \in 1 .. n : new[i] = written + i
  BY <1>0, <1>1 DEF samplesOf
<1>3. PICK s : s = carried \o new
  OBVIOUS
<1>4. s \in Seq(Nat) /\ Len(s) = Len(carried) + n
  BY <1>0, <1>2, <1>3
<1>5. \A i \in 1 .. Len(s) : s[i] = carriedFrom + i - 1
  <2> SUFFICES ASSUME NEW i \in 1 .. Len(s) PROVE s[i] = carriedFrom + i - 1
    OBVIOUS
  <2>1. CASE i <= Len(carried)
    <3>1. i \in 1 .. Len(carried) /\ s[i] = carried[i]
      BY <1>0, <1>2, <1>3, <1>4, <2>1
    <3> QED
      BY <3>1 DEF WriterInv
  <2>2. CASE ~(i <= Len(carried))
    <3>1. s[i] = new[i - Len(carried)] /\ i - Len(carried) \in 1 .. n
      BY <1>0, <1>2, <1>3, <1>4, <2>2
    <3>2. s[i] = written + (i - Len(carried))
      BY <1>2, <3>1
    <3> QED
      BY <1>0, <3>2 DEF carriedFrom
  <2> QED
    BY <2>1, <2>2
<1> QED
  BY <1>1, <1>3, <1>4, <1>5

\* The cut of an input into whole frames and a rest.
LEMMA CutOf ==
    ASSUME NEW s \in Seq(Nat)
    PROVE  /\ wholeFrames(s) \in Nat /\ wholeFrames(s) * frameSamples \in Nat
           /\ wholeFrames(s) * frameSamples <= Len(s)
           /\ Len(s) < wholeFrames(s) * frameSamples + frameSamples
           /\ leftover(s) \in Seq(Nat)
           /\ Len(leftover(s)) = Len(s) - wholeFrames(s) * frameSamples
           /\ \A j \in 1 .. Len(leftover(s)) : leftover(s)[j] = s[wholeFrames(s) * frameSamples + j]
<1>0. frameSamples \in Nat \ {0} /\ Len(s) \in Nat
  BY AudioWriterAssumption
<1>1. PICK W : W = wholeFrames(s)
  OBVIOUS
<1>2. W \in Nat /\ W * frameSamples <= Len(s) /\ Len(s) < W * frameSamples + frameSamples
  <2>1. W = Len(s) \div frameSamples
    BY <1>1 DEF wholeFrames
  <2> QED
    BY ONLY <1>0, <2>1, Quotient
<1>3. PICK m \in Nat : m = W * frameSamples
  BY <1>0, <1>2
<1>4. leftover(s) = SubSeq(s, m + 1, Len(s))
  BY <1>1, <1>3 DEF leftover
<1>5. m <= Len(s)
  BY <1>2, <1>3
<1>6. /\ SubSeq(s, m + 1, Len(s)) \in Seq(Nat) /\ Len(SubSeq(s, m + 1, Len(s))) = Len(s) - m
      /\ \A j \in 1 .. (Len(s) - m) : SubSeq(s, m + 1, Len(s))[j] = s[m + j]
  <2>1. m \in Nat /\ Len(s) \in Nat /\ m <= Len(s)
    BY <1>0, <1>3, <1>5
  <2>2. SubSeq(s, m + 1, Len(s)) \in Seq(Nat)
    BY ONLY <2>1, s \in Seq(Nat)
  <2>3. Len(SubSeq(s, m + 1, Len(s))) = Len(s) - m
    BY ONLY <2>1, s \in Seq(Nat)
  <2>4. \A j \in 1 .. (Len(s) - m) : SubSeq(s, m + 1, Len(s))[j] = s[m + j]
    BY ONLY <2>1, s \in Seq(Nat)
  <2> QED
    BY <2>2, <2>3, <2>4
<1> QED
  BY <1>1, <1>2, <1>3, <1>4, <1>6

\* The k-th frame of the input.
LEMMA FrameOf ==
    ASSUME NEW s \in Seq(Nat), NEW k \in 1 .. wholeFrames(s)
    PROVE  /\ (k - 1) * frameSamples \in Nat
           /\ frameAt(s, k) \in Seq(Nat) /\ Len(frameAt(s, k)) = frameSamples
           /\ \A j \in 1 .. frameSamples :
                (k - 1) * frameSamples + j \in 1 .. Len(s)
                /\ frameAt(s, k)[j] = s[(k - 1) * frameSamples + j]
<1>0. frameSamples \in Nat \ {0} /\ Len(s) \in Nat
  BY AudioWriterAssumption
<1>1. PICK W \in Nat : W = wholeFrames(s)
  BY CutOf
<1>2. W * frameSamples <= Len(s) /\ W * frameSamples \in Nat
  BY <1>1, CutOf
<1>3. k \in Nat /\ k - 1 \in Nat /\ k <= W
  BY <1>1
<1>4. PICK m \in Nat : m = (k - 1) * frameSamples
  BY <1>0, <1>3
<1>5. k * frameSamples = m + frameSamples
  <2>1. PICK p \in Nat : p = k - 1
    BY <1>3
  <2>2. k = p + 1 /\ m = p * frameSamples
    BY <1>3, <1>4, <2>1
  <2>3. (p + 1) * frameSamples = p * frameSamples + frameSamples
    BY <1>0, <2>1
  <2> QED
    BY <2>2, <2>3
<1>6. m + frameSamples <= Len(s)
  <2>1. k * frameSamples <= W * frameSamples
    BY <1>0, <1>1, <1>3, ProductGrows
  <2> QED
    BY <1>0, <1>2, <1>5, <2>1
<1>7. frameAt(s, k) = SubSeq(s, m + 1, m + frameSamples)
  BY <1>4, <1>5 DEF frameAt
<1>8. /\ SubSeq(s, m + 1, m + frameSamples) \in Seq(Nat)
      /\ Len(SubSeq(s, m + 1, m + frameSamples)) = frameSamples
      /\ \A j \in 1 .. frameSamples : SubSeq(s, m + 1, m + frameSamples)[j] = s[m + j]
  BY <1>0, <1>4, <1>6
<1>9. \A j \in 1 .. frameSamples : m + j \in 1 .. Len(s)
  BY <1>0, <1>4, <1>6
<1> QED
  BY <1>4, <1>7, <1>8, <1>9

\* The k-th packet's level is measured from the sample that completes its frame or
\* a sample before it in the frame, and no packet lacks a chunk of the input.
LEMMA LevelOf ==
    ASSUME WriterInv, NEW n \in Nat, NEW k \in 1 .. wholeFrames(carried \o samplesOf(n))
    PROVE  levelOf(k, n) = carriedFrom + (k - 1) * frameSamples + Len(carried)
<1>0. /\ frameSamples \in Nat \ {0} /\ written \in Nat /\ Len(carried) \in Nat
      /\ Len(carried) < frameSamples
  BY AudioWriterAssumption DEF WriterInv, AudioWriterTypeOK
<1>1. PICK s \in Seq(Nat) : s = carried \o samplesOf(n)
  BY EncoderInput
<1>2. Len(s) = Len(carried) + n
  BY <1>1, EncoderInput
<1>3. PICK W \in Nat : W = wholeFrames(s)
  BY CutOf
<1>4. W * frameSamples <= Len(carried) + n /\ W * frameSamples \in Nat
  BY <1>2, <1>3, CutOf
<1>5. PICK C \in Nat : C = chunksIn(n) /\ n + frameSamples - 1 < C * frameSamples + frameSamples
  <2>1. n + frameSamples - 1 \in Nat
    BY <1>0
  <2> QED
    BY <1>0, <2>1, Quotient DEF chunksIn
<1>6. W <= C
  <2> SUFFICES ASSUME ~(W <= C) PROVE FALSE
    OBVIOUS
  <2>0. C + 1 \in Nat /\ C + 1 <= W
    BY <1>3, <1>5
  <2>1. (C + 1) * frameSamples <= W * frameSamples
    BY ONLY <1>0, <1>3, <2>0, ProductGrows
  <2>2. (C + 1) * frameSamples = C * frameSamples + frameSamples /\ C * frameSamples \in Nat
    BY ONLY C \in Nat, <1>0
  <2>3. PICK x \in Nat, y \in Nat : x = C * frameSamples /\ y = W * frameSamples
    BY <1>4, <2>2
  <2>4. x + frameSamples <= y /\ y <= Len(carried) + n /\ n + frameSamples - 1 < x + frameSamples
    BY ONLY <1>4, <1>5, <2>1, <2>2, <2>3
  <2> QED
    BY ONLY <1>0, <2>3, <2>4, n \in Nat
<1>7. k \in Nat /\ k <= C
  BY <1>1, <1>3, <1>5, <1>6
<1>8. levelOf(k, n) = written + 1 + (k - 1) * frameSamples
  BY <1>5, <1>7 DEF levelOf
<1>9. (k - 1) * frameSamples \in Int
  BY <1>0, <1>7
<1> QED
  BY <1>0, <1>8, <1>9 DEF carriedFrom

\* What the encoder carries, or the next sample, is younger than what was cleared or
\* handed out.
LEMMA CarriedIsNew ==
    ASSUME WriterInv
    PROVE  /\ carriedFrom \in Nat /\ cleared \in Nat /\ lastHanded \in Nat
           /\ carriedFrom > cleared /\ carriedFrom > lastHanded
           /\ carriedFrom <= written + 1 /\ cleared <= written /\ lastHanded <= written
<1>0. written \in Nat /\ cleared \in Nat /\ Len(carried) \in Nat /\ Len(carried) <= written
  BY DEF WriterInv, AudioWriterTypeOK
<1>1. Len(queue) \in Nat /\ startIn(queue, carriedFrom, Len(queue) + 1) = carriedFrom
  BY DEF WriterInv, Waits, startIn
<1>2. carriedFrom > cleared /\ carriedFrom > lastHanded
  <2>1. Len(queue) + 1 \in 1 .. Len(queue) + 1
    BY <1>1
  <2>2. StartsAfter(queue, carriedFrom, cleared, lastHanded)
    BY DEF WriterInv, Waits
  <2> QED
    BY <1>1, <2>1, <2>2 DEF StartsAfter
<1>3. lastHanded \in Nat
  <2>1. handed.samples \in Seq(Nat)
    BY DEF WriterInv, AudioWriterTypeOK
  <2>2. CASE handed.samples = <<>>
    BY <2>2 DEF lastHanded
  <2>3. CASE handed.samples # <<>>
    <3>1. Last(handed.samples) \in Nat
      BY <2>1, <2>3 DEF Last
    <3> QED
      BY <2>3, <3>1 DEF lastHanded
  <2> QED
    BY <2>2, <2>3
<1>4. carriedFrom \in Nat /\ carriedFrom <= written + 1
  BY <1>0 DEF carriedFrom
<1> QED
  BY <1>0, <1>2, <1>3, <1>4

\* The frames that a Write encodes start where the queue ends and end where what it
\* carries on starts.
LEMMA EncodedWait ==
    ASSUME WriterInv, NEW n \in Nat
    PROVE  LET s == carried \o samplesOf(n)
               end == written + n - Len(leftover(s)) + 1
           IN  /\ end \in Nat /\ Len(leftover(s)) < frameSamples /\ Len(leftover(s)) <= written + n
               /\ leftover(s) \in Seq(Nat)
               /\ \A j \in 1 .. Len(leftover(s)) : leftover(s)[j] = end + j - 1
               /\ Waits(framesEncoded(n), end, cleared, lastHanded)
               /\ startIn(framesEncoded(n), end, 1) = carriedFrom
<1>0. /\ frameSamples \in Nat \ {0} /\ written \in Nat /\ Len(carried) \in Nat /\ Len(carried) <= written
      /\ Len(carried) < frameSamples
  BY AudioWriterAssumption DEF WriterInv, AudioWriterTypeOK
<1>1. PICK s \in Seq(Nat) : s = carried \o samplesOf(n)
  BY EncoderInput
<1>2. Len(s) = Len(carried) + n /\ \A i \in 1 .. Len(s) : s[i] = carriedFrom + i - 1
  BY <1>1, EncoderInput
<1>3. PICK W \in Nat : W = wholeFrames(s)
  BY CutOf
<1>4. PICK m \in Nat : m = W * frameSamples
  BY <1>3, CutOf
<1>5. /\ m <= Len(s) /\ Len(s) < m + frameSamples /\ leftover(s) \in Seq(Nat) /\ Len(leftover(s)) = Len(s) - m
      /\ \A j \in 1 .. Len(leftover(s)) : leftover(s)[j] = s[m + j]
  BY <1>3, <1>4, CutOf
<1>6. PICK first \in Nat : first = carriedFrom
  <2>1. carriedFrom \in Nat
    BY <1>0 DEF carriedFrom
  <2> QED
    BY ONLY <2>1
<1>7. PICK end \in Nat : end = written + n - Len(leftover(s)) + 1
  <2>1. written + n - Len(leftover(s)) + 1 \in Nat
    BY <1>0, <1>2, <1>4, <1>5
  <2> QED
    BY ONLY <2>1
<1>8. end = first + m
  BY <1>0, <1>2, <1>4, <1>5, <1>6, <1>7 DEF carriedFrom
<1>9. \A j \in 1 .. Len(leftover(s)) : leftover(s)[j] = end + j - 1
  <2> SUFFICES ASSUME NEW j \in 1 .. Len(leftover(s)) PROVE leftover(s)[j] = end + j - 1
    OBVIOUS
  <2>1. m + j \in 1 .. Len(s)
    BY <1>0, <1>2, <1>4, <1>5
  <2>2. leftover(s)[j] = first + (m + j) - 1
    BY <1>2, <1>5, <1>6, <2>1
  <2> QED
    BY <1>4, <1>6, <1>8, <2>2
<1>10. PICK r : r = framesEncoded(n)
  OBVIOUS
<1>11. r = [k \in 1 .. W |-> [samples |-> frameAt(s, k), level |-> levelOf(k, n)]]
  BY <1>1, <1>3, <1>10 DEF framesEncoded
<1>12. \A k \in 1 .. W : /\ r[k].samples = frameAt(s, k) /\ r[k].level = levelOf(k, n)
                         /\ r[k] = [samples |-> frameAt(s, k), level |-> levelOf(k, n)]
  BY <1>11
<1>13. \A k \in 1 .. W :
         /\ (k - 1) * frameSamples \in Nat
         /\ frameAt(s, k) \in Seq(Nat) /\ Len(frameAt(s, k)) = frameSamples
         /\ \A j \in 1 .. frameSamples : frameAt(s, k)[j] = first + (k - 1) * frameSamples + j - 1
         /\ levelOf(k, n) = first + (k - 1) * frameSamples + Len(carried)
  <2> SUFFICES ASSUME NEW k \in 1 .. W
               PROVE  /\ (k - 1) * frameSamples \in Nat
                      /\ frameAt(s, k) \in Seq(Nat) /\ Len(frameAt(s, k)) = frameSamples
                      /\ \A j \in 1 .. frameSamples : frameAt(s, k)[j] = first + (k - 1) * frameSamples + j - 1
                      /\ levelOf(k, n) = first + (k - 1) * frameSamples + Len(carried)
    OBVIOUS
  <2>1. k \in 1 .. wholeFrames(s)
    BY <1>3
  <2>2. PICK x \in Nat : x = (k - 1) * frameSamples
    BY <2>1, FrameOf
  <2>3. /\ frameAt(s, k) \in Seq(Nat) /\ Len(frameAt(s, k)) = frameSamples
        /\ \A j \in 1 .. frameSamples : x + j \in 1 .. Len(s) /\ frameAt(s, k)[j] = s[x + j]
    BY <2>1, <2>2, FrameOf
  <2>4. \A j \in 1 .. frameSamples : frameAt(s, k)[j] = first + (x + j) - 1
    BY <1>2, <1>6, <2>3
  <2>5. \A j \in 1 .. frameSamples : frameAt(s, k)[j] = first + x + j - 1
    BY <1>6, <2>2, <2>4
  <2>6. levelOf(k, n) = first + x + Len(carried)
    BY <1>1, <1>6, <2>1, <2>2, LevelOf
  <2> QED
    BY <2>2, <2>3, <2>5, <2>6
<1>14. r \in Seq(QueuedFrame) /\ Len(r) = W
  <2>1. \A k \in 1 .. W : [samples |-> frameAt(s, k), level |-> levelOf(k, n)] \in QueuedFrame
    <3> SUFFICES ASSUME NEW k \in 1 .. W
                 PROVE  [samples |-> frameAt(s, k), level |-> levelOf(k, n)] \in QueuedFrame
      OBVIOUS
    <3>1. frameAt(s, k) \in Seq(Nat)
      BY <1>13
    <3>2. levelOf(k, n) \in Nat
      <4>1. PICK x \in Nat : x = (k - 1) * frameSamples
        BY <1>13
      <4>2. levelOf(k, n) = first + x + Len(carried)
        BY <1>13, <4>1
      <4> QED
        BY <1>0, <1>6, <4>1, <4>2
    <3> QED
      BY <3>1, <3>2 DEF QueuedFrame
  <2> QED
    BY <1>3, <1>11, <2>1
<1>15. \A k \in 1 .. W + 1 : (k - 1) * frameSamples \in Nat /\ startIn(r, end, k) = first + (k - 1) * frameSamples
  <2> SUFFICES ASSUME NEW k \in 1 .. W + 1
               PROVE  (k - 1) * frameSamples \in Nat /\ startIn(r, end, k) = first + (k - 1) * frameSamples
    OBVIOUS
  <2>1. CASE k <= W
    <3>1. k \in 1 .. W
      BY <1>3, <2>1
    <3>2. PICK x \in Nat : x = (k - 1) * frameSamples
      BY <1>13, <3>1
    <3>3. frameAt(s, k)[1] = first + x + 1 - 1
      <4>1. 1 \in 1 .. frameSamples
        BY <1>0
      <4> QED
        BY <1>13, <3>1, <3>2, <4>1
    <3>4. startIn(r, end, k) = frameAt(s, k)[1]
      BY <1>12, <1>14, <2>1, <3>1 DEF startIn
    <3> QED
      BY <1>6, <3>2, <3>3, <3>4
  <2>2. CASE k = W + 1
    <3>1. k - 1 = W
      BY <1>3, <2>2
    <3>2. startIn(r, end, k) = end
      BY <1>3, <1>14, <2>2 DEF startIn
    <3> QED
      BY <1>4, <1>8, <3>1, <3>2
  <2> QED
    BY <1>3, <2>1, <2>2
<1>16. NoHole(r, end)
  <2> SUFFICES ASSUME NEW k \in 1 .. W
               PROVE  /\ r[k].samples # <<>>
                      /\ \A j \in DOMAIN r[k].samples : r[k].samples[j] = startIn(r, end, k) + j - 1
                      /\ startIn(r, end, k + 1) = startIn(r, end, k) + Len(r[k].samples)
    BY <1>14 DEF NoHole
  <2>1. k \in 1 .. W + 1 /\ k + 1 \in 1 .. W + 1 /\ (k + 1) - 1 = (k - 1) + 1
    BY <1>3
  <2>2. PICK x \in Nat : x = (k - 1) * frameSamples
    BY <1>13
  <2>3. ((k + 1) - 1) * frameSamples = x + frameSamples
    <3>1. PICK p \in Nat : p = k - 1
      BY <1>3
    <3>2. (p + 1) * frameSamples = p * frameSamples + frameSamples
      BY <1>0, <3>1
    <3> QED
      BY <2>1, <2>2, <3>1, <3>2
  <2>4. startIn(r, end, k) = first + x /\ startIn(r, end, k + 1) = first + (x + frameSamples)
    BY <1>15, <2>1, <2>2, <2>3
  <2>5. r[k].samples = frameAt(s, k)
    BY <1>12
  <2>6. /\ frameAt(s, k) \in Seq(Nat) /\ Len(frameAt(s, k)) = frameSamples
        /\ \A j \in 1 .. frameSamples : frameAt(s, k)[j] = first + x + j - 1
    BY <1>13, <2>2
  <2>7. frameAt(s, k) # <<>> /\ DOMAIN frameAt(s, k) = 1 .. frameSamples
    BY <1>0, <2>6
  <2>8. PICK u : u = frameAt(s, k)
    OBVIOUS
  <2>9. PICK a \in Nat : a = first + x /\ startIn(r, end, k) = a /\ startIn(r, end, k + 1) = a + frameSamples
    <3>1. first + x \in Nat /\ first + (x + frameSamples) = (first + x) + frameSamples
      BY <1>0, <1>6, <2>2
    <3> QED
      BY ONLY <2>4, <3>1
  <2>10. u # <<>> /\ DOMAIN u = 1 .. frameSamples /\ Len(u) = frameSamples
         /\ \A j \in 1 .. frameSamples : u[j] = a + j - 1
    BY ONLY <2>6, <2>7, <2>8, <2>9
  <2> QED
    BY ONLY <2>5, <2>8, <2>9, <2>10
<1>17. StartsInOrder(r, end)
  <2> SUFFICES ASSUME NEW i \in 1 .. W + 1, NEW j \in 1 .. W + 1, i <= j
               PROVE  startIn(r, end, i) <= startIn(r, end, j)
    BY <1>14 DEF StartsInOrder
  <2>1. i - 1 \in Nat /\ j - 1 \in Nat /\ i - 1 <= j - 1
    BY <1>3
  <2>2. (i - 1) * frameSamples <= (j - 1) * frameSamples
    BY <1>0, <2>1, ProductGrows
  <2>3. PICK x \in Nat, y \in Nat : x = (i - 1) * frameSamples /\ y = (j - 1) * frameSamples
    BY <1>15
  <2>4. startIn(r, end, i) = first + x /\ startIn(r, end, j) = first + y
    BY <1>15, <2>3
  <2> QED
    BY <1>6, <2>2, <2>3, <2>4
<1>18. first > cleared /\ first > lastHanded /\ cleared \in Nat /\ lastHanded \in Nat
  BY <1>6, CarriedIsNew
<1>19. StartsAfter(r, end, cleared, lastHanded)
  <2> SUFFICES ASSUME NEW i \in 1 .. W + 1
               PROVE  startIn(r, end, i) > cleared /\ startIn(r, end, i) > lastHanded
    BY <1>14 DEF StartsAfter
  <2>1. PICK x \in Nat : x = (i - 1) * frameSamples
    BY <1>15
  <2>2. startIn(r, end, i) = first + x
    BY <1>15, <2>1
  <2> QED
    BY <1>6, <1>18, <2>1, <2>2
<1>20. LevelsMeasured(r)
  <2> SUFFICES ASSUME NEW k \in 1 .. W PROVE r[k].level - r[k].samples[1] \in 0 .. (frameSamples - 1)
    BY <1>14 DEF LevelsMeasured
  <2>1. PICK x \in Nat : x = (k - 1) * frameSamples
    BY <1>13
  <2>2. 1 \in 1 .. frameSamples
    BY <1>0
  <2>3. r[k].samples[1] = first + x + 1 - 1 /\ r[k].level = first + x + Len(carried)
    BY <1>12, <1>13, <2>1, <2>2
  <2> QED
    BY <1>0, <1>6, <2>1, <2>3
<1>21. startIn(r, end, 1) = first
  <2>1. 1 \in 1 .. W + 1 /\ (1 - 1) * frameSamples = 0
    BY <1>0, <1>3
  <2> QED
    BY <1>6, <1>15, <2>1
<1>22. Len(leftover(s)) < frameSamples /\ Len(leftover(s)) <= written + n
  BY <1>0, <1>2, <1>4, <1>5
<1> QED
  BY <1>1, <1>5, <1>6, <1>7, <1>9, <1>10, <1>14, <1>16, <1>17, <1>19, <1>20, <1>21, <1>22 DEF Waits
\* A queue that nothing was written to since a or b waits trivially.
LEMMA EmptyWaits ==
    ASSUME NEW end \in Nat, NEW a \in Nat, NEW b \in Nat, end > a, end > b
    PROVE  Waits(<<>>, end, a, b)
<1>1. <<>> \in Seq(QueuedFrame) /\ Len(<<>>) = 0 /\ DOMAIN <<>> = {}
  OBVIOUS
<1>2. \A i \in 1 .. 1 : startIn(<<>>, end, i) = end
  BY <1>1 DEF startIn
<1> QED
  BY <1>1, <1>2 DEF Waits, NoHole, StartsInOrder, StartsAfter, LevelsMeasured

LEMMA WriterInvInit == AudioWriterInit => WriterInv
<1> SUFFICES ASSUME AudioWriterInit PROVE WriterInv
  OBVIOUS
<1>1. AudioWriterTypeOK
  <2>1. <<>> \in Seq(Nat) /\ NoFrame \in [samples : Seq(Nat), after : Nat, previous : Nat]
    BY DEF NoFrame
  <2>2. writerClosed \in BOOLEAN
    BY DEF AudioWriterInit
  <2> QED
    BY <2>1, <2>2 DEF AudioWriterInit, AudioWriterTypeOK, silenceLevel
<1>2. Len(carried) = 0 /\ Len(queue) = 0 /\ handed.samples = <<>>
  BY DEF AudioWriterInit, NoFrame
<1>3. carriedFrom = 1
  BY <1>2 DEF AudioWriterInit, carriedFrom
<1>4. Waits(queue, carriedFrom, cleared, lastHanded)
  BY <1>2, <1>3, EmptyWaits DEF AudioWriterInit, lastHanded
<1> QED
  BY <1>1, <1>2, <1>4, AudioWriterAssumption DEF WriterInv, AudioWriterInit

\* Write queues the frames it completes and carries the rest.
LEMMA WriteKeeps == ASSUME WriterInv, NEW n \in WriteSizes, Write(n) PROVE WriterInv'
<1>0. n \in Nat /\ written \in Nat /\ frameSamples \in Nat \ {0}
  BY AudioWriterAssumption DEF WriterInv, AudioWriterTypeOK
<1>1. PICK rest : rest = leftover(carried \o samplesOf(n))
  OBVIOUS
<1>2. carried' = rest /\ written' = written + n
  BY <1>1 DEF Write
<1>3. PICK end : end = written + n - Len(rest) + 1
  OBVIOUS
<1>4. PICK r : r = framesEncoded(n)
  OBVIOUS
<1>5. /\ end \in Nat /\ Len(rest) < frameSamples /\ Len(rest) <= written + n /\ rest \in Seq(Nat)
      /\ \A j \in 1 .. Len(rest) : rest[j] = end + j - 1
      /\ Waits(r, end, cleared, lastHanded) /\ startIn(r, end, 1) = carriedFrom
  <2>1. LET s == carried \o samplesOf(n)
            last == written + n - Len(leftover(s)) + 1
        IN  /\ last \in Nat /\ Len(leftover(s)) < frameSamples /\ Len(leftover(s)) <= written + n
            /\ leftover(s) \in Seq(Nat)
            /\ \A j \in 1 .. Len(leftover(s)) : leftover(s)[j] = last + j - 1
            /\ Waits(framesEncoded(n), last, cleared, lastHanded)
            /\ startIn(framesEncoded(n), last, 1) = carriedFrom
    BY <1>0, EncodedWait, Zenon
  <2> QED
    BY ONLY <2>1, <1>1, <1>3, <1>4, Zenon
<1>6. carriedFrom' = end
  <2>1. carriedFrom' = written' - Len(carried') + 1
    BY DEF carriedFrom
  <2>2. Len(rest) \in Nat /\ Len(carried') = Len(rest)
    BY <1>2, <1>5
  <2> QED
    BY <1>0, <1>2, <1>3, <2>1, <2>2
<1>7. cleared' = cleared /\ lastHanded' = lastHanded /\ handed' = handed
  BY DEF Write, writerHistory, lastHanded
<1>8. Waits(queue', end, cleared, lastHanded) /\ Len(queue') <= maxFrames
  <2>1. CASE r = <<>>
    <3>1. queue' = queue
      BY <1>4, <2>1 DEF Write
    <3>2. end = carriedFrom
      BY <1>5, <2>1 DEF startIn
    <3> QED
      BY <3>1, <3>2 DEF WriterInv
  <2>2. CASE r # <<>>
    <3>1. queue' = trim(queue \o r)
      BY <1>4, <2>2 DEF Write
    <3>2. Waits(queue \o r, end, cleared, lastHanded)
      <4>1. Waits(queue, carriedFrom, cleared, lastHanded)
        BY DEF WriterInv
      <4> QED
        BY <1>5, <4>1, CarriedIsNew, ConcatWaits
    <3> QED
      BY <1>5, <3>1, <3>2, CarriedIsNew, TrimWaits
  <2> QED
    BY <2>1, <2>2
<1>9. AudioWriterTypeOK'
  <2>1. written' \in Nat /\ carried' \in Seq(Nat)
    BY <1>0, <1>2, <1>5
  <2>2. UNCHANGED <<writerClosed, level, popped, handed, cleared, clears>>
    BY DEF Write, writerHistory
  <2>3. AudioWriterTypeOK
    BY DEF WriterInv
  <2> QED
    BY <2>1, <2>2, <2>3 DEF AudioWriterTypeOK
<1>10. Waits(queue', carriedFrom', cleared', lastHanded')
  BY <1>6, <1>7, <1>8
<1>11. /\ Len(carried') < frameSamples /\ Len(carried') <= written'
       /\ \A j \in 1 .. Len(carried') : carried'[j] = carriedFrom' + j - 1
  BY <1>2, <1>5, <1>6
<1>12. \A i \in 1 .. Len(handed'.samples) :
         handed'.samples[i] > handed'.previous /\ handed'.samples[i] > handed'.after
  BY <1>7 DEF WriterInv
<1>13. Waits(queue, carriedFrom, cleared, lastHanded)'
  BY <1>10 DEF Waits, NoHole, StartsInOrder, StartsAfter, LevelsMeasured, startIn
<1> QED
  BY <1>8, <1>9, <1>11, <1>12, <1>13 DEF WriterInv
\* Flush queues the partial frame.
LEMMA FlushKeeps == ASSUME WriterInv, Flush PROVE WriterInv'
<1>0. /\ written \in Nat /\ carried \in Seq(Nat) /\ Len(carried) \in Nat /\ level \in Nat
      /\ Len(carried) <= written /\ frameSamples \in Nat \ {0}
  BY AudioWriterAssumption DEF WriterInv, AudioWriterTypeOK
<1>1. carried' = <<>> /\ written' = written /\ Len(<<>>) = 0
  BY DEF Flush
<1>2. carriedFrom' = written + 1
  BY <1>0, <1>1 DEF carriedFrom
<1>3. cleared' = cleared /\ lastHanded' = lastHanded /\ handed' = handed
  BY DEF Flush, writerHistory, lastHanded
<1>4. Waits(queue, carriedFrom, cleared, lastHanded) /\ Len(queue) <= maxFrames
  BY DEF WriterInv
<1>5. Waits(queue', written + 1, cleared, lastHanded) /\ Len(queue') <= maxFrames
  <2>1. CASE carried = <<>>
    <3>1. queue' = queue /\ carriedFrom = written + 1
      BY <1>0, <1>1, <2>1 DEF Flush, carriedFrom
    <3> QED
      BY <1>4, <3>1
  <2>2. CASE carried # <<>>
    <3>0. Len(carried) # 0 /\ 1 \in 1 .. Len(carried)
      BY <1>0, <2>2
    <3>1. PICK f : f = [samples |-> carried, level |-> level]
      OBVIOUS
    <3>2. f \in QueuedFrame /\ f.samples = carried
      BY <1>0, <3>1 DEF QueuedFrame
    <3>3. queue' = trim(Append(queue, f))
      BY <2>2, <3>1 DEF Flush
    <3>4. queue \in Seq(QueuedFrame)
      BY <1>4 DEF Waits
    <3>5. Append(queue, f) = queue \o <<f>>
      BY <3>2, <3>4
    <3>6. <<f>> \in Seq(QueuedFrame) /\ Len(<<f>>) = 1 /\ <<f>>[1] = f
      BY <3>2
    <3>7. carried[1] = carriedFrom
      <4>1. carried[1] = carriedFrom + 1 - 1
        BY <3>0 DEF WriterInv
      <4> QED
        BY <4>1, CarriedIsNew
    <3>8. startIn(<<f>>, written + 1, 1) = carriedFrom /\ startIn(<<f>>, written + 1, 2) = written + 1
      BY <3>2, <3>6, <3>7 DEF startIn
    <3>9. Waits(<<f>>, written + 1, cleared, lastHanded)
      <4>1. NoHole(<<f>>, written + 1)
        <5>1. DOMAIN <<f>> = {1} /\ DOMAIN f.samples = 1 .. Len(carried)
          BY <1>0, <3>2, <3>6
        <5>2. \A j \in 1 .. Len(carried) : carried[j] = carriedFrom + j - 1
          BY DEF WriterInv
        <5>3. written + 1 = carriedFrom + Len(carried)
          BY <1>0 DEF carriedFrom
        <5>4. \A j \in DOMAIN <<f>>[1].samples : <<f>>[1].samples[j] = startIn(<<f>>, written + 1, 1) + j - 1
          BY <3>2, <3>6, <3>8, <5>1, <5>2
        <5>5. startIn(<<f>>, written + 1, 1 + 1) = startIn(<<f>>, written + 1, 1) + Len(<<f>>[1].samples)
          BY <3>2, <3>6, <3>8, <5>3
        <5> QED
          BY <2>2, <3>2, <3>6, <5>1, <5>4, <5>5 DEF NoHole
      <4>2. \A i \in 1 .. Len(<<f>>) + 1 : i = 1 \/ i = 2
        BY <3>6
      <4>3. StartsInOrder(<<f>>, written + 1)
        BY <1>0, <3>8, <4>2, CarriedIsNew DEF StartsInOrder
      <4>4. StartsAfter(<<f>>, written + 1, cleared, lastHanded)
        <5>1. /\ carriedFrom > cleared /\ carriedFrom > lastHanded
              /\ written + 1 > cleared /\ written + 1 > lastHanded
          BY <1>0, CarriedIsNew
        <5> QED
          BY ONLY <3>8, <4>2, <5>1 DEF StartsAfter
      <4>5. LevelsMeasured(<<f>>)
        <5>1. Len(carried) # frameSamples
          BY <1>0 DEF WriterInv
        <5>2. \A i \in 1 .. Len(<<f>>) : i = 1
          BY <3>6
        <5> QED
          BY <3>2, <3>6, <5>1, <5>2 DEF LevelsMeasured
      <4> QED
        BY <3>6, <4>1, <4>3, <4>4, <4>5 DEF Waits
    <3>10. Waits(queue \o <<f>>, written + 1, cleared, lastHanded)
      BY <1>0, <1>4, <3>8, <3>9, CarriedIsNew, ConcatWaits
    <3> QED
      BY <1>0, <3>3, <3>5, <3>10, CarriedIsNew, TrimWaits
  <2> QED
    BY <2>1, <2>2
<1>6. AudioWriterTypeOK'
  <2>1. written' \in Nat /\ carried' \in Seq(Nat)
    BY <1>0, <1>1
  <2>2. UNCHANGED <<writerClosed, level, popped, handed, cleared, clears>>
    BY DEF Flush, writerHistory
  <2>3. AudioWriterTypeOK
    BY DEF WriterInv
  <2> QED
    BY <2>1, <2>2, <2>3 DEF AudioWriterTypeOK
<1>7. Waits(queue', carriedFrom', cleared', lastHanded')
  BY <1>2, <1>3, <1>5
<1>8. Waits(queue, carriedFrom, cleared, lastHanded)'
  BY <1>7 DEF Waits, NoHole, StartsInOrder, StartsAfter, LevelsMeasured, startIn
<1>9. Len(carried') < frameSamples /\ Len(carried') <= written' /\ 1 .. Len(carried') = {}
  BY <1>0, <1>1
<1>10. \A i \in 1 .. Len(handed'.samples) :
         handed'.samples[i] > handed'.previous /\ handed'.samples[i] > handed'.after
  BY <1>3 DEF WriterInv
<1> QED
  BY <1>5, <1>6, <1>8, <1>9, <1>10 DEF WriterInv

\* Clear forgets the queue and the partial frame.
LEMMA ClearKeeps == ASSUME WriterInv, Clear PROVE WriterInv'
<1>0. written \in Nat /\ clears \in Nat /\ frameSamples \in Nat \ {0} /\ maxFrames \in Nat
  BY AudioWriterAssumption DEF WriterInv, AudioWriterTypeOK
<1>1. /\ queue' = <<>> /\ carried' = <<>> /\ written' = written /\ cleared' = written /\ Len(<<>>) = 0
      /\ handed' = handed /\ lastHanded' = lastHanded /\ level' = silenceLevel /\ clears' = clears + 1
      /\ writerClosed' = writerClosed /\ popped' = popped
  BY DEF Clear, lastHanded
<1>2. carriedFrom' = written + 1
  BY <1>0, <1>1 DEF carriedFrom
<1>3. Waits(<<>>, written + 1, written, lastHanded)
  BY <1>0, CarriedIsNew, EmptyWaits
<1>4. Waits(queue', carriedFrom', cleared', lastHanded')
  BY <1>1, <1>2, <1>3
<1>5. Waits(queue, carriedFrom, cleared, lastHanded)'
  BY <1>4 DEF Waits, NoHole, StartsInOrder, StartsAfter, LevelsMeasured, startIn
<1>6. AudioWriterTypeOK'
  <2>1. AudioWriterTypeOK
    BY DEF WriterInv
  <2>2. <<>> \in Seq(Nat) /\ silenceLevel \in Nat /\ clears + 1 \in Nat
    BY <1>0 DEF silenceLevel
  <2> QED
    BY <1>0, <1>1, <2>1, <2>2 DEF AudioWriterTypeOK
<1>7. /\ Len(carried') < frameSamples /\ Len(carried') <= written' /\ 1 .. Len(carried') = {}
      /\ Len(queue') <= maxFrames
  BY <1>0, <1>1
<1>8. \A i \in 1 .. Len(handed'.samples) :
         handed'.samples[i] > handed'.previous /\ handed'.samples[i] > handed'.after
  BY <1>1 DEF WriterInv
<1> QED
  BY <1>5, <1>6, <1>7, <1>8 DEF WriterInv

LEMMA CloseWriterKeeps == ASSUME WriterInv, CloseWriter PROVE WriterInv'
<1>0. maxFrames \in Nat
  BY AudioWriterAssumption
<1>1. /\ queue' = <<>> /\ carried' = carried /\ written' = written /\ cleared' = cleared /\ Len(<<>>) = 0
      /\ handed' = handed /\ lastHanded' = lastHanded /\ carriedFrom' = carriedFrom
      /\ level' = level /\ clears' = clears /\ popped' = popped
  BY DEF CloseWriter, writerHistory, lastHanded, carriedFrom
<1>2. writerClosed' \in BOOLEAN
  BY DEF CloseWriter
<1>3. Waits(<<>>, carriedFrom, cleared, lastHanded)
  BY CarriedIsNew, EmptyWaits
<1>4. Waits(queue', carriedFrom', cleared', lastHanded')
  BY <1>1, <1>3
<1>5. Waits(queue, carriedFrom, cleared, lastHanded)'
  BY <1>4 DEF Waits, NoHole, StartsInOrder, StartsAfter, LevelsMeasured, startIn
<1>6. AudioWriterTypeOK'
  BY <1>1, <1>2 DEF WriterInv, AudioWriterTypeOK
<1>7. Len(queue') <= maxFrames
  BY <1>0, <1>1
<1>8. /\ Len(carried') < frameSamples /\ Len(carried') <= written'
      /\ \A j \in 1 .. Len(carried') : carried'[j] = carriedFrom' + j - 1
      /\ \A i \in 1 .. Len(handed'.samples) :
           handed'.samples[i] > handed'.previous /\ handed'.samples[i] > handed'.after
  BY <1>1 DEF WriterInv
<1> QED
  BY <1>5, <1>6, <1>7, <1>8 DEF WriterInv
\* What is left when the first frame is popped is younger than that frame.
LEMMA TailWaits ==
    ASSUME NEW q, NEW end \in Nat, NEW a \in Nat, NEW b \in Nat, Waits(q, end, a, b), q # <<>>
    PROVE  /\ Head(q).samples \in Seq(Nat) /\ Head(q).samples # <<>> /\ Head(q).level \in Nat
           /\ \A i \in 1 .. Len(Head(q).samples) : Head(q).samples[i] > a /\ Head(q).samples[i] > b
           /\ Last(Head(q).samples) \in Nat
           /\ Waits(Tail(q), end, a, Last(Head(q).samples))
           /\ Len(Tail(q)) < Len(q)
<1>0. q \in Seq(QueuedFrame) /\ Len(q) \in Nat /\ Len(q) >= 1 /\ NoHole(q, end)
  BY DEF Waits
<1>1. PICK f : f = q[1]
  OBVIOUS
<1>2. Head(q) = f /\ 1 \in 1 .. Len(q) /\ 1 \in DOMAIN q /\ 1 \in 1 .. Len(q) + 1 /\ 2 \in 1 .. Len(q) + 1
  BY <1>0, <1>1
<1>3. f.samples \in Seq(Nat) /\ f.level \in Nat /\ Len(f.samples) \in Nat
  BY <1>0, <1>1, <1>2, QueuedFrameOf
<1>4. PICK s \in Nat : s = startIn(q, end, 1)
  BY <1>0, <1>2, StartIsNumber
<1>5. PICK t \in Nat : t = startIn(q, end, 2)
  BY <1>0, <1>2, StartIsNumber
<1>6. /\ f.samples # <<>> /\ \A j \in 1 .. Len(f.samples) : f.samples[j] = s + j - 1
      /\ t = s + Len(f.samples)
  <2>1. 1 + 1 = 2 /\ DOMAIN f.samples = 1 .. Len(f.samples)
    BY <1>3
  <2> QED
    BY <1>0, <1>1, <1>2, <1>4, <1>5, <2>1 DEF NoHole
<1>7. s > a /\ s > b
  BY <1>2, <1>4 DEF Waits, StartsAfter
<1>8. \A i \in 1 .. Len(f.samples) : f.samples[i] > a /\ f.samples[i] > b
  <2> SUFFICES ASSUME NEW i \in 1 .. Len(f.samples) PROVE f.samples[i] > a /\ f.samples[i] > b
    OBVIOUS
  <2>1. f.samples[i] = s + i - 1 /\ i \in Nat /\ i >= 1
    BY <1>3, <1>6
  <2> QED
    BY ONLY <1>4, <1>7, <2>1, a \in Nat, b \in Nat, s \in Nat
<1>9. Len(f.samples) # 0
  BY <1>3, <1>6
<1>10. PICK z \in Nat : z = Last(f.samples) /\ t = z + 1
  <2>1. Len(f.samples) \in 1 .. Len(f.samples)
    BY <1>3, <1>9
  <2>2. Last(f.samples) = s + Len(f.samples) - 1
    <3>1. f.samples[Len(f.samples)] = s + Len(f.samples) - 1
      BY <1>6, <2>1
    <3> QED
      BY <3>1 DEF Last
  <2>3. Last(f.samples) \in Nat /\ t = Last(f.samples) + 1
    <3>1. PICK l \in Nat : l = Len(f.samples) /\ l # 0
      BY <1>3, <1>9
    <3>2. Last(f.samples) = s + l - 1 /\ t = s + l
      BY <1>6, <2>2, <3>1
    <3> QED
      BY ONLY s \in Nat, <3>1, <3>2
  <2> QED
    BY ONLY <2>3
<1>11. PICK r : r = Tail(q)
  OBVIOUS
<1>12. /\ r \in Seq(QueuedFrame) /\ Len(r) = Len(q) - 1 /\ Len(r) \in Nat
       /\ \A i \in 1 .. Len(r) : r[i] = q[i + 1]
  BY <1>0, <1>11
<1>13. \A i \in 1 .. Len(r) + 1 : i + 1 \in 1 .. Len(q) + 1 /\ startIn(r, end, i) = startIn(q, end, i + 1)
  BY <1>0, <1>12 DEF startIn
<1>14. NoHole(r, end)
  <2> SUFFICES ASSUME NEW i \in 1 .. Len(r)
               PROVE  /\ r[i].samples # <<>>
                      /\ \A j \in DOMAIN r[i].samples : r[i].samples[j] = startIn(r, end, i) + j - 1
                      /\ startIn(r, end, i + 1) = startIn(r, end, i) + Len(r[i].samples)
    <3>1. DOMAIN r = 1 .. Len(r)
      BY <1>12
    <3> QED
      BY <3>1, Zenon DEF NoHole
  <2>1. i + 1 \in DOMAIN q /\ r[i] = q[i + 1] /\ i \in 1 .. Len(r) + 1 /\ i + 1 \in 1 .. Len(r) + 1
    <3>1. PICK l \in Nat : l = Len(r) /\ Len(q) = l + 1
      BY <1>0, <1>12
    <3>2. DOMAIN q = 1 .. l + 1
      BY <1>0, <3>1
    <3>3. i + 1 \in 1 .. l + 1 /\ i \in 1 .. l + 1
      BY <3>1
    <3> QED
      BY <1>12, <3>1, <3>2, <3>3
  <2>2. startIn(r, end, i) = startIn(q, end, i + 1) /\ startIn(r, end, i + 1) = startIn(q, end, (i + 1) + 1)
    BY <1>13, <2>1
  <2>3. /\ q[i + 1].samples # <<>>
        /\ \A j \in DOMAIN q[i + 1].samples : q[i + 1].samples[j] = startIn(q, end, i + 1) + j - 1
        /\ startIn(q, end, (i + 1) + 1) = startIn(q, end, i + 1) + Len(q[i + 1].samples)
    BY <1>0, <2>1 DEF NoHole
  <2> QED
    BY <2>1, <2>2, <2>3
<1>15. StartsInOrder(r, end)
  <2> SUFFICES ASSUME NEW i \in 1 .. Len(r) + 1, NEW j \in 1 .. Len(r) + 1, i <= j
               PROVE  startIn(r, end, i) <= startIn(r, end, j)
    BY DEF StartsInOrder
  <2>1. i + 1 \in 1 .. Len(q) + 1 /\ j + 1 \in 1 .. Len(q) + 1 /\ i + 1 <= j + 1
    BY <1>12, <1>13
  <2>2. startIn(q, end, i + 1) <= startIn(q, end, j + 1)
    BY <2>1 DEF Waits, StartsInOrder
  <2> QED
    BY <1>13, <2>2
<1>16. StartsAfter(r, end, a, z)
  <2> SUFFICES ASSUME NEW i \in 1 .. Len(r) + 1 PROVE startIn(r, end, i) > a /\ startIn(r, end, i) > z
    BY DEF StartsAfter
  <2>1. i + 1 \in 1 .. Len(q) + 1 /\ 2 <= i + 1
    BY <1>12, <1>13
  <2>2. PICK y \in Nat : y = startIn(q, end, i + 1)
    BY <1>0, <2>1, StartIsNumber
  <2>3. y > a
    BY <2>1, <2>2 DEF Waits, StartsAfter
  <2>4. t <= y
    BY <1>2, <1>5, <2>1, <2>2 DEF Waits, StartsInOrder
  <2>5. y > z
    BY <1>10, <2>4
  <2> QED
    BY <1>13, <2>2, <2>3, <2>5
<1>17. LevelsMeasured(r)
  <2> SUFFICES ASSUME NEW i \in 1 .. Len(r), Len(r[i].samples) = frameSamples
               PROVE  r[i].level - r[i].samples[1] \in 0 .. (frameSamples - 1)
    BY DEF LevelsMeasured
  <2>1. i + 1 \in 1 .. Len(q) /\ r[i] = q[i + 1]
    BY <1>12
  <2> QED
    BY <2>1 DEF Waits, LevelsMeasured
<1>18. Waits(r, end, a, z)
  BY <1>12, <1>14, <1>15, <1>16, <1>17 DEF Waits
<1>19. Len(Tail(q)) < Len(q)
  BY ONLY <1>0, <1>11, <1>12
<1> QED
  BY ONLY <1>2, <1>3, <1>6, <1>8, <1>10, <1>11, <1>18, <1>19, Zenon

\* NextSample hands out the oldest frame.
LEMMA PopKeeps == ASSUME WriterInv, NextSamplePops PROVE WriterInv'
<1>0. /\ carried' = carried /\ written' = written /\ cleared' = cleared /\ carriedFrom' = carriedFrom
      /\ level' = level /\ clears' = clears /\ writerClosed' = writerClosed
  BY DEF NextSamplePops, carriedFrom
<1>1. /\ Waits(queue, carriedFrom, cleared, lastHanded) /\ Len(queue) <= maxFrames /\ Len(queue) \in Nat
      /\ maxFrames \in Nat
  BY AudioWriterAssumption DEF WriterInv, Waits
<1>2. /\ Len(carried') < frameSamples /\ Len(carried') <= written'
      /\ \A j \in 1 .. Len(carried') : carried'[j] = carriedFrom' + j - 1
  BY <1>0 DEF WriterInv
<1>3. CASE queue = <<>>
  <2>1. queue' = queue /\ handed' = handed /\ popped' = silenceLevel
    BY <1>3 DEF NextSamplePops
  <2>2. lastHanded' = lastHanded
    BY <2>1 DEF lastHanded
  <2>3. Waits(queue', carriedFrom', cleared', lastHanded')
    BY <1>0, <1>1, <2>1, <2>2
  <2>4. Waits(queue, carriedFrom, cleared, lastHanded)'
    BY <2>3 DEF Waits, NoHole, StartsInOrder, StartsAfter, LevelsMeasured, startIn
  <2>5. AudioWriterTypeOK'
    BY <1>0, <2>1 DEF WriterInv, AudioWriterTypeOK, silenceLevel
  <2>6. /\ Len(queue') <= maxFrames
        /\ \A i \in 1 .. Len(handed'.samples) :
             handed'.samples[i] > handed'.previous /\ handed'.samples[i] > handed'.after
    BY <1>1, <2>1 DEF WriterInv
  <2> QED
    BY <1>2, <2>4, <2>5, <2>6 DEF WriterInv
<1>4. CASE queue # <<>>
  <2>1. PICK f : f = Head(queue)
    OBVIOUS
  <2>2. /\ queue' = Tail(queue) /\ popped' = f.level
        /\ handed' = [samples |-> f.samples, after |-> cleared, previous |-> lastHanded]
    BY <1>4, <2>1 DEF NextSamplePops, lastHanded
  <2>3. /\ f.samples \in Seq(Nat) /\ f.samples # <<>> /\ f.level \in Nat
        /\ \A i \in 1 .. Len(f.samples) : f.samples[i] > cleared /\ f.samples[i] > lastHanded
        /\ Waits(Tail(queue), carriedFrom, cleared, Last(f.samples)) /\ Len(Tail(queue)) < Len(queue)
    BY <1>1, <1>4, <2>1, CarriedIsNew, TailWaits
  <2>4. handed'.samples = f.samples /\ handed'.after = cleared /\ handed'.previous = lastHanded
    BY <2>2
  <2>5. lastHanded' = Last(f.samples)
    BY <2>3, <2>4 DEF lastHanded
  <2>6. Waits(queue', carriedFrom', cleared', lastHanded')
    BY <1>0, <2>2, <2>3, <2>5
  <2>7. Waits(queue, carriedFrom, cleared, lastHanded)'
    BY <2>6 DEF Waits, NoHole, StartsInOrder, StartsAfter, LevelsMeasured, startIn
  <2>8. AudioWriterTypeOK'
    <3>1. handed' \in [samples : Seq(Nat), after : Nat, previous : Nat]
      BY <2>2, <2>3, CarriedIsNew
    <3>2. popped' \in Nat
      BY <2>2, <2>3
    <3> QED
      BY <1>0, <3>1, <3>2 DEF WriterInv, AudioWriterTypeOK
  <2>9. Len(queue') <= maxFrames
    <3>1. Tail(queue) \in Seq(QueuedFrame) /\ Len(Tail(queue)) \in Nat
      BY <2>3 DEF Waits
    <3> QED
      BY <1>1, <2>2, <2>3, <3>1
  <2>10. \A i \in 1 .. Len(handed'.samples) :
           handed'.samples[i] > handed'.previous /\ handed'.samples[i] > handed'.after
    BY <2>3, <2>4
  <2> QED
    BY <1>2, <2>7, <2>8, <2>9, <2>10 DEF WriterInv
<1> QED
  BY <1>3, <1>4

\* Storing the level, or nothing at all, disturbs no sample.
LEMMA LevelKeeps ==
    ASSUME WriterInv, NextSampleStoresLevel \/ UNCHANGED audioWriterVars
    PROVE  WriterInv'
<1>1. /\ UNCHANGED <<written, carried, queue, writerClosed, handed, cleared, clears>>
      /\ carriedFrom' = carriedFrom /\ lastHanded' = lastHanded
  BY DEF NextSampleStoresLevel, audioWriterVars, writerHistory, carriedFrom, lastHanded
<1>2. AudioWriterTypeOK
  BY DEF WriterInv
<1>3. level' \in Nat /\ popped' \in Nat \cup {NotPopped}
  BY <1>2 DEF NextSampleStoresLevel, audioWriterVars, AudioWriterTypeOK
<1>4. AudioWriterTypeOK'
  BY <1>1, <1>2, <1>3 DEF AudioWriterTypeOK
<1>5. Waits(queue', carriedFrom', cleared', lastHanded')
  BY <1>1 DEF WriterInv
<1>6. Waits(queue, carriedFrom, cleared, lastHanded)'
  BY <1>5 DEF Waits, NoHole, StartsInOrder, StartsAfter, LevelsMeasured, startIn
<1>7. /\ Len(carried') < frameSamples /\ Len(carried') <= written'
      /\ \A j \in 1 .. Len(carried') : carried'[j] = carriedFrom' + j - 1
      /\ Len(queue') <= maxFrames
      /\ \A i \in 1 .. Len(handed'.samples) :
           handed'.samples[i] > handed'.previous /\ handed'.samples[i] > handed'.after
  BY <1>1 DEF WriterInv
<1> QED
  BY <1>4, <1>6, <1>7 DEF WriterInv

LEMMA WriterInvStep == WriterInv /\ [AudioWriterNext]_audioWriterVars => WriterInv'
<1> SUFFICES ASSUME WriterInv, [AudioWriterNext]_audioWriterVars PROVE WriterInv'
  OBVIOUS
<1>1. ASSUME NEW n \in WriteSizes, Write(n) PROVE WriterInv'
  BY <1>1, WriteKeeps
<1>2. CASE Flush
  BY <1>2, FlushKeeps
<1>3. CASE Clear
  BY <1>3, ClearKeeps
<1>4. CASE CloseWriter
  BY <1>4, CloseWriterKeeps
<1>5. CASE NextSamplePops
  BY <1>5, PopKeeps
<1>6. CASE NextSampleStoresLevel \/ UNCHANGED audioWriterVars
  BY <1>6, LevelKeeps
<1> QED
  BY <1>1, <1>2, <1>3, <1>4, <1>5, <1>6 DEF AudioWriterNext

\* Whatever the sizes of the writes, and however Write, Flush, Clear, Close and
\* NextSample interleave, what waits is the newest audio without a hole, nothing is
\* heard twice or after it was cleared, and levels belong to their frames.
THEOREM PlaysNewestCorrect == AudioWriterSpec => []PlaysNewest
<1>1. WriterInv => PlaysNewest
  <2> SUFFICES ASSUME WriterInv PROVE PlaysNewest
    OBVIOUS
  <2>1. handed.samples \in Seq(Nat) /\ carried \in Seq(Nat) /\ queue \in Seq(QueuedFrame)
    BY DEF WriterInv, AudioWriterTypeOK, Waits
  <2>2. /\ DOMAIN handed.samples = 1 .. Len(handed.samples) /\ DOMAIN carried = 1 .. Len(carried)
        /\ DOMAIN queue = 1 .. Len(queue)
    BY <2>1
  <2>3. NoHole(queue, carriedFrom) /\ LevelsMeasured(queue)
    BY DEF WriterInv, Waits
  <2> QED
    BY <2>2, <2>3 DEF WriterInv, PlaysNewest, LevelsMeasured
<1> QED
  BY <1>1, WriterInvInit, WriterInvStep, PTL DEF AudioWriterSpec
(***************************************************************************)
(* PcmBuffer.                                                              *)
(***************************************************************************)

\* The i-th byte of a stream of n bytes padded with silence.
streamByte(n, i) == IF i <= n THEN i ELSE 0

\* f is a stream of n bytes cut into frames of size fs.
CutsStream(f, fs, n) ==
    /\ f \in Seq(Seq(Nat))
    /\ \A k \in 1 .. Len(f) :
         Len(f[k]) = fs /\ \A j \in 1 .. fs : f[k][j] = streamByte(n, (k - 1) * fs + j)

PcmTypeOK ==
    /\ total \in Nat /\ channels \in Nat \ {0} /\ bytesFed \in Nat /\ alignerBuf \in Seq(Nat)
    /\ streamState \in {"streaming", "eof", "failed", "stopped"}
    /\ chunkArgs \in [size : Nat, step : Nat, padLast : BOOLEAN] /\ chunkAt \in Nat

\* The frames are the stream and the aligner has the rest.
AlignerInv ==
    LET inFrames == Len(pcmFrames) * frameSize IN
    /\ CutsStream(pcmFrames, frameSize, bytesFed)
    /\ Len(alignerBuf) < frameSize
    /\ \A j \in 1 .. Len(alignerBuf) : alignerBuf[j] = inFrames + j
    /\ streamState # "eof" => inFrames + Len(alignerBuf) = bytesFed
    /\ streamState = "eof" =>
         bytesFed = total /\ alignerBuf = <<>> /\ inFrames - total \in 0 .. (frameSize - 1)

\* Nothing is cut out of a stream that has not ended.
PcmInv ==
    /\ PcmTypeOK /\ AlignerInv
    /\ streamState # "eof" => view.frames = <<>> /\ chunkArgs = NoArgs
    /\ keepsTime(view)

-----------------------------------------------------------------------------
\* A quotient of a sum is the sum of the quotients, or one more.
LEMMA QuotientOfSum ==
    ASSUME NEW a \in Nat, NEW b \in Nat, NEW d \in Nat \ {0}
    PROVE  (a + b) \div d - ((a \div d) + (b \div d)) \in {0, 1}
<1>1. PICK x \in Nat : x = a \div d /\ x * d <= a /\ a < x * d + d
  BY Quotient
<1>2. PICK y \in Nat : y = b \div d /\ y * d <= b /\ b < y * d + d
  BY Quotient
<1>3. PICK z \in Nat : z = (a + b) \div d /\ z * d <= a + b /\ a + b < z * d + d
  <2>1. a + b \in Nat
    OBVIOUS
  <2> QED
    BY <2>1, Quotient
<1>4. x + y <= z
  <2> SUFFICES ASSUME ~(x + y <= z) PROVE FALSE
    OBVIOUS
  <2>1. z + 1 <= x + y /\ z + 1 \in Nat /\ x + y \in Nat
    BY <1>1, <1>2, <1>3
  <2>2. (z + 1) * d <= (x + y) * d
    BY ONLY <2>1, d \in Nat \ {0}, ProductGrows
  <2>3. (z + 1) * d = z * d + d /\ (x + y) * d = x * d + y * d
    OBVIOUS
  <2>4. x * d \in Nat /\ y * d \in Nat /\ z * d \in Nat
    OBVIOUS
  <2> QED
    BY ONLY <1>1, <1>2, <1>3, <2>2, <2>3, <2>4, a \in Nat, b \in Nat, d \in Nat
<1>5. z <= x + y + 1
  <2> SUFFICES ASSUME ~(z <= x + y + 1) PROVE FALSE
    OBVIOUS
  <2>1. x + y + 2 <= z /\ x + y + 2 \in Nat
    BY <1>1, <1>2, <1>3
  <2>2. (x + y + 2) * d <= z * d
    BY ONLY <2>1, z \in Nat, d \in Nat \ {0}, ProductGrows
  <2>3. (x + y + 2) * d = x * d + y * d + d + d
    OBVIOUS
  <2>4. x * d \in Nat /\ y * d \in Nat /\ z * d \in Nat
    OBVIOUS
  <2> QED
    BY ONLY <1>1, <1>2, <1>3, <2>2, <2>3, <2>4, a \in Nat, b \in Nat, d \in Nat
<1> QED
  BY <1>1, <1>2, <1>3, <1>4, <1>5

\* Two stretches of frames, timed apart, lose at most the tick their sum keeps.
LEMMA TimeOfSum ==
    ASSUME NEW m \in Nat, NEW n \in Nat
    PROVE  /\ timeOf(m) \in Nat /\ timeOf(n) \in Nat /\ timeOf(m + n) \in Nat
           /\ timeOf(m + n) - (timeOf(m) + timeOf(n)) \in {0, 1}
<1>0. Second \in Nat \ {0} /\ PcmRate \in Nat \ {0}
  BY PcmBufferAssumption
<1>1. PICK a \in Nat : a = m * Second
  BY <1>0
<1>2. PICK b \in Nat : b = n * Second
  BY <1>0
<1>3. (m + n) * Second = a + b
  <2>1. (m + n) * Second = m * Second + n * Second
    BY ONLY <1>0, m \in Nat, n \in Nat
  <2> QED
    BY <1>1, <1>2, <2>1
<1>4. timeOf(m) = a \div PcmRate /\ timeOf(n) = b \div PcmRate /\ timeOf(m + n) = (a + b) \div PcmRate
  BY <1>1, <1>2, <1>3 DEF timeOf
<1>5. (a + b) \div PcmRate - ((a \div PcmRate) + (b \div PcmRate)) \in {0, 1}
  BY <1>0, QuotientOfSum
<1>6. a \div PcmRate \in Nat /\ b \div PcmRate \in Nat /\ (a + b) \div PcmRate \in Nat
  <2>1. a + b \in Nat
    OBVIOUS
  <2> QED
    BY <1>0, <2>1, Quotient
<1> QED
  BY <1>4, <1>5, <1>6

\* A frame has bytes.
LEMMA FrameSizeType == ASSUME PcmTypeOK PROVE frameSize \in Nat \ {0}
<1>1. BytesPerSample \in Nat \ {0} /\ channels \in Nat \ {0}
  BY PcmBufferAssumption DEF PcmTypeOK
<1>2. BytesPerSample * channels \in Nat \ {0}
  BY ONLY <1>1
<1> QED
  BY <1>2 DEF frameSize

\* Quotient and remainder make up the number.
LEMMA DivMod ==
    ASSUME NEW a \in Int, NEW d \in Nat \ {0}
    PROVE  (a % d) \in 0 .. d - 1 /\ a = (a \div d) * d + (a % d)
<1>1. (a % d) \in 0 .. d - 1
  OBVIOUS
<1>2. a = (a \div d) * d + (a % d)
  OBVIOUS
<1> QED
  BY <1>1, <1>2, Zenon

\* FromBytes cuts a sequence of bytes into frames and drops what is left.
LEMMA FramesOfBytes ==
    ASSUME NEW b \in Seq(Nat), PcmTypeOK
    PROVE  /\ Len(b) \div frameSize \in Nat /\ Len(b) % frameSize \in 0 .. frameSize - 1
           /\ Len(b) = (Len(b) \div frameSize) * frameSize + (Len(b) % frameSize)
           /\ FromBytes(b) \in Seq(Seq(Nat)) /\ Len(FromBytes(b)) = Len(b) \div frameSize
           /\ \A k \in 1 .. Len(b) \div frameSize :
                /\ Len(FromBytes(b)[k]) = frameSize
                /\ \A j \in 1 .. frameSize :
                     /\ (k - 1) * frameSize + j \in 1 .. Len(b)
                     /\ FromBytes(b)[k][j] = b[(k - 1) * frameSize + j]
<1>0. PICK fs \in Nat \ {0} : fs = frameSize
  BY FrameSizeType
<1>1. PICK l \in Nat : l = Len(b)
  OBVIOUS
<1>2. PICK W \in Nat : W = l \div fs /\ W * fs <= l /\ l < W * fs + fs
  BY ONLY <1>0, <1>1, Quotient
<1>3. l % fs \in 0 .. fs - 1 /\ l = W * fs + (l % fs)
  <2>1. l \in Int
    OBVIOUS
  <2>2. l % fs \in 0 .. fs - 1 /\ l = (l \div fs) * fs + (l % fs)
    BY <2>1, DivMod
  <2> QED
    BY ONLY <1>2, <2>2, Zenon
<1>4. FromBytes(b) = [k \in 1 .. W |-> SubSeq(b, (k - 1) * fs + 1, k * fs)]
  <2>1. Len(b) \div frameSize = W
    BY ONLY <1>0, <1>1, <1>2
  <2>2. FromBytes(b) = [k \in 1 .. W |-> SubSeq(b, (k - 1) * frameSize + 1, k * frameSize)]
    BY ONLY <2>1, Zenon DEF FromBytes
  <2> QED
    BY ONLY <2>2, <1>0, Zenon
<1>5. ASSUME NEW k \in 1 .. W
      PROVE  /\ SubSeq(b, (k - 1) * fs + 1, k * fs) \in Seq(Nat)
             /\ Len(SubSeq(b, (k - 1) * fs + 1, k * fs)) = fs
             /\ \A j \in 1 .. fs : /\ (k - 1) * fs + j \in 1 .. l
                                   /\ SubSeq(b, (k - 1) * fs + 1, k * fs)[j] = b[(k - 1) * fs + j]
  <2>1. PICK p \in Nat : k = p + 1 /\ p = k - 1 /\ k \in Nat /\ k <= W
    <3>1. k - 1 \in Nat /\ k = (k - 1) + 1 /\ k \in Nat /\ k <= W
      BY <1>2
    <3> QED
      BY ONLY <3>1
  <2>2. PICK x \in Nat : x = p * fs
    BY <1>0, <2>1
  <2>3. (k - 1) * fs = x /\ k * fs = x + fs
    <3>1. (p + 1) * fs = p * fs + fs
      BY ONLY p \in Nat, fs \in Nat \ {0}
    <3> QED
      BY ONLY <2>1, <2>2, <3>1
  <2>4. k * fs <= W * fs
    BY ONLY k \in Nat, W \in Nat, fs \in Nat \ {0}, <2>1, ProductGrows
  <2>5. x + fs <= l
    <3>1. W * fs \in Nat
      BY ONLY W \in Nat, fs \in Nat
    <3> QED
      BY ONLY <1>2, <2>3, <2>4, <3>1, x \in Nat, fs \in Nat, l \in Nat
  <2>6. SubSeq(b, x + 1, x + fs) \in Seq(Nat)
    BY ONLY <1>1, <2>5, x \in Nat, fs \in Nat, b \in Seq(Nat)
  <2>7. Len(SubSeq(b, x + 1, x + fs)) = fs
    BY ONLY <1>1, <2>5, x \in Nat, fs \in Nat, b \in Seq(Nat)
  <2>8. \A j \in 1 .. fs : x + j \in 1 .. l /\ SubSeq(b, x + 1, x + fs)[j] = b[x + j]
    BY ONLY <1>1, <2>5, x \in Nat, fs \in Nat, l \in Nat, b \in Seq(Nat)
  <2> QED
    BY ONLY <2>3, <2>6, <2>7, <2>8
<1>6. FromBytes(b) \in Seq(Seq(Nat)) /\ Len(FromBytes(b)) = W
  <2>1. \A k \in 1 .. W : SubSeq(b, (k - 1) * fs + 1, k * fs) \in Seq(Nat)
    BY ONLY <1>5, Zenon
  <2>2. PICK g : g = [k \in 1 .. W |-> SubSeq(b, (k - 1) * fs + 1, k * fs)]
    OBVIOUS
  <2>3. DOMAIN g = 1 .. W /\ \A k \in 1 .. W : g[k] \in Seq(Nat)
    BY ONLY <2>1, <2>2
  <2>4. g = [k \in 1 .. W |-> g[k]]
    BY ONLY <2>2
  <2>5. g \in Seq(Seq(Nat)) /\ Len(g) = W
    <3>1. g \in [1 .. W -> Seq(Nat)]
      BY ONLY <2>3, <2>4
    <3>2. g \in Seq(Seq(Nat))
      <4>1. Seq(Seq(Nat)) = UNION {[1 .. n -> Seq(Nat)] : n \in Nat}
        BY SeqDef, Zenon
      <4>2. [1 .. W -> Seq(Nat)] \in {[1 .. n -> Seq(Nat)] : n \in Nat}
        BY Zenon
      <4> QED
        BY <3>1, <4>1, <4>2, Zenon
    <3>3. DOMAIN g = 1 .. Len(g) /\ Len(g) \in Nat
      BY ONLY <3>2, LenProperties
    <3> QED
      BY ONLY <2>3, <3>2, <3>3, W \in Nat
  <2> QED
    BY ONLY <1>4, <2>2, <2>5
<1>7. \A k \in 1 .. W : FromBytes(b)[k] = SubSeq(b, (k - 1) * fs + 1, k * fs)
  BY ONLY <1>4
<1>8. \A k \in 1 .. W :
        /\ Len(FromBytes(b)[k]) = fs
        /\ \A j \in 1 .. fs : /\ (k - 1) * fs + j \in 1 .. l
                              /\ FromBytes(b)[k][j] = b[(k - 1) * fs + j]
  BY ONLY <1>5, <1>7
<1> QED
  BY ONLY <1>0, <1>1, <1>2, <1>3, <1>6, <1>8
\* A byte of a frame of f lies before the end of the frames.
LEMMA ByteWithin ==
    ASSUME NEW l \in Nat, NEW fs \in Nat \ {0}, NEW k \in 1 .. l, NEW j \in 1 .. fs
    PROVE  (k - 1) * fs + j \in Nat /\ (k - 1) * fs + j <= l * fs
<1>1. PICK p \in Nat : p = k - 1 /\ p + 1 <= l
  <2>1. k - 1 \in Nat /\ (k - 1) + 1 <= l
    OBVIOUS
  <2> QED
    BY ONLY <2>1
<1>2. p * fs \in Nat /\ l * fs \in Nat /\ (p + 1) * fs = p * fs + fs
  BY ONLY p \in Nat, l \in Nat, fs \in Nat \ {0}
<1>3. (p + 1) * fs <= l * fs
  <2>1. p + 1 \in Nat /\ fs \in Nat
    OBVIOUS
  <2> QED
    BY ONLY <1>1, <2>1, l \in Nat, ProductGrows
<1>4. p * fs + j \in Nat /\ p * fs + j <= l * fs
  BY ONLY <1>2, <1>3, j \in 1 .. fs, fs \in Nat
<1> QED
  BY ONLY <1>1, <1>4

\* Frames without padding stay what they are when the stream goes on.
LEMMA StreamGoesOn ==
    ASSUME NEW f, NEW fs \in Nat \ {0}, NEW n \in Nat, NEW m \in Nat,
           CutsStream(f, fs, n), Len(f) * fs <= n, n <= m
    PROVE  CutsStream(f, fs, m)
<1>0. f \in Seq(Seq(Nat)) /\ Len(f) \in Nat
  BY DEF CutsStream
<1>1. Len(f) * fs \in Nat
  BY ONLY <1>0, fs \in Nat
<1>2. ASSUME NEW k \in 1 .. Len(f)
      PROVE  Len(f[k]) = fs /\ \A j \in 1 .. fs : f[k][j] = streamByte(m, (k - 1) * fs + j)
  <2>1. Len(f[k]) = fs /\ \A j \in 1 .. fs : f[k][j] = streamByte(n, (k - 1) * fs + j)
    BY DEF CutsStream
  <2>2. ASSUME NEW j \in 1 .. fs PROVE f[k][j] = streamByte(m, (k - 1) * fs + j)
    <3>1. PICK x \in Nat : x = (k - 1) * fs + j /\ x <= Len(f) * fs
      BY <1>0, ByteWithin
    <3>2. x <= n /\ x <= m
      BY ONLY <1>1, <3>1, n \in Nat, m \in Nat, Len(f) * fs <= n, n <= m
    <3>3. streamByte(n, x) = streamByte(m, x)
      BY <3>2 DEF streamByte
    <3> QED
      BY <2>1, <3>1, <3>3
  <2> QED
    BY <2>1, <2>2
<1> QED
  BY <1>0, <1>2 DEF CutsStream

\* The frames of the bytes that follow continue the cut.
LEMMA CutGoesOn ==
    ASSUME NEW f, NEW fs, NEW n \in Nat, NEW b \in Seq(Nat), PcmTypeOK, fs = frameSize,
           CutsStream(f, fs, n),
           \A i \in 1 .. Len(b) : b[i] = streamByte(n, Len(f) * fs + i)
    PROVE  CutsStream(f \o FromBytes(b), fs, n) /\ Len(f \o FromBytes(b)) = Len(f) + (Len(b) \div fs)
<1>0. f \in Seq(Seq(Nat)) /\ Len(f) \in Nat /\ fs \in Nat \ {0}
  BY FrameSizeType DEF CutsStream
<1>1. PICK W \in Nat : W = Len(b) \div fs
  BY FramesOfBytes
<1>2. PICK g : g = FromBytes(b)
  OBVIOUS
<1>3. /\ g \in Seq(Seq(Nat)) /\ Len(g) = W
      /\ \A k \in 1 .. W : /\ Len(g[k]) = fs
                           /\ \A j \in 1 .. fs : (k - 1) * fs + j \in 1 .. Len(b) /\ g[k][j] = b[(k - 1) * fs + j]
  <2>1. /\ FromBytes(b) \in Seq(Seq(Nat)) /\ Len(FromBytes(b)) = Len(b) \div frameSize
        /\ \A k \in 1 .. Len(b) \div frameSize :
             /\ Len(FromBytes(b)[k]) = frameSize
             /\ \A j \in 1 .. frameSize :
                  /\ (k - 1) * frameSize + j \in 1 .. Len(b)
                  /\ FromBytes(b)[k][j] = b[(k - 1) * frameSize + j]
    BY FramesOfBytes, Zenon
  <2>2. Len(b) \div frameSize = W
    BY <1>1
  <2> QED
    BY ONLY <1>2, <2>1, <2>2, fs = frameSize, Zenon
<1>4. PICK c : c = f \o g
  OBVIOUS
<1>5. c \in Seq(Seq(Nat)) /\ Len(c) = Len(f) + W
  <2>1. f \in Seq(Seq(Nat)) /\ g \in Seq(Seq(Nat)) /\ Len(g) = W
    BY <1>0, <1>3
  <2> QED
    BY ONLY <2>1, <1>4, ConcatProperties
<1>6. /\ \A k \in 1 .. Len(f) : c[k] = f[k]
      /\ \A k \in 1 .. W : c[Len(f) + k] = g[k]
  <2>1. f \in Seq(Seq(Nat)) /\ g \in Seq(Seq(Nat)) /\ Len(g) = W
    BY <1>0, <1>3
  <2> QED
    BY ONLY <2>1, <1>4, W \in Nat
<1>7. ASSUME NEW k \in 1 .. Len(c)
      PROVE  Len(c[k]) = fs /\ \A j \in 1 .. fs : c[k][j] = streamByte(n, (k - 1) * fs + j)
  <2>1. CASE k \in 1 .. Len(f)
    BY <1>6, <2>1 DEF CutsStream
  <2>2. CASE k \notin 1 .. Len(f)
    <3>1. PICK i \in 1 .. W : k = Len(f) + i
      <4>1. k - Len(f) \in 1 .. W /\ k = Len(f) + (k - Len(f))
        BY ONLY <1>0, <1>5, <2>2, k \in 1 .. Len(c), W \in Nat
      <4> QED
        BY ONLY <4>1
    <3>2. c[k] = g[i] /\ Len(g[i]) = fs
      BY <1>3, <1>6, <3>1
    <3>3. ASSUME NEW j \in 1 .. fs PROVE c[k][j] = streamByte(n, (k - 1) * fs + j)
      <4>1. PICK x \in 1 .. Len(b) : x = (i - 1) * fs + j
        BY <1>3
      <4>2. g[i][j] = b[x]
        BY <1>3, <4>1
      <4>3. b[x] = streamByte(n, Len(f) * fs + x)
        OBVIOUS
      <4>4. Len(f) * fs + x = (k - 1) * fs + j
        <5>1. PICK p \in Nat : p = i - 1
          <6>1. i - 1 \in Nat
            BY <1>1
          <6> QED
            BY ONLY <6>1
        <5>2. PICK l \in Nat : l = Len(f)
          BY <1>0
        <5>3. k - 1 = l + p
          BY ONLY <1>1, <3>1, <5>1, <5>2, i \in 1 .. W
        <5>4. (l + p) * fs = l * fs + p * fs /\ l * fs \in Nat /\ p * fs \in Nat
          BY ONLY <1>0, l \in Nat, p \in Nat
        <5>5. x = p * fs + j
          BY ONLY <4>1, <5>1
        <5>6. l * fs + x = (l + p) * fs + j
          BY ONLY <5>4, <5>5, <1>0, j \in 1 .. fs
        <5> QED
          BY ONLY <5>2, <5>3, <5>6
      <4> QED
        BY ONLY <3>2, <4>2, <4>3, <4>4
    <3> QED
      BY <3>2, <3>3
  <2> QED
    BY <2>1, <2>2
<1>8. CutsStream(c, fs, n)
  BY <1>5, <1>7 DEF CutsStream
<1> QED
  BY ONLY <1>1, <1>2, <1>4, <1>5, <1>8
\* What Aligner keeps, and what Flush makes of it: nothing, or one frame padded with silence.
LEMMA RemainderOf ==
    ASSUME NEW b \in Seq(Nat), PcmTypeOK
    PROVE  LET m == Len(b) % frameSize
               W == Len(b) \div frameSize
               r == remainder(b)
               p == padded(r)
           IN  /\ m \in Nat /\ m < frameSize /\ W \in Nat /\ W * frameSize \in Nat
               /\ Len(b) = W * frameSize + m
               /\ r \in Seq(Nat) /\ Len(r) = m
               /\ \A j \in 1 .. m : W * frameSize + j \in 1 .. Len(b) /\ r[j] = b[W * frameSize + j]
               /\ p \in Seq(Nat) /\ Len(p) = IF m = 0 THEN 0 ELSE frameSize
               /\ Len(p) \div frameSize = IF m = 0 THEN 0 ELSE 1
               /\ \A j \in 1 .. Len(p) : p[j] = IF j <= m THEN r[j] ELSE 0
<1>0. PICK fs \in Nat \ {0} : fs = frameSize
  BY FrameSizeType
<1>1. PICK l \in Nat : l = Len(b)
  OBVIOUS
<1>2. PICK m \in Nat : m = l % fs /\ m < fs
  <2>1. l \in Int
    OBVIOUS
  <2>2. l % fs \in 0 .. fs - 1
    BY <2>1, DivMod
  <2> QED
    BY <2>2
<1>3. PICK W \in Nat : W = l \div fs
  BY Quotient
<1>4. PICK x \in Nat : x = W * fs
  OBVIOUS
<1>5. l = x + m
  <2>1. l \in Int
    OBVIOUS
  <2>2. l = (l \div fs) * fs + (l % fs)
    BY <2>1, DivMod
  <2> QED
    BY ONLY <1>2, <1>3, <1>4, <2>2
<1>6. PICK r : r = remainder(b)
  OBVIOUS
<1>7. r = SubSeq(b, x + 1, l)
  <2>1. l - m + 1 = x + 1
    BY ONLY <1>5, x \in Nat, m \in Nat
  <2>2. remainder(b) = SubSeq(b, l - m + 1, l)
    BY ONLY <1>0, <1>1, <1>2, Zenon DEF remainder
  <2> QED
    BY ONLY <1>6, <2>1, <2>2
<1>8. r \in Seq(Nat)
  <2>1. \A i \in x + 1 .. l : b[i] \in Nat
    BY ONLY <1>1, x \in Nat, l \in Nat, b \in Seq(Nat)
  <2>2. x + 1 \in Int /\ l \in Int
    OBVIOUS
  <2>3. SubSeq(b, x + 1, l) \in Seq(Nat)
    BY ONLY <2>1, <2>2, SubSeqProperties
  <2> QED
    BY ONLY <1>7, <2>3
<1>9. Len(r) = m
  BY ONLY <1>1, <1>5, <1>7, x \in Nat, m \in Nat, b \in Seq(Nat)
<1>10. \A j \in 1 .. m : x + j \in 1 .. l /\ r[j] = b[x + j]
  BY ONLY <1>1, <1>5, <1>7, x \in Nat, m \in Nat, b \in Seq(Nat)
<1>11. PICK d \in Nat : d = (fs - (m % fs)) % fs /\ d = IF m = 0 THEN 0 ELSE fs - m
  <2>1. m % fs = m
    <3>1. 0 \in Int /\ m \in Int /\ m \in 0 .. fs - 1 /\ m = 0 * fs + m
      BY <1>2
    <3> QED
      BY ONLY <3>1, fs \in Nat \ {0}, RemainderUnique
  <2>2. CASE m = 0
    <3>1. (fs - 0) % fs = 0
      BY ONLY fs \in Nat \ {0}
    <3> QED
      BY ONLY <2>1, <2>2, <3>1
  <2>3. CASE m # 0
    <3>1. PICK e \in Nat : e = fs - m /\ e < fs
      <4>1. fs - m \in Nat /\ fs - m < fs
        BY ONLY <1>2, <2>3, m \in Nat, fs \in Nat
      <4> QED
        BY ONLY <4>1
    <3>2. e % fs = e
      BY ONLY <3>1, e \in Nat, fs \in Nat \ {0}
    <3> QED
      BY ONLY <2>1, <2>3, <3>1, <3>2, e \in Nat
  <2> QED
    BY <2>2, <2>3
<1>12. PICK z : z = [i \in 1 .. d |-> 0]
  OBVIOUS
<1>13. z \in Seq(Nat) /\ Len(z) = d /\ \A i \in 1 .. d : z[i] = 0
  BY ONLY <1>12, d \in Nat
<1>14. PICK p : p = padded(r)
  OBVIOUS
<1>15. p = r \o z
  <2>1. (frameSize - (Len(r) % frameSize)) % frameSize = d
    BY ONLY <1>0, <1>9, <1>11
  <2> QED
    BY ONLY <1>12, <1>14, <2>1, Zenon DEF padded
<1>16. p \in Seq(Nat) /\ Len(p) = m + d
  <2>1. z \in Seq(Nat) /\ Len(z) = d
    BY <1>13
  <2> QED
    BY ONLY <1>8, <1>9, <1>15, <2>1, ConcatProperties
<1>17. \A j \in 1 .. m + d : p[j] = IF j <= m THEN r[j] ELSE 0
  <2> SUFFICES ASSUME NEW j \in 1 .. m + d PROVE p[j] = IF j <= m THEN r[j] ELSE 0
    OBVIOUS
  <2>1. CASE j <= m
    BY ONLY <1>8, <1>9, <1>13, <1>15, <2>1, j \in 1 .. m + d, m \in Nat, d \in Nat
  <2>2. CASE ~(j <= m)
    <3>1. p[j] = z[j - m] /\ j - m \in 1 .. d
      BY ONLY <1>8, <1>9, <1>13, <1>15, <2>2, j \in 1 .. m + d, m \in Nat, d \in Nat
    <3> QED
      BY ONLY <1>13, <2>2, <3>1
  <2> QED
    BY <2>1, <2>2
<1>18. m + d = IF m = 0 THEN 0 ELSE fs
  BY ONLY <1>11, m \in Nat, fs \in Nat
<1>19. (m + d) \div fs = IF m = 0 THEN 0 ELSE 1
  <2>1. 0 \div fs = 0 /\ fs \div fs = 1
    BY ONLY fs \in Nat \ {0}
  <2> QED
    BY ONLY <1>18, <2>1
<1> QED
  BY ONLY <1>0, <1>1, <1>2, <1>3, <1>4, <1>5, <1>6, <1>8, <1>9, <1>10, <1>14, <1>16, <1>17, <1>18, <1>19,
          m \in Nat, W \in Nat, x \in Nat
LEMMA PcmInvInit == PcmInit => PcmInv
<1> SUFFICES ASSUME PcmInit PROVE PcmInv
  OBVIOUS
<1>1. PcmTypeOK
  <2>1. chunkArgs \in [size : Nat, step : Nat, padLast : BOOLEAN]
    BY DEF PcmInit, NoArgs
  <2>2. total \in Nat /\ channels \in Nat \ {0}
    BY PcmBufferAssumption DEF PcmInit
  <2> QED
    BY <2>1, <2>2 DEF PcmInit, PcmTypeOK
<1>2. frameSize \in Nat \ {0}
  BY <1>1, FrameSizeType
<1>3. pcmFrames = <<>> /\ Len(pcmFrames) = 0 /\ pcmFrames \in Seq(Seq(Nat)) /\ alignerBuf = <<>>
      /\ Len(alignerBuf) = 0 /\ bytesFed = 0 /\ streamState = "streaming"
  BY DEF PcmInit
<1>4. CutsStream(pcmFrames, frameSize, bytesFed)
  BY <1>3 DEF CutsStream
<1>5. 0 * frameSize = 0
  BY ONLY <1>2
<1>6. AlignerInv
  BY <1>2, <1>3, <1>4, <1>5 DEF AlignerInv
<1>7. view.frames = <<>> /\ DOMAIN view.frames = {} /\ chunkArgs = NoArgs
  BY DEF PcmInit, wholeBuffer
<1> QED
  BY <1>1, <1>6, <1>7 DEF PcmInv, keepsTime

\* A read of n bytes leaves the stream cut into frames.
LEMMA ReadStreamKeeps ==
    ASSUME PcmInv, NEW n \in Nat, NEW result \in {"streaming", "eof", "failed", "stopped"},
           ReadStream(n, result)
    PROVE  PcmInv'
<1>0. PICK fs \in Nat \ {0} : fs = frameSize
  BY FrameSizeType DEF PcmInv
<1>1. /\ PcmTypeOK /\ AlignerInv /\ bytesFed \in Nat /\ alignerBuf \in Seq(Nat)
      /\ streamState = "streaming" /\ view.frames = <<>> /\ chunkArgs = NoArgs
  BY DEF PcmInv, PcmTypeOK, ReadStream
<1>2. PICK l \in Nat : l = Len(pcmFrames)
  <2>1. CutsStream(pcmFrames, frameSize, bytesFed)
    BY ONLY <1>1 DEF AlignerInv
  <2>2. pcmFrames \in Seq(Seq(Nat))
    BY ONLY <2>1 DEF CutsStream
  <2> QED
    BY ONLY <2>2, LenProperties
<1>3. PICK x \in Nat : x = l * fs
  OBVIOUS
<1>4. PICK a \in Nat : a = Len(alignerBuf)
  BY <1>1
<1>5. /\ CutsStream(pcmFrames, fs, bytesFed) /\ x + a = bytesFed
      /\ \A j \in 1 .. a : alignerBuf[j] = x + j
  BY <1>0, <1>1, <1>2, <1>3, <1>4 DEF AlignerInv
<1>6. PICK N \in Nat : N = bytesFed + n
  BY <1>1
<1>7. PICK new : new = [i \in 1 .. n |-> bytesFed + i]
  OBVIOUS
<1>8. new \in Seq(Nat) /\ Len(new) = n /\ \A i \in 1 .. n : new[i] = bytesFed + i
  <2>1. new \in [1 .. n -> Nat]
    BY ONLY <1>1, <1>7
  <2>2. \A i \in 1 .. n : new[i] = bytesFed + i
    BY ONLY <1>7
  <2>3. n \in Nat
    BY ONLY <1>1
  <2>4. new \in Seq(Nat)
    BY ONLY <2>1, <2>3
  <2>5. Len(new) = n
    BY ONLY <2>1, <2>3, <2>4
  <2> QED
    BY ONLY <2>2, <2>4, <2>5, Zenon
<1>9. PICK b : b = alignerBuf \o new
  OBVIOUS
<1>10. b \in Seq(Nat) /\ Len(b) = a + n /\ x + Len(b) = N
  <2>1. new \in Seq(Nat) /\ Len(new) = n
    BY <1>8
  <2>2. b \in Seq(Nat) /\ Len(b) = a + n
    BY ONLY <1>1, <1>4, <1>9, <2>1, ConcatProperties
  <2> QED
    BY ONLY <1>5, <1>6, <2>2, x \in Nat, a \in Nat, n \in Nat
<1>11. ASSUME NEW i \in 1 .. Len(b) PROVE b[i] = x + i
  <2>1. b[i] = IF i <= a THEN alignerBuf[i] ELSE new[i - a]
    BY ONLY <1>1, <1>4, <1>8, <1>9, <1>10, i \in 1 .. Len(b), a \in Nat, n \in Nat
  <2>2. CASE i <= a
    <3>1. i \in 1 .. a
      BY ONLY <2>2, <1>10, i \in 1 .. Len(b), a \in Nat, n \in Nat
    <3> QED
      BY ONLY <1>5, <2>1, <2>2, <3>1
  <2>3. CASE ~(i <= a)
    <3>1. i - a \in 1 .. n /\ i \in Nat
      BY ONLY <2>3, <1>10, i \in 1 .. Len(b), a \in Nat, n \in Nat
    <3>2. b[i] = bytesFed + (i - a)
      BY ONLY <1>8, <2>1, <2>3, <3>1
    <3> QED
      BY ONLY <1>5, <3>1, <3>2, x \in Nat, a \in Nat
  <2> QED
    BY <2>2, <2>3
<1>12. \A i \in 1 .. Len(b) : b[i] = streamByte(N, Len(pcmFrames) * fs + i)
  <2> SUFFICES ASSUME NEW i \in 1 .. Len(b) PROVE b[i] = streamByte(N, Len(pcmFrames) * fs + i)
    OBVIOUS
  <2>1. x + i <= N
    BY ONLY <1>10, i \in 1 .. Len(b), a \in Nat, n \in Nat, x \in Nat
  <2>2. streamByte(N, x + i) = x + i
    BY ONLY <2>1 DEF streamByte
  <2> QED
    BY ONLY <1>2, <1>3, <1>11, <2>2, i \in 1 .. Len(b)
<1>13. CutsStream(pcmFrames, fs, N)
  <2>1. Len(pcmFrames) * fs <= bytesFed /\ bytesFed <= N
    BY ONLY <1>1, <1>2, <1>3, <1>5, <1>6, x \in Nat, a \in Nat, n \in Nat
  <2> QED
    BY <1>1, <1>5, <2>1, StreamGoesOn
<1>14. PICK W \in Nat, m \in Nat, y \in Nat : /\ W = Len(b) \div fs /\ m = Len(b) % fs /\ y = W * fs
                                             /\ Len(b) = y + m /\ m < fs
  <2>1. /\ Len(b) % frameSize \in Nat /\ Len(b) % frameSize < frameSize
        /\ Len(b) \div frameSize \in Nat /\ (Len(b) \div frameSize) * frameSize \in Nat
        /\ Len(b) = (Len(b) \div frameSize) * frameSize + (Len(b) % frameSize)
    BY <1>1, <1>10, RemainderOf, Zenon
  <2> QED
    BY ONLY <1>0, <2>1, Zenon
<1>15. PICK f1 : f1 = pcmFrames \o FromBytes(b)
  OBVIOUS
<1>16. CutsStream(f1, fs, N) /\ Len(f1) = l + W
  <2>1. /\ CutsStream(pcmFrames \o FromBytes(b), fs, N)
        /\ Len(pcmFrames \o FromBytes(b)) = Len(pcmFrames) + (Len(b) \div fs)
    <3>1. b \in Seq(Nat) /\ PcmTypeOK
      BY <1>1, <1>10
    <3> QED
      BY ONLY fs = frameSize, N \in Nat, <1>12, <1>13, <3>1, CutGoesOn, ZenonT(60)
  <2> QED
    BY ONLY <1>2, <1>14, <1>15, <2>1, Zenon
<1>17. Len(f1) * fs = x + y
  <2>1. (l + W) * fs = l * fs + W * fs
    BY ONLY l \in Nat, W \in Nat, fs \in Nat \ {0}
  <2> QED
    BY ONLY <1>3, <1>14, <1>16, <2>1
<1>18. PICK r : r = remainder(b)
  OBVIOUS
<1>19. r \in Seq(Nat) /\ Len(r) = m /\ \A j \in 1 .. m : y + j \in 1 .. Len(b) /\ r[j] = b[y + j]
  BY <1>0, <1>1, <1>10, <1>14, <1>18, RemainderOf
<1>20. \A j \in 1 .. m : r[j] = x + y + j
  <2> SUFFICES ASSUME NEW j \in 1 .. m PROVE r[j] = x + y + j
    OBVIOUS
  <2>1. PICK i \in 1 .. Len(b) : i = y + j
    BY <1>19
  <2>2. r[j] = b[i] /\ b[i] = x + i
    BY <1>11, <1>19, <2>1
  <2> QED
    BY ONLY <2>1, <2>2, x \in Nat, y \in Nat, j \in 1 .. m, m \in Nat
<1>21. /\ bytesFed' = N /\ streamState' = result /\ frameSize' = fs
       /\ total' = total /\ channels' = channels /\ chunkArgs' = chunkArgs /\ chunkAt' = chunkAt /\ view' = view
  BY <1>0, <1>6 DEF ReadStream, frameSize
<1>22. x + y + m = N
  BY ONLY <1>10, <1>14, x \in Nat, y \in Nat, m \in Nat
<1>23. AlignerInv' /\ alignerBuf' \in Seq(Nat)
  <2>1. CASE result # "eof"
    <3>1. pcmFrames' = f1 \o <<>> /\ alignerBuf' = r
      BY <1>7, <1>9, <1>15, <1>18, <2>1 DEF ReadStream
    <3>2. pcmFrames' = f1
      <4>1. f1 \in Seq(Seq(Nat))
        BY <1>16 DEF CutsStream
      <4> QED
        BY ONLY <3>1, <4>1, ConcatEmptySeq
    <3>3. CutsStream(pcmFrames', frameSize', bytesFed')
      BY <1>16, <1>21, <3>2
    <3>4. CutsStream(pcmFrames, frameSize, bytesFed)'
      BY <3>3 DEF CutsStream
    <3>5. PICK z \in Nat : z = Len(pcmFrames') * frameSize' /\ z = x + y
      BY <1>17, <1>21, <3>2
    <3>6. Len(alignerBuf') = m /\ \A j \in 1 .. m : alignerBuf'[j] = z + j
      BY <1>19, <1>20, <3>1, <3>5
    <3>7. z + m = bytesFed'
      BY <1>21, <1>22, <3>5
    <3>8. m < frameSize' /\ streamState' # "eof"
      BY <1>14, <1>21, <2>1
    <3>9. alignerBuf' \in Seq(Nat)
      BY <1>19, <3>1
    <3> QED
      BY <3>4, <3>5, <3>6, <3>7, <3>8, <3>9 DEF AlignerInv
  <2>2. CASE result = "eof"
    <3>1. PICK p : p = padded(r)
      OBVIOUS
    <3>2. pcmFrames' = f1 \o FromBytes(p) /\ alignerBuf' = <<>> /\ N = total
      BY <1>6, <1>7, <1>9, <1>15, <1>18, <2>2, <3>1 DEF ReadStream
    <3>3. /\ p \in Seq(Nat) /\ Len(p) = (IF m = 0 THEN 0 ELSE fs)
          /\ Len(p) \div fs = (IF m = 0 THEN 0 ELSE 1)
          /\ \A j \in 1 .. Len(p) : p[j] = IF j <= m THEN r[j] ELSE 0
      BY <1>0, <1>1, <1>10, <1>14, <1>18, <3>1, RemainderOf
    <3>4. \A j \in 1 .. Len(p) : p[j] = streamByte(N, Len(f1) * fs + j)
      <4> SUFFICES ASSUME NEW j \in 1 .. Len(p) PROVE p[j] = streamByte(N, x + y + j)
        BY <1>17
      <4>0. j \in Nat /\ j >= 1
        BY <3>3
      <4>1. CASE j <= m
        <5>1. j \in 1 .. m /\ x + y + j <= N
          BY ONLY <1>22, <4>0, <4>1, x \in Nat, y \in Nat, m \in Nat
        <5>2. p[j] = x + y + j
          BY <1>20, <3>3, <4>1, <5>1
        <5> QED
          BY ONLY <5>1, <5>2 DEF streamByte
      <4>2. CASE ~(j <= m)
        <5>1. ~(x + y + j <= N)
          BY ONLY <1>22, <4>0, <4>2, x \in Nat, y \in Nat, m \in Nat
        <5>2. p[j] = 0
          BY <3>3, <4>2
        <5> QED
          BY ONLY <5>1, <5>2 DEF streamByte
      <4> QED
        BY <4>1, <4>2
    <3>5. PICK w \in {0, 1} : w = (IF m = 0 THEN 0 ELSE 1)
      OBVIOUS
    <3>6. CutsStream(pcmFrames', fs, N) /\ Len(pcmFrames') = l + W + w
      <4>1. Len(p) \div fs = w
        BY <3>3, <3>5
      <4>2. p \in Seq(Nat)
        BY <3>3
      <4>3. CutsStream(f1 \o FromBytes(p), fs, N) /\ Len(f1 \o FromBytes(p)) = Len(f1) + (Len(p) \div fs)
        <5>1. PcmTypeOK /\ CutsStream(f1, fs, N)
          BY <1>1, <1>16
        <5> QED
          BY ONLY fs = frameSize, N \in Nat, <3>4, <4>2, <5>1, CutGoesOn, ZenonT(60)
      <4> QED
        BY ONLY <1>16, <3>2, <4>1, <4>3
    <3>7. CutsStream(pcmFrames, frameSize, bytesFed)'
      <4>1. CutsStream(pcmFrames', frameSize', bytesFed')
        BY <1>21, <3>6
      <4> QED
        BY <4>1 DEF CutsStream
    <3>8. PICK z \in Nat : z = Len(pcmFrames') * frameSize' /\ z - total \in 0 .. (fs - 1)
      <4>1. CASE m = 0
        <5>1. Len(pcmFrames') = l + W
          BY ONLY <3>5, <3>6, <4>1, l \in Nat, W \in Nat
        <5>2. Len(pcmFrames') * frameSize' = x + y
          BY ONLY <1>16, <1>17, <1>21, <5>1
        <5>3. x + y \in Nat /\ (x + y) - total \in 0 .. (fs - 1)
          BY ONLY <1>22, <3>2, <4>1, x \in Nat, y \in Nat, fs \in Nat \ {0}
        <5> QED
          BY ONLY <5>2, <5>3
      <4>2. CASE m # 0
        <5>1. Len(pcmFrames') = l + W + 1
          BY ONLY <3>5, <3>6, <4>2
        <5>2. (l + W + 1) * fs = (l + W) * fs + fs
          BY ONLY l \in Nat, W \in Nat, fs \in Nat \ {0}
        <5>3. Len(pcmFrames') * frameSize' = x + y + fs
          BY ONLY <1>16, <1>17, <1>21, <5>1, <5>2
        <5>4. x + y + fs \in Nat /\ (x + y + fs) - total \in 0 .. (fs - 1)
          BY ONLY <1>14, <1>22, <3>2, <4>2, x \in Nat, y \in Nat, m \in Nat, fs \in Nat \ {0}
        <5> QED
          BY ONLY <5>3, <5>4
      <4> QED
        BY <4>1, <4>2
    <3>9. Len(alignerBuf') = 0 /\ alignerBuf' \in Seq(Nat) /\ 0 < frameSize' /\ streamState' = "eof"
      BY <1>21, <2>2, <3>2
    <3>10. bytesFed' = total' /\ z - total' \in 0 .. (frameSize' - 1)
      BY <1>21, <3>2, <3>8
    <3> QED
      BY <3>2, <3>7, <3>8, <3>9, <3>10 DEF AlignerInv
  <2> QED
    BY <2>1, <2>2
<1>24. PcmTypeOK'
  BY <1>1, <1>21, <1>23 DEF PcmTypeOK
<1>25. DOMAIN view'.frames = {} /\ view'.frames = <<>> /\ chunkArgs' = NoArgs
  BY <1>1, <1>21
<1> QED
  BY <1>23, <1>24, <1>25 DEF PcmInv, keepsTime
-----------------------------------------------------------------------------
(* What is cut out of the collected buffer. *)

View == [frames : Seq(Seq(Nat)), pts : Int, channel : Nat]

\* Frame j of p is frame k of the collected buffer, at its time.
At(p, j, k) ==
    /\ k \in DOMAIN pcmFrames /\ p.frames[j] = sampleOf(p.channel, k)
    /\ near(p.pts + timeOf(j - 1), timeOf(k - 1))

LEMMA KeepsTimeBy ==
    ASSUME NEW p \in View,
           \A j \in 1 .. Len(p.frames) : silent(p.frames[j]) \/ \E k : At(p, j, k)
    PROVE  keepsTime(p)
<1>1. p.frames \in Seq(Seq(Nat))
  BY DEF View
<1>2. DOMAIN p.frames = 1 .. Len(p.frames)
  BY <1>1
<1> QED
  BY <1>2, Zenon DEF keepsTime, At

\* A slice keeps the time of its first frame, and so of all.
LEMMA SliceKeepsTime ==
    ASSUME pcmFrames \in Seq(Seq(Nat)), NEW from \in Nat, NEW to \in Nat,
           from <= to, to <= Len(pcmFrames)
    PROVE  /\ Slice(collected, from, to) \in View
           /\ \A j \in 1 .. Len(Slice(collected, from, to).frames) : \E k : At(Slice(collected, from, to), j, k)
<1>0. PICK l \in Nat : l = Len(pcmFrames)
  OBVIOUS
<1>1. PICK p : p = Slice(collected, from, to)
  OBVIOUS
<1>2. PICK g : g = SubSeq(pcmFrames, from + 1, to)
  OBVIOUS
<1>3. timeOf(from) \in Nat
  BY TimeOfSum
<1>4. p = [frames |-> g, pts |-> 0 + timeOf(from), channel |-> 0]
  BY <1>1, <1>2 DEF Slice, collected, wholeBuffer
<1>5. p.frames = g /\ p.pts = timeOf(from) /\ p.channel = 0
  BY <1>3, <1>4
<1>6. g \in Seq(Seq(Nat)) /\ Len(g) = to - from /\ \A j \in 1 .. to - from : g[j] = pcmFrames[from + j]
  <2>1. \A i \in from + 1 .. to : pcmFrames[i] \in Seq(Nat)
    BY ElementOfSeq
  <2>2. from + 1 \in Int /\ to \in Int
    OBVIOUS
  <2>3. /\ SubSeq(pcmFrames, from + 1, to) \in Seq(Seq(Nat))
        /\ Len(SubSeq(pcmFrames, from + 1, to)) = IF from + 1 <= to THEN to - (from + 1) + 1 ELSE 0
        /\ \A i \in 1 .. to - (from + 1) + 1 : SubSeq(pcmFrames, from + 1, to)[i] = pcmFrames[(from + 1) + i - 1]
    BY ONLY <2>1, <2>2, SubSeqProperties
  <2>4. to - (from + 1) + 1 = to - from /\ (IF from + 1 <= to THEN to - (from + 1) + 1 ELSE 0) = to - from
    OBVIOUS
  <2>5. \A i \in 1 .. to - from : (from + 1) + i - 1 = from + i
    OBVIOUS
  <2>6. \A j \in 1 .. to - from : g[j] = pcmFrames[from + j]
    BY ONLY <1>2, <2>3, <2>4, <2>5
  <2> QED
    BY ONLY <1>2, <2>3, <2>4, <2>6
<1>7. p \in View
  BY <1>3, <1>4, <1>6 DEF View
<1>8. ASSUME NEW j \in 1 .. Len(p.frames) PROVE \E k : At(p, j, k)
  <2>0. j \in 1 .. to - from
    BY <1>5, <1>6
  <2>1. PICK i \in Nat : i = j - 1
    <3>1. j - 1 \in Nat
      BY <2>0
    <3> QED
      BY ONLY <3>1
  <2>2. PICK k \in 1 .. l : k = from + j /\ k - 1 = from + i
    <3>1. from + j \in 1 .. l /\ (from + j) - 1 = from + i
      BY ONLY <1>0, <2>0, <2>1, from \in Nat, to \in Nat, to <= Len(pcmFrames)
    <3> QED
      BY ONLY <3>1
  <2>3. k \in DOMAIN pcmFrames
    BY <1>0
  <2>4. p.frames[j] = sampleOf(p.channel, k)
    BY <1>5, <1>6, <2>0, <2>2 DEF sampleOf
  <2>5. near(p.pts + timeOf(j - 1), timeOf(k - 1))
    <3>1. PICK u \in Nat, v \in Nat, w \in Nat :
            u = timeOf(from) /\ v = timeOf(i) /\ w = timeOf(from + i) /\ w - (u + v) \in {0, 1}
      BY TimeOfSum
    <3>2. (u + v) - w \in {-1, 0, 1}
      <4>1. w - (u + v) = 0 \/ w - (u + v) = 1
        BY ONLY <3>1
      <4>2. (u + v) - w = 0 \/ (u + v) - w = -1
        BY ONLY <4>1, u \in Nat, v \in Nat, w \in Nat
      <4> QED
        BY ONLY <4>2
    <3>3. near(u + v, w)
      BY ONLY <3>2 DEF near
    <3>4. p.pts = u /\ timeOf(j - 1) = v /\ timeOf(k - 1) = w
      BY ONLY <1>5, <2>1, <2>2, <3>1
    <3> QED
      BY ONLY <3>3, <3>4
  <2> QED
    BY <2>3, <2>4, <2>5 DEF At
<1> QED
  BY <1>1, <1>7, <1>8

\* The whole buffer starts at time zero.
LEMMA WholeKeepsTime ==
    ASSUME pcmFrames \in Seq(Seq(Nat))
    PROVE  /\ collected \in View /\ collected.frames = pcmFrames /\ collected.pts = 0 /\ collected.channel = 0
           /\ \A j \in 1 .. Len(collected.frames) : At(collected, j, j)
<1>1. /\ collected \in View /\ collected.frames = pcmFrames /\ collected.pts = 0 /\ collected.channel = 0
  BY DEF collected, wholeBuffer, View
<1>2. ASSUME NEW j \in 1 .. Len(collected.frames) PROVE At(collected, j, j)
  <2>1. j \in DOMAIN pcmFrames /\ j - 1 \in Nat
    BY <1>1
  <2>2. collected.frames[j] = sampleOf(collected.channel, j)
    BY <1>1 DEF sampleOf
  <2>3. timeOf(j - 1) \in Nat
    BY <2>1, TimeOfSum
  <2>4. near(collected.pts + timeOf(j - 1), timeOf(j - 1))
    BY <1>1, <2>3 DEF near
  <2> QED
    BY <2>1, <2>2, <2>4 DEF At
<1> QED
  BY <1>1, <1>2

\* Frames of padding are silent.
LEMMA SilentFrames ==
    ASSUME PcmTypeOK, NEW n \in Nat
    PROVE  /\ silentFrames(n) \in Seq(Seq(Nat)) /\ Len(silentFrames(n)) = n
           /\ \A i \in 1 .. n : silent(silentFrames(n)[i])
<1>0. PICK fs \in Nat \ {0} : fs = frameSize
  BY FrameSizeType
<1>1. PICK z : z = [j \in 1 .. fs |-> 0]
  OBVIOUS
<1>2. z \in Seq(Nat) /\ silent(z)
  BY ONLY <1>1, fs \in Nat \ {0} DEF silent
<1>3. silentFrames(n) = [i \in 1 .. n |-> z]
  BY <1>0, <1>1 DEF silentFrames
<1>4. [i \in 1 .. n |-> z] \in Seq(Seq(Nat)) /\ Len([i \in 1 .. n |-> z]) = n
  BY ONLY <1>2, n \in Nat
<1>5. \A i \in 1 .. n : [k \in 1 .. n |-> z][i] = z
  OBVIOUS
<1> QED
  BY ONLY <1>2, <1>3, <1>4, <1>5
\* Padding at the end leaves the frames where they are.
LEMMA PadEndKeepsTime ==
    ASSUME PcmTypeOK, NEW p \in View, NEW n \in Nat,
           \A j \in 1 .. Len(p.frames) : \E k : At(p, j, k)
    PROVE  keepsTime(PadTo(p, n, "end"))
<1>0. p.frames \in Seq(Seq(Nat)) /\ p.pts \in Int /\ p.channel \in Nat
  BY DEF View
<1>1. PICK l \in Nat : l = Len(p.frames)
  BY <1>0
<1>2. CASE l >= n
  <2>1. PadTo(p, n, "end") = p
    BY <1>1, <1>2 DEF PadTo
  <2> QED
    BY <2>1, KeepsTimeBy
<1>3. CASE ~(l >= n)
  <2>1. PICK m \in Nat : m = n - l
    <3>1. n - l \in Nat
      BY ONLY <1>3, n \in Nat, l \in Nat
    <3> QED
      BY ONLY <3>1
  <2>2. PICK z : z = silentFrames(m)
    OBVIOUS
  <2>3. z \in Seq(Seq(Nat)) /\ Len(z) = m /\ \A i \in 1 .. m : silent(z[i])
    BY <2>2, SilentFrames
  <2>4. PICK q : q = PadTo(p, n, "end")
    OBVIOUS
  <2>5. q = [p EXCEPT !.frames = @ \o z, !.pts = @]
    BY <1>1, <1>3, <2>1, <2>2, <2>4 DEF PadTo
  <2>6. PICK g : g = p.frames \o z
    OBVIOUS
  <2>7. q.frames = g /\ q.pts = p.pts /\ q.channel = p.channel
    BY <2>5, <2>6 DEF View
  <2>8. g \in Seq(Seq(Nat)) /\ Len(g) = l + m
    <3>1. z \in Seq(Seq(Nat)) /\ Len(z) = m
      BY <2>3
    <3> QED
      BY ONLY <1>0, <1>1, <2>6, <3>1, ConcatProperties
  <2>9. \A j \in 1 .. l + m : g[j] = IF j <= l THEN p.frames[j] ELSE z[j - l]
    <3>1. z \in Seq(Seq(Nat)) /\ Len(z) = m
      BY <2>3
    <3> QED
      BY ONLY <1>0, <1>1, <2>6, <3>1, ConcatProperties
  <2>10. q \in View
    <3>1. q = [frames |-> g, pts |-> p.pts, channel |-> p.channel]
      BY <2>5, <2>6 DEF View
    <3> QED
      BY <1>0, <2>8, <3>1 DEF View
  <2>11. ASSUME NEW j \in 1 .. Len(q.frames) PROVE silent(q.frames[j]) \/ \E k : At(q, j, k)
    <3>0. j \in 1 .. l + m
      BY <2>7, <2>8
    <3>1. CASE j <= l
      <4>1. j \in 1 .. Len(p.frames) /\ q.frames[j] = p.frames[j]
        BY <1>1, <2>7, <2>9, <3>0, <3>1
      <4>2. PICK k : At(p, j, k)
        BY <4>1
      <4>3. At(q, j, k)
        BY <2>7, <4>1, <4>2 DEF At
      <4> QED
        BY <4>3
    <3>2. CASE ~(j <= l)
      <4>1. j - l \in 1 .. m
        BY ONLY <3>0, <3>2, l \in Nat, m \in Nat
      <4>2. q.frames[j] = z[j - l]
        BY <2>7, <2>9, <3>0, <3>2
      <4> QED
        BY <2>3, <4>1, <4>2
    <3> QED
      BY <3>1, <3>2
  <2> QED
    BY <2>4, <2>10, <2>11, KeepsTimeBy
<1> QED
  BY <1>2, <1>3

\* Padding at the start moves the time of the buffer back by as much.
LEMMA PadStartKeepsTime ==
    ASSUME PcmTypeOK, pcmFrames \in Seq(Seq(Nat)), NEW n \in Nat
    PROVE  keepsTime(PadTo(collected, n, "start"))
<1>0. collected \in View /\ collected.frames = pcmFrames /\ collected.pts = 0 /\ collected.channel = 0
  BY WholeKeepsTime
<1>1. PICK l \in Nat : l = Len(pcmFrames)
  OBVIOUS
<1>2. CASE l >= n
  <2>1. PadTo(collected, n, "start") = collected
    BY <1>0, <1>1, <1>2 DEF PadTo
  <2>2. \A j \in 1 .. Len(collected.frames) : \E k : At(collected, j, k)
    BY WholeKeepsTime
  <2> QED
    BY <1>0, <2>1, <2>2, KeepsTimeBy
<1>3. CASE ~(l >= n)
  <2>1. PICK m \in Nat : m = n - l
    <3>1. n - l \in Nat
      BY ONLY <1>3, n \in Nat, l \in Nat
    <3> QED
      BY ONLY <3>1
  <2>2. PICK z : z = silentFrames(m)
    OBVIOUS
  <2>3. z \in Seq(Seq(Nat)) /\ Len(z) = m /\ \A i \in 1 .. m : silent(z[i])
    BY <2>2, SilentFrames
  <2>4. PICK q : q = PadTo(collected, n, "start")
    OBVIOUS
  <2>5. PICK g : g = z \o pcmFrames
    OBVIOUS
  <2>6. q = [frames |-> g, pts |-> 0 - timeOf(m), channel |-> 0]
    <3>1. q = [collected EXCEPT !.frames = z \o @, !.pts = @ - timeOf(m)]
      BY <1>0, <1>1, <1>3, <2>1, <2>2, <2>4 DEF PadTo
    <3> QED
      BY <2>5, <3>1 DEF collected, wholeBuffer
  <2>7. q.frames = g /\ q.pts = 0 - timeOf(m) /\ q.channel = 0
    BY <2>6
  <2>8. g \in Seq(Seq(Nat)) /\ Len(g) = m + l
    <3>1. z \in Seq(Seq(Nat)) /\ Len(z) = m
      BY <2>3
    <3> QED
      BY ONLY <1>1, <2>5, <3>1, ConcatProperties, pcmFrames \in Seq(Seq(Nat))
  <2>9. \A j \in 1 .. m + l : g[j] = IF j <= m THEN z[j] ELSE pcmFrames[j - m]
    <3>1. z \in Seq(Seq(Nat)) /\ Len(z) = m
      BY <2>3
    <3> QED
      BY ONLY <1>1, <2>5, <3>1, ConcatProperties, pcmFrames \in Seq(Seq(Nat))
  <2>10. timeOf(m) \in Nat
    BY TimeOfSum
  <2>11. q \in View
    BY <2>6, <2>8, <2>10 DEF View
  <2>12. ASSUME NEW j \in 1 .. Len(q.frames) PROVE silent(q.frames[j]) \/ \E k : At(q, j, k)
    <3>0. j \in 1 .. m + l
      BY <2>7, <2>8
    <3>1. CASE j <= m
      <4>1. j \in 1 .. m /\ q.frames[j] = z[j]
        BY <2>7, <2>9, <3>0, <3>1
      <4> QED
        BY <2>3, <4>1
    <3>2. CASE ~(j <= m)
      <4>1. PICK i \in Nat : i + 1 = j - m /\ j - 1 = m + i
        <5>1. j - m - 1 \in Nat /\ (j - m - 1) + 1 = j - m /\ j - 1 = m + (j - m - 1)
          BY ONLY <3>0, <3>2, l \in Nat, m \in Nat
        <5> QED
          BY ONLY <5>1
      <4>2. PICK k \in 1 .. l : k = i + 1 /\ k - 1 = i /\ k = j - m
        <5>1. i + 1 \in 1 .. l /\ (i + 1) - 1 = i
          BY ONLY <3>0, <4>1, l \in Nat, m \in Nat, i \in Nat
        <5> QED
          BY ONLY <4>1, <5>1
      <4>3. k \in DOMAIN pcmFrames
        BY <1>1
      <4>4. q.frames[j] = sampleOf(q.channel, k)
        BY <2>7, <2>9, <3>0, <3>2, <4>2 DEF sampleOf
      <4>5. near(q.pts + timeOf(j - 1), timeOf(k - 1))
        <5>1. PICK u \in Nat, v \in Nat, w \in Nat :
                u = timeOf(m) /\ v = timeOf(i) /\ w = timeOf(m + i) /\ w - (u + v) \in {0, 1}
          BY TimeOfSum
        <5>2. ((0 - u) + w) - v \in {-1, 0, 1}
          <6>1. w - (u + v) = 0 \/ w - (u + v) = 1
            BY ONLY <5>1
          <6>2. ((0 - u) + w) - v = 0 \/ ((0 - u) + w) - v = 1
            BY ONLY <6>1, u \in Nat, v \in Nat, w \in Nat
          <6> QED
            BY ONLY <6>2
        <5>3. near((0 - u) + w, v)
          BY ONLY <5>2 DEF near
        <5>4. q.pts = 0 - u /\ timeOf(j - 1) = w /\ timeOf(k - 1) = v
          BY ONLY <2>7, <4>1, <4>2, <5>1
        <5> QED
          BY ONLY <5>3, <5>4
      <4> QED
        BY <4>3, <4>4, <4>5 DEF At
    <3> QED
      BY <3>1, <3>2
  <2> QED
    BY <2>4, <2>11, <2>12, KeepsTimeBy
<1> QED
  BY <1>2, <1>3

\* The frames of one channel are that channel of the frames.
LEMMA ChannelKeepsTime ==
    ASSUME pcmFrames \in Seq(Seq(Nat)), channels \in Nat \ {0}, NEW i \in Nat \ {0}
    PROVE  keepsTime(Channel(i))
<1>0. collected \in View /\ collected.frames = pcmFrames /\ collected.pts = 0 /\ collected.channel = 0
  BY WholeKeepsTime
<1>1. CASE channels = 1
  <2>1. Channel(i) = collected
    <3>1. Channel(i) = [collected EXCEPT !.channel = 0, !.frames = @]
      BY <1>1 DEF Channel
    <3> QED
      BY <3>1 DEF collected, wholeBuffer
  <2>2. \A j \in 1 .. Len(collected.frames) : \E k : At(collected, j, k)
    BY WholeKeepsTime
  <2> QED
    BY <1>0, <2>1, <2>2, KeepsTimeBy
<1>2. CASE channels # 1
  <2>1. PICK g : g = [k \in DOMAIN pcmFrames |->
                        SubSeq(pcmFrames[k], (i - 1) * BytesPerSample + 1, i * BytesPerSample)]
    OBVIOUS
  <2>2. Channel(i) = [frames |-> g, pts |-> 0, channel |-> i]
    <3>1. Channel(i) = [collected EXCEPT !.channel = i,
             !.frames = [k \in DOMAIN @ |-> SubSeq(@[k], (i - 1) * BytesPerSample + 1, i * BytesPerSample)]]
      BY <1>2 DEF Channel
    <3> QED
      BY <2>1, <3>1 DEF collected, wholeBuffer
  <2>3. PICK q : q = Channel(i)
    OBVIOUS
  <2>4. q.frames = g /\ q.pts = 0 /\ q.channel = i
    BY <2>2, <2>3
  <2>5. DOMAIN g = DOMAIN pcmFrames /\ DOMAIN pcmFrames = 1 .. Len(pcmFrames)
    BY <2>1
  <2>6. ASSUME NEW j \in DOMAIN q.frames PROVE At(q, j, j)
    <3>1. j \in DOMAIN pcmFrames /\ j - 1 \in Nat
      BY <2>4, <2>5
    <3>2. i # 0
      OBVIOUS
    <3>3. q.frames[j] = sampleOf(q.channel, j)
      BY <2>1, <2>4, <3>1, <3>2 DEF sampleOf
    <3>4. timeOf(j - 1) \in Nat
      BY <3>1, TimeOfSum
    <3>5. near(q.pts + timeOf(j - 1), timeOf(j - 1))
      BY <2>4, <3>4 DEF near
    <3> QED
      BY <3>1, <3>3, <3>5 DEF At
  <2> QED
    BY <2>3, <2>6, Zenon DEF keepsTime, At
<1> QED
  BY <1>1, <1>2
\* A step that only cuts something out of the buffer.
LEMMA ViewKeeps ==
    ASSUME PcmInv, UNCHANGED streamVars, PcmTypeOK', keepsTime(view'), streamState = "eof"
    PROVE  PcmInv'
<1>1. /\ total' = total /\ channels' = channels /\ bytesFed' = bytesFed /\ alignerBuf' = alignerBuf
      /\ pcmFrames' = pcmFrames /\ streamState' = streamState
  BY DEF streamVars
<1>2. frameSize' = frameSize
  BY <1>1 DEF frameSize
<1>3. AlignerInv'
  <2>1. AlignerInv
    BY DEF PcmInv
  <2> QED
    BY <1>1, <1>2, <2>1 DEF AlignerInv, CutsStream
<1>4. keepsTime(view)'
  BY <1>1 DEF keepsTime, sampleOf
<1> QED
  BY <1>1, <1>3, <1>4 DEF PcmInv

\* Head and Tail, padded or not.
LEMMA TakeKeeps ==
    ASSUME PcmInv, NEW d \in Durations, NEW pad \in BOOLEAN, NEW at \in {"start", "end"},
           TakeHead(d, pad, at) \/ TakeTail(d, pad, at)
    PROVE  PcmInv'
<1>0. PcmTypeOK /\ pcmFrames \in Seq(Seq(Nat)) /\ Len(pcmFrames) \in Nat /\ streamState = "eof"
  BY DEF PcmInv, AlignerInv, CutsStream, TakeHead, TakeTail
<1>1. UNCHANGED streamVars /\ chunkArgs' = chunkArgs /\ chunkAt' = chunkAt
  BY DEF TakeHead, TakeTail
<1>2. PcmTypeOK'
  BY <1>0, <1>1 DEF PcmTypeOK, streamVars
<1>3. PICK want \in Nat : want = framesIn(d)
  <2>1. d * PcmRate \in Nat /\ Second \in Nat \ {0}
    BY PcmBufferAssumption
  <2>2. (d * PcmRate) \div Second \in Nat
    BY ONLY <2>1, Quotient
  <2> QED
    BY <2>2 DEF framesIn
<1>4. \A j \in 1 .. Len(collected.frames) : \E k : At(collected, j, k)
  BY <1>0, WholeKeepsTime
<1>5. collected \in View
  BY <1>0, WholeKeepsTime
<1>6. keepsTime(collected)
  BY <1>4, <1>5, KeepsTimeBy
<1>7. keepsTime(PadTo(collected, want, at))
  <2>1. CASE at = "start"
    BY <1>0, <2>1, PadStartKeepsTime
  <2>2. CASE at = "end"
    BY <1>0, <1>4, <1>5, <2>2, PadEndKeepsTime
  <2> QED
    BY <2>1, <2>2
<1>8. ASSUME NEW from \in Nat, NEW to \in Nat, from <= to, to <= Len(pcmFrames)
      PROVE  keepsTime(Slice(collected, from, to))
  <2>1. /\ Slice(collected, from, to) \in View
        /\ \A j \in 1 .. Len(Slice(collected, from, to).frames) : \E k : At(Slice(collected, from, to), j, k)
    BY <1>0, <1>8, SliceKeepsTime
  <2> QED
    BY <2>1, KeepsTimeBy
<1>9. keepsTime(Head_(want, pad, at))
  <2>1. CASE Len(pcmFrames) >= want
    <3>1. Head_(want, pad, at) = Slice(collected, 0, want)
      BY <2>1 DEF Head_
    <3>2. 0 \in Nat /\ 0 <= want /\ want <= Len(pcmFrames)
      BY <1>0, <2>1
    <3> QED
      BY <1>8, <3>1, <3>2
  <2>2. CASE ~(Len(pcmFrames) >= want)
    BY <1>6, <1>7, <2>2 DEF Head_
  <2> QED
    BY <2>1, <2>2
<1>10. keepsTime(Tail_(want, pad, at))
  <2>1. CASE Len(pcmFrames) >= want
    <3>1. Tail_(want, pad, at) = Slice(collected, Len(pcmFrames) - want, Len(pcmFrames))
      BY <2>1 DEF Tail_
    <3>2. Len(pcmFrames) - want \in Nat /\ Len(pcmFrames) - want <= Len(pcmFrames) /\ Len(pcmFrames) <= Len(pcmFrames)
      BY <1>0, <2>1
    <3> QED
      BY <1>0, <1>8, <3>1, <3>2
  <2>2. CASE ~(Len(pcmFrames) >= want)
    BY <1>6, <1>7, <2>2 DEF Tail_
  <2> QED
    BY <2>1, <2>2
<1>11. view' = Head_(want, pad, at) \/ view' = Tail_(want, pad, at)
  BY <1>3 DEF TakeHead, TakeTail
<1>12. keepsTime(view')
  BY <1>9, <1>10, <1>11
<1> QED
  BY <1>0, <1>1, <1>2, <1>12, ViewKeeps

LEMMA TakeChannelKeeps ==
    ASSUME PcmInv, NEW i \in Layouts, TakeChannel(i)
    PROVE  PcmInv'
<1>0. /\ PcmTypeOK /\ pcmFrames \in Seq(Seq(Nat)) /\ streamState = "eof" /\ channels \in Nat \ {0}
      /\ i \in Nat \ {0}
  BY PcmBufferAssumption DEF PcmInv, AlignerInv, CutsStream, TakeChannel, PcmTypeOK
<1>1. UNCHANGED streamVars /\ chunkArgs' = chunkArgs /\ chunkAt' = chunkAt /\ view' = Channel(i)
  BY DEF TakeChannel
<1>2. PcmTypeOK'
  BY <1>0, <1>1 DEF PcmTypeOK, streamVars
<1>3. keepsTime(view')
  BY <1>0, <1>1, ChannelKeepsTime
<1> QED
  BY <1>0, <1>1, <1>2, <1>3, ViewKeeps

LEMMA ChunksKeeps ==
    ASSUME PcmInv, NEW size \in ChunkSizes, NEW overlap \in Overlaps, NEW padLast \in BOOLEAN,
           Chunks(size, overlap, padLast)
    PROVE  PcmInv'
<1>0. PcmTypeOK /\ streamState = "eof" /\ size \in Nat /\ overlap \in Nat /\ keepsTime(view)
  BY PcmBufferAssumption DEF PcmInv, Chunks
<1>1. UNCHANGED streamVars /\ chunkAt' = 0 /\ view' = view
      /\ chunkArgs' = [size |-> size, step |-> stepOf(size, overlap), padLast |-> padLast]
  BY DEF Chunks
<1>2. stepOf(size, overlap) \in Nat
  BY <1>0 DEF stepOf
<1>3. chunkArgs' \in [size : Nat, step : Nat, padLast : BOOLEAN]
  BY <1>0, <1>1, <1>2
<1>4. PcmTypeOK'
  BY <1>0, <1>1, <1>3 DEF PcmTypeOK, streamVars
<1>5. keepsTime(view')
  BY <1>0, <1>1
<1> QED
  BY <1>0, <1>1, <1>4, <1>5, ViewKeeps

\* A chunk is a slice, the last one padded at its end when asked to.
LEMMA YieldChunkKeeps == ASSUME PcmInv, YieldChunk PROVE PcmInv'
<1>0. PcmTypeOK /\ pcmFrames \in Seq(Seq(Nat)) /\ Len(pcmFrames) \in Nat /\ streamState = "eof"
  BY DEF PcmInv, AlignerInv, CutsStream, YieldChunk
<1>1. chunkArgs.size \in Nat /\ chunkArgs.step \in Nat /\ chunkAt \in Nat
  BY <1>0 DEF PcmTypeOK
<1>2. PICK end \in Nat : /\ end = IF chunkAt + chunkArgs.size < Len(pcmFrames)
                                  THEN chunkAt + chunkArgs.size ELSE Len(pcmFrames)
                         /\ chunkAt <= end /\ end <= Len(pcmFrames)
  <2>1. chunkAt < Len(pcmFrames)
    BY DEF YieldChunk
  <2>2. CASE chunkAt + chunkArgs.size < Len(pcmFrames)
    BY <1>0, <1>1, <2>2
  <2>3. CASE ~(chunkAt + chunkArgs.size < Len(pcmFrames))
    BY <1>0, <1>1, <2>1, <2>3
  <2> QED
    BY <2>2, <2>3
<1>3. PICK chunk : chunk = Slice(collected, chunkAt, end)
  OBVIOUS
<1>4. chunk \in View /\ \A j \in 1 .. Len(chunk.frames) : \E k : At(chunk, j, k)
  BY <1>0, <1>1, <1>2, <1>3, SliceKeepsTime
<1>5. /\ UNCHANGED streamVars /\ chunkArgs' = chunkArgs /\ chunkAt' = chunkAt + chunkArgs.step
      /\ view' = IF chunkArgs.padLast THEN PadTo(chunk, chunkArgs.size, "end") ELSE chunk
  BY <1>2, <1>3 DEF YieldChunk
<1>6. keepsTime(chunk)
  BY <1>4, KeepsTimeBy
<1>7. keepsTime(PadTo(chunk, chunkArgs.size, "end"))
  BY <1>0, <1>1, <1>4, PadEndKeepsTime
<1>8. keepsTime(view')
  BY <1>5, <1>6, <1>7
<1>9. PcmTypeOK'
  BY <1>0, <1>1, <1>5 DEF PcmTypeOK, streamVars
<1> QED
  BY <1>0, <1>5, <1>8, <1>9, ViewKeeps
LEMMA PcmInvStep == PcmInv /\ [PcmNext]_pcmVars => PcmInv'
<1> SUFFICES ASSUME PcmInv, [PcmNext]_pcmVars PROVE PcmInv'
  OBVIOUS
<1>1. ASSUME NEW n \in 0 .. MaxRead, NEW result \in {"streaming", "eof", "failed", "stopped"},
             ReadStream(n, result)
      PROVE  PcmInv'
  <2>1. n \in Nat
    BY PcmBufferAssumption
  <2> QED
    BY <1>1, <2>1, ReadStreamKeeps
<1>2. ASSUME NEW d \in Durations, NEW pad \in BOOLEAN, NEW at \in {"start", "end"},
             TakeHead(d, pad, at) \/ TakeTail(d, pad, at)
      PROVE  PcmInv'
  BY <1>2, TakeKeeps
<1>3. ASSUME NEW i \in Layouts, TakeChannel(i) PROVE PcmInv'
  BY <1>3, TakeChannelKeeps
<1>4. ASSUME NEW size \in ChunkSizes, NEW overlap \in Overlaps, NEW padLast \in BOOLEAN,
             Chunks(size, overlap, padLast)
      PROVE  PcmInv'
  BY <1>4, ChunksKeeps
<1>5. CASE YieldChunk
  BY <1>5, YieldChunkKeeps
<1>6. CASE UNCHANGED pcmVars
  <2>1. /\ total' = total /\ channels' = channels /\ bytesFed' = bytesFed /\ alignerBuf' = alignerBuf
        /\ pcmFrames' = pcmFrames /\ streamState' = streamState /\ chunkArgs' = chunkArgs
        /\ chunkAt' = chunkAt /\ view' = view
    BY <1>6 DEF pcmVars
  <2>2. AlignerInv' /\ PcmTypeOK'
    <3>1. AlignerInv /\ PcmTypeOK /\ frameSize' = frameSize
      BY <2>1 DEF PcmInv, frameSize
    <3>2. AlignerInv'
      BY <2>1, <3>1 DEF AlignerInv, CutsStream
    <3> QED
      BY <2>1, <3>1, <3>2 DEF PcmTypeOK
  <2>3. keepsTime(view)'
    <3>1. keepsTime(view)
      BY DEF PcmInv
    <3> QED
      BY <2>1, <3>1 DEF keepsTime, sampleOf
  <2> QED
    BY <2>1, <2>2, <2>3 DEF PcmInv
<1> QED
  BY <1>1, <1>2, <1>3, <1>4, <1>5, <1>6 DEF PcmNext

\* However the source chops the bytes, no byte is lost or moved, only the last frame is
\* padded, and whatever is cut out of the collected buffer plays at its own time.
THEOREM PcmFaithfulCorrect == PcmSpec => []PcmFaithful
<1>1. PcmInv => PcmFaithful
  <2> SUFFICES ASSUME PcmInv PROVE PcmFaithful
    OBVIOUS
  <2>1. AlignerInv /\ keepsTime(view) /\ frameSize \in Nat \ {0} /\ alignerBuf \in Seq(Nat)
    BY FrameSizeType DEF PcmInv, PcmTypeOK
  <2>2. pcmFrames \in Seq(Seq(Nat)) /\ CutsStream(pcmFrames, frameSize, bytesFed)
    BY <2>1 DEF AlignerInv, CutsStream
  <2>3. DOMAIN pcmFrames = 1 .. Len(pcmFrames) /\ DOMAIN alignerBuf = 1 .. Len(alignerBuf)
    BY <2>1, <2>2
  <2>4. ASSUME NEW k \in DOMAIN pcmFrames
        PROVE  /\ Len(pcmFrames[k]) = frameSize
               /\ \A j \in DOMAIN pcmFrames[k] : pcmFrames[k][j] = byteAt((k - 1) * frameSize + j)
    <3>1. /\ Len(pcmFrames[k]) = frameSize
          /\ \A j \in 1 .. frameSize : pcmFrames[k][j] = streamByte(bytesFed, (k - 1) * frameSize + j)
      BY <2>2, <2>3 DEF CutsStream
    <3>2. DOMAIN pcmFrames[k] = 1 .. frameSize
      <4>1. pcmFrames[k] \in Seq(Nat)
        BY <2>2, <2>3, ElementOfSeq
      <4> QED
        BY <3>1, <4>1, LenProperties
    <3> QED
      BY <3>1, <3>2 DEF byteAt, streamByte
  <2>5. NothingLostAligning
    BY <2>1, <2>3, <2>4 DEF AlignerInv, NothingLostAligning
  <2> QED
    BY <2>1, <2>5 DEF PcmFaithful
<1> QED
  BY <1>1, PcmInvInit, PcmInvStep, PTL DEF PcmSpec
(***************************************************************************)
(* Resampler.                                                              *)
(***************************************************************************)

LEMMA QuotientUnique ==
    ASSUME NEW a \in Nat, NEW d \in Nat \ {0}, NEW q \in Nat, NEW r \in 0 .. d - 1, a = q * d + r
    PROVE  a \div d = q /\ a % d = r
<1>1. a \div d = q
  OBVIOUS
<1>2. a % d = r
  OBVIOUS
<1> QED
  BY <1>1, <1>2, Zenon

\* Whole multiples go through a quotient.
LEMMA QuotientShift ==
    ASSUME NEW q \in Nat, NEW x \in Nat, NEW d \in Nat \ {0}
    PROVE  (q * d + x) \div d = q + (x \div d) /\ (q * d + x) % d = x % d
<1>1. PICK y \in Nat : y = x \div d
  BY Quotient
<1>2. PICK r \in 0 .. d - 1 : r = x % d /\ x = y * d + r
  <2>1. x \in Int
    OBVIOUS
  <2> QED
    BY <1>1, <2>1, DivMod
<1>3. PICK a \in Nat : a = q * d + x
  OBVIOUS
<1>4. PICK z \in Nat : z = q + y
  OBVIOUS
<1>5. a = z * d + r
  <2>1. (q + y) * d = q * d + y * d /\ q * d \in Nat /\ y * d \in Nat
    OBVIOUS
  <2> QED
    BY ONLY <1>2, <1>3, <1>4, <2>1, r \in 0 .. d - 1, d \in Nat
<1>6. a \div d = z /\ a % d = r
  BY ONLY <1>5, a \in Nat, z \in Nat, d \in Nat \ {0}, r \in 0 .. d - 1, QuotientUnique
<1> QED
  BY ONLY <1>1, <1>2, <1>3, <1>4, <1>6

\* A quotient reaches n when the number reaches n times the divisor.
LEMMA QuotientReaches ==
    ASSUME NEW v \in Nat, NEW n \in Nat, NEW d \in Nat \ {0}
    PROVE  v \div d >= n <=> v >= n * d
<1>1. PICK q \in Nat : q = v \div d /\ q * d <= v /\ v < q * d + d
  BY Quotient
<1>2. q * d \in Nat /\ n * d \in Nat /\ (q + 1) * d = q * d + d
  OBVIOUS
<1>3. CASE n <= q
  <2>1. n * d <= q * d
    BY ONLY <1>3, n \in Nat, q \in Nat, d \in Nat \ {0}, ProductGrows
  <2>2. v >= n * d
    BY ONLY <1>1, <1>2, <2>1, v \in Nat
  <2> QED
    BY ONLY <1>1, <1>3, <2>2, n \in Nat, q \in Nat
<1>4. CASE q + 1 <= n
  <2>1. (q + 1) * d <= n * d
    <3>1. q + 1 \in Nat
      OBVIOUS
    <3> QED
      BY ONLY <1>4, <3>1, n \in Nat, d \in Nat \ {0}, ProductGrows
  <2>2. ~(v >= n * d)
    BY ONLY <1>1, <1>2, <2>1, v \in Nat, d \in Nat
  <2>3. ~(q >= n)
    BY ONLY <1>4, n \in Nat, q \in Nat
  <2> QED
    BY ONLY <1>1, <2>2, <2>3
<1> QED
  BY <1>3, <1>4

\* gcd divides both.
LEMMA GcdDivides ==
    ASSUME NEW a \in Nat \ {0}, NEW b \in Nat \ {0}
    PROVE  gcd(a, b) \in Nat \ {0} /\ a % gcd(a, b) = 0 /\ b % gcd(a, b) = 0
<1> DEFINE Common == {d \in 1 .. a : a % d = 0 /\ b % d = 0}
<1> DEFINE Below == {n \in Nat : \E d \in Common : n = a - d}
<1>1. 1 \in Common
  <2>1. a % 1 = 0 /\ b % 1 = 0
    OBVIOUS
  <2> QED
    BY <2>1
<1>2. Below \in SUBSET Nat /\ Below # {}
  <2>1. a - 1 \in Nat
    OBVIOUS
  <2> QED
    BY <1>1, <2>1
<1> HIDE DEF Below
<1>3. PICK n \in Below : \A m \in Below : n <= m
  BY <1>2, LeastOf
<1>4. PICK g \in Common : n = a - g
  BY <1>3 DEF Below
<1>5. g \in 1 .. a /\ a % g = 0 /\ b % g = 0
  BY <1>4
<1>6. \A e \in (g + 1) .. a : ~(a % e = 0 /\ b % e = 0)
  <2> SUFFICES ASSUME NEW e \in (g + 1) .. a, a % e = 0 /\ b % e = 0 PROVE FALSE
    OBVIOUS
  <2>1. e \in Common
    BY <1>5
  <2>2. a - e \in Below
    <3>1. a - e \in Nat
      OBVIOUS
    <3> QED
      BY <2>1, <3>1 DEF Below
  <2>3. n <= a - e
    BY <1>3, <2>2
  <2> QED
    BY <1>4, <1>5, <2>3
<1>7. gcd(a, b) \in 1 .. a /\ a % gcd(a, b) = 0 /\ b % gcd(a, b) = 0
  <2>1. \E d \in 1 .. a : /\ a % d = 0 /\ b % d = 0
                          /\ \A e \in (d + 1) .. a : ~(a % e = 0 /\ b % e = 0)
    BY <1>5, <1>6
  <2> QED
    BY <2>1, Zenon DEF gcd
<1> QED
  BY <1>7

\* The cursor at v steps of 1/d of a frame, and where the kernel leaves the buffer.
CursorAt(v, d) == [int |-> v \div d, frac |-> v % d]
Stops(v, d, h, B) == B <= (v \div d) + h
Moved(p, n, d) == [int |-> p.int + ((p.frac + n) \div d), frac |-> (p.frac + n) % d]
Cursors == [pos : [int : Nat, frac : Nat], made : Nat]
RunsOut(f, n, d, h, B) ==
    f = [c \in Cursors |-> IF c.pos.int + h < B
                           THEN f[[pos |-> Moved(c.pos, n, d), made |-> c.made + 1]]
                           ELSE c]

LEMMA CursorAtType ==
    ASSUME NEW v \in Nat, NEW d \in Nat \ {0}
    PROVE  /\ CursorAt(v, d) \in [int : Nat, frac : Nat]
           /\ CursorAt(v, d).int = v \div d /\ CursorAt(v, d).frac = v % d
           /\ CursorAt(v, d).frac \in 0 .. d - 1
           /\ v = CursorAt(v, d).int * d + CursorAt(v, d).frac
<1>1. v \in Int
  OBVIOUS
<1>2. v \div d \in Nat /\ (v % d) \in 0 .. d - 1 /\ v = (v \div d) * d + (v % d)
  BY <1>1, DivMod, Quotient
<1> QED
  BY <1>2 DEF CursorAt

LEMMA MovedAt ==
    ASSUME NEW p \in [int : Nat, frac : Nat], NEW n \in Nat, NEW d \in Nat \ {0}
    PROVE  Moved(p, n, d) = CursorAt((p.int * d + p.frac) + n, d)
<1>1. PICK i \in Nat, x \in Nat : i = p.int /\ x = p.frac
  OBVIOUS
<1>2. x + n \in Nat /\ (i * d + x) + n = i * d + (x + n)
  OBVIOUS
<1>3. (i * d + (x + n)) \div d = i + ((x + n) \div d) /\ (i * d + (x + n)) % d = (x + n) % d
  BY ONLY <1>2, QuotientShift, i \in Nat, d \in Nat \ {0}
<1> QED
  BY ONLY <1>1, <1>2, <1>3 DEF Moved, CursorAt

LEMMA CursorMoves ==
    ASSUME NEW v \in Nat, NEW n \in Nat, NEW d \in Nat \ {0}
    PROVE  Moved(CursorAt(v, d), n, d) = CursorAt(v + n, d)
<1>1. PICK p \in [int : Nat, frac : Nat] : p = CursorAt(v, d) /\ v = p.int * d + p.frac
  BY CursorAtType
<1>2. Moved(p, n, d) = CursorAt((p.int * d + p.frac) + n, d)
  BY MovedAt
<1> QED
  BY <1>1, <1>2

\* The loop comes to its end.
LEMMA FirstStop ==
    ASSUME NEW v \in Nat, NEW n \in Nat \ {0}, NEW d \in Nat \ {0}, NEW h \in Nat, NEW B \in Nat, NEW a \in {0, 1}
    PROVE  \E k \in Nat : /\ a <= k /\ Stops(v + k * n, d, h, B)
                          /\ \A j \in Nat : a <= j /\ j < k => ~Stops(v + j * n, d, h, B)
<1> DEFINE T == {k \in Nat : a <= k /\ Stops(v + k * n, d, h, B)}
<1>1. T # {}
  <2>1. PICK k \in Nat : k = B * d + 1
    OBVIOUS
  <2>2. k * 1 <= k * n /\ k * n \in Nat
    BY ProductGrows
  <2>3. v + k * n \in Nat /\ v + k * n >= B * d
    BY <2>1, <2>2
  <2>4. (v + k * n) \div d >= B /\ (v + k * n) \div d \in Nat
    BY <2>3, QuotientReaches, Quotient
  <2>5. Stops(v + k * n, d, h, B)
    BY <2>4 DEF Stops
  <2>6. a <= k
    BY <2>1
  <2> QED
    BY <2>5, <2>6
<1>2. PICK k \in T : \A j \in T : k <= j
  <2>1. T \in SUBSET Nat
    OBVIOUS
  <2> HIDE DEF T
  <2> QED
    BY <1>1, <2>1, LeastOf
<1>3. ASSUME NEW j \in Nat, a <= j, j < k PROVE ~Stops(v + j * n, d, h, B)
  BY <1>2, <1>3
<1> QED
  BY <1>2, <1>3

\* One step along the way.
LEMMA StepAlong ==
    ASSUME NEW v \in Nat, NEW n \in Nat, NEW k \in Nat
    PROVE  (v + n) + k * n = v + (k + 1) * n /\ v + k * n \in Nat /\ (v + k * n) + n = v + (k + 1) * n
OBVIOUS

LEMMA CursorsRecord ==
    ASSUME NEW p \in [int : Nat, frac : Nat], NEW m \in Nat
    PROVE  [pos |-> p, made |-> m] \in Cursors
BY DEF Cursors

LEMMA CursorsParts ==
    ASSUME NEW c \in Cursors
    PROVE  /\ c.pos \in [int : Nat, frac : Nat] /\ c.pos.int \in Nat /\ c.pos.frac \in Nat
           /\ c.made \in Nat /\ c = [pos |-> c.pos, made |-> c.made]
BY DEF Cursors

\* There is a function that meets the loop's equation.
LEMMA LoopExists ==
    ASSUME NEW n \in Nat \ {0}, NEW d \in Nat \ {0}, NEW h \in Nat, NEW B \in Nat
    PROVE  \E f : RunsOut(f, n, d, h, B)
<1> DEFINE First(v, k) == /\ k \in Nat /\ 1 <= k /\ Stops(v + k * n, d, h, B)
                          /\ \A j \in Nat : 1 <= j /\ j < k => ~Stops(v + j * n, d, h, B)
<1> DEFINE K(v) == CHOOSE k : First(v, k)
<1> DEFINE V(c) == c.pos.int * d + c.pos.frac
<1> DEFINE End(c) == IF c.pos.int + h < B
                     THEN [pos |-> CursorAt(V(c) + K(V(c)) * n, d), made |-> c.made + K(V(c))]
                     ELSE c
<1> DEFINE W == [c \in Cursors |-> End(c)]
<1>1. ASSUME NEW v \in Nat PROVE First(v, K(v))
  <2>1. \E k : First(v, k)
    <3>1. PICK k \in Nat : /\ 1 <= k /\ Stops(v + k * n, d, h, B)
                          /\ \A j \in Nat : 1 <= j /\ j < k => ~Stops(v + j * n, d, h, B)
      <4>1. 1 \in {0, 1}
        OBVIOUS
      <4> QED
        BY ONLY <4>1, FirstStop, v \in Nat, n \in Nat \ {0}, d \in Nat \ {0}, h \in Nat, B \in Nat
    <3> QED
      BY <3>1
  <2> HIDE DEF First
  <2> QED
    BY <2>1
<1>2. ASSUME NEW v \in Nat, NEW k \in Nat, NEW l \in Nat, First(v, k), First(v, l) PROVE k = l
  <2>1. ~(k < l) /\ ~(l < k)
    BY <1>2
  <2> QED
    BY <2>1
<1> HIDE DEF K, V
<1>3. ASSUME NEW c \in Cursors, c.pos.int + h < B
      PROVE  End(c) = W[[pos |-> Moved(c.pos, n, d), made |-> c.made + 1]]
  <2>1. PICK p \in [int : Nat, frac : Nat], m \in Nat : p = c.pos /\ m = c.made
    BY CursorsParts
  <2>2. PICK v \in Nat : v = V(c) /\ v = p.int * d + p.frac
    <3>1. p.int \in Nat /\ p.frac \in Nat
      BY <2>1
    <3> QED
      BY <2>1, <3>1 DEF V
  <2>3. PICK w \in Nat : w = v + n
    OBVIOUS
  <2>4. PICK q \in [int : Nat, frac : Nat] : q = CursorAt(w, d) /\ q.int = w \div d /\ w = q.int * d + q.frac
    <3>1. PICK q : q = CursorAt(w, d)
      OBVIOUS
    <3>2. q \in [int : Nat, frac : Nat] /\ q.int = w \div d /\ w = q.int * d + q.frac
      BY ONLY <3>1, CursorAtType, w \in Nat, d \in Nat \ {0}
    <3> QED
      BY ONLY <3>1, <3>2, Zenon
  <2>5. q = Moved(c.pos, n, d)
    BY <2>1, <2>2, <2>3, <2>4, MovedAt
  <2>6. PICK c1 \in Cursors : c1 = [pos |-> q, made |-> m + 1]
    <3>1. m + 1 \in Nat
      OBVIOUS
    <3> QED
      BY ONLY <3>1, CursorsRecord, q \in [int : Nat, frac : Nat]
  <2>7. c1.pos = q /\ c1.made = m + 1 /\ V(c1) = w
    <3>1. c1.pos = q /\ c1.made = m + 1
      BY <2>6
    <3> QED
      BY <2>4, <3>1, Zenon DEF V
  <2>8. PICK k \in Nat : k = K(v) /\ First(v, k)
    BY <1>1
  <2>9. End(c) = [pos |-> CursorAt(v + k * n, d), made |-> m + k]
    BY <1>3, <2>1, <2>2, <2>8
  <2>10. W[c1] = End(c1)
    OBVIOUS
  <2>11. CASE q.int + h < B
    <3>1. PICK l \in Nat : l = K(w) /\ First(w, l)
      BY <1>1
    <3>2. End(c1) = [pos |-> CursorAt(w + l * n, d), made |-> (m + 1) + l]
      BY <2>7, <2>11, <3>1
    <3>3. ~Stops(v + 1 * n, d, h, B)
      <4>1. v + 1 * n = w
        BY <2>3
      <4>2. ~Stops(w, d, h, B)
        BY <2>4, <2>11 DEF Stops
      <4> QED
        BY <4>1, <4>2
    <3>4. \A j \in Nat : w + j * n = v + (j + 1) * n
      BY <2>3, StepAlong
    <3>5. First(v, l + 1)
      <4>1. Stops(v + (l + 1) * n, d, h, B)
        BY <3>1, <3>4
      <4>2. ASSUME NEW j \in Nat, 1 <= j, j < l + 1 PROVE ~Stops(v + j * n, d, h, B)
        <5>1. CASE j = 1
          BY <3>3, <5>1
        <5>2. CASE j > 1
          <6>1. PICK i \in Nat : i + 1 = j /\ 1 <= i /\ i < l
            <7>1. j - 1 \in Nat /\ (j - 1) + 1 = j /\ 1 <= j - 1 /\ j - 1 < l
              BY <4>2, <5>2
            <7> QED
              BY <7>1
          <6>2. ~Stops(w + i * n, d, h, B)
            BY <3>1, <6>1
          <6> QED
            BY <3>4, <6>1, <6>2
        <5> QED
          BY <4>2, <5>1, <5>2
      <4>3. l + 1 \in Nat /\ 1 <= l + 1
        OBVIOUS
      <4> QED
        BY <4>1, <4>2, <4>3
    <3>6. k = l + 1
      <4>1. l + 1 \in Nat
        OBVIOUS
      <4> HIDE DEF First
      <4> QED
        BY <1>2, <2>8, <3>5, <4>1
    <3>7. v + k * n = w + l * n /\ m + k = (m + 1) + l
      BY <3>4, <3>6
    <3> QED
      BY <2>1, <2>5, <2>6, <2>9, <2>10, <3>2, <3>7, Zenon
  <2>12. CASE ~(q.int + h < B)
    <3>1. End(c1) = c1
      BY <2>7, <2>12
    <3>2. First(v, 1)
      <4>1. v + 1 * n = w
        BY <2>3
      <4>2. Stops(w, d, h, B)
        BY <2>4, <2>12 DEF Stops
      <4>3. Stops(v + 1 * n, d, h, B)
        BY <4>1, <4>2
      <4> QED
        BY <4>3
    <3>3. k = 1
      <4> HIDE DEF First
      <4> QED
        BY <1>2, <2>8, <3>2
    <3>4. v + k * n = w /\ m + k = m + 1
      BY <2>3, <3>3
    <3> QED
      BY <2>1, <2>4, <2>5, <2>6, <2>9, <2>10, <3>1, <3>4, Zenon
  <2> QED
    BY <2>11, <2>12
<1>4. ASSUME NEW c \in Cursors
      PROVE  W[c] = IF c.pos.int + h < B THEN W[[pos |-> Moved(c.pos, n, d), made |-> c.made + 1]] ELSE c
  <2>1. CASE c.pos.int + h < B
    <3>1. W[c] = End(c)
      OBVIOUS
    <3> HIDE DEF W
    <3> QED
      BY <1>3, <2>1, <3>1, Zenon
  <2>2. CASE ~(c.pos.int + h < B)
    <3>1. W[c] = c
      BY <2>2
    <3> HIDE DEF W
    <3> QED
      BY <2>2, <3>1, Zenon
  <2> QED
    BY <2>1, <2>2
<1>5. PICK g : g = W
  OBVIOUS
<1>6. g = [c \in Cursors |-> g[c]]
  BY <1>5
<1>7. \A c \in Cursors : g[c] = IF c.pos.int + h < B THEN g[[pos |-> Moved(c.pos, n, d), made |-> c.made + 1]] ELSE c
  <2> HIDE DEF W
  <2> QED
    BY <1>4, <1>5, Zenon
<1>8. RunsOut(g, n, d, h, B)
  BY ONLY <1>6, <1>7, Zenon DEF RunsOut
<1> QED
  BY <1>8

\* Where the loop ends: at the first cursor that stops it.
LEMMA LoopRuns ==
    ASSUME NEW n \in Nat \ {0}, NEW d \in Nat \ {0}, NEW h \in Nat, NEW B \in Nat,
           NEW f, RunsOut(f, n, d, h, B), NEW v \in Nat
    PROVE  \E k \in Nat : /\ f[[pos |-> CursorAt(v, d), made |-> 0]] = [pos |-> CursorAt(v + k * n, d), made |-> k]
                          /\ Stops(v + k * n, d, h, B)
                          /\ \A j \in Nat : j < k => ~Stops(v + j * n, d, h, B)
<1> DEFINE Reached(k) == [pos |-> CursorAt(v + k * n, d), made |-> k]
<1>1. PICK k \in Nat : Stops(v + k * n, d, h, B) /\ \A j \in Nat : j < k => ~Stops(v + j * n, d, h, B)
  <2>1. 0 \in {0, 1}
    OBVIOUS
  <2>2. PICK k \in Nat : 0 <= k /\ Stops(v + k * n, d, h, B)
                         /\ \A j \in Nat : 0 <= j /\ j < k => ~Stops(v + j * n, d, h, B)
    BY ONLY <2>1, FirstStop, v \in Nat, n \in Nat \ {0}, d \in Nat \ {0}, h \in Nat, B \in Nat
  <2>3. \A j \in Nat : 0 <= j
    OBVIOUS
  <2> QED
    BY ONLY <2>2, <2>3, Zenon
<1>2. \A c \in Cursors : f[c] = IF c.pos.int + h < B THEN f[[pos |-> Moved(c.pos, n, d), made |-> c.made + 1]] ELSE c
  BY Zenon DEF RunsOut
<1>3. ASSUME NEW j \in Nat
      PROVE  /\ Reached(j) \in Cursors
             /\ f[Reached(j)] = IF Stops(v + j * n, d, h, B) THEN Reached(j) ELSE f[Reached(j + 1)]
  <2>1. PICK w \in Nat : w = v + j * n /\ w + n = v + (j + 1) * n
    BY StepAlong
  <2>2. PICK q \in [int : Nat, frac : Nat] : q = CursorAt(w, d) /\ q.int = w \div d
    BY CursorAtType
  <2>3. [pos |-> q, made |-> j] \in Cursors /\ Reached(j) = [pos |-> q, made |-> j]
    BY <2>1, <2>2, CursorsRecord
  <2>4. f[[pos |-> q, made |-> j]] = IF q.int + h < B THEN f[[pos |-> Moved(q, n, d), made |-> j + 1]]
                                                       ELSE [pos |-> q, made |-> j]
    <3>1. PICK c \in Cursors : c = [pos |-> q, made |-> j]
      BY <2>3
    <3>2. c.pos = q /\ c.made = j
      BY <3>1
    <3>3. f[c] = IF c.pos.int + h < B THEN f[[pos |-> Moved(c.pos, n, d), made |-> c.made + 1]] ELSE c
      BY <1>2
    <3> QED
      BY <3>1, <3>2, <3>3, Zenon
  <2>5. Reached(j + 1) = [pos |-> Moved(q, n, d), made |-> j + 1]
    <3>1. Moved(q, n, d) = CursorAt(w + n, d)
      BY <2>2, CursorMoves
    <3> QED
      BY ONLY <2>1, <3>1, Zenon
  <2>6. q.int + h < B <=> ~Stops(v + j * n, d, h, B)
    BY <2>1, <2>2 DEF Stops
  <2> HIDE DEF Reached
  <2> QED
    BY <2>3, <2>4, <2>5, <2>6
<1> DEFINE Off == {j \in Nat : j <= k /\ f[Reached(j)] # f[Reached(0)]}
<1>4. Off = {}
  <2> SUFFICES ASSUME Off # {} PROVE FALSE
    OBVIOUS
  <2>1. PICK j \in Off : \A i \in Off : j <= i
    <3>1. Off \in SUBSET Nat
      OBVIOUS
    <3> HIDE DEF Off
    <3> QED
      BY <3>1, LeastOf
  <2> HIDE DEF Reached
  <2>2. j \in Nat /\ j <= k /\ j # 0 /\ f[Reached(j)] # f[Reached(0)]
    BY <2>1
  <2>3. PICK i \in Nat : i + 1 = j
    <3>1. j - 1 \in Nat /\ (j - 1) + 1 = j
      BY <2>2
    <3> QED
      BY <3>1
  <2>4. i < k /\ i < j
    BY <2>2, <2>3
  <2>5. i \notin Off
    BY <2>1, <2>2, <2>4
  <2>6. f[Reached(i)] = f[Reached(0)]
    BY <2>4, <2>5
  <2>7. ~Stops(v + i * n, d, h, B)
    BY <1>1, <2>4
  <2>8. f[Reached(i)] = f[Reached(i + 1)]
    BY <1>3, <2>7, Zenon
  <2> QED
    BY <2>2, <2>3, <2>6, <2>8
<1>5. f[Reached(0)] = Reached(k)
  <2>1. k \notin Off
    BY <1>4
  <2> HIDE DEF Reached
  <2>2. f[Reached(k)] = f[Reached(0)]
    BY <2>1
  <2>3. f[Reached(k)] = Reached(k)
    BY <1>1, <1>3
  <2> QED
    BY <2>2, <2>3
<1>6. Reached(0) = [pos |-> CursorAt(v, d), made |-> 0]
  <2>1. v + 0 * n = v
    OBVIOUS
  <2> QED
    BY <2>1
<1> QED
  BY <1>1, <1>5, <1>6

LEMMA OutputsLoop ==
    ASSUME NEW r
    PROVE  outputs(r) = (CHOOSE f : RunsOut(f, stepNum(r.shape), stepDen(r.shape), halfTaps(r.shape), r.buf))
                            [[pos |-> r.pos, made |-> 0]]
BY DEF outputs, RunsOut, Moved, advance, Cursors

\* Dividing by the gcd leaves nothing over.
LEMMA LowestTerm ==
    ASSUME NEW a \in Nat \ {0}, NEW g \in Nat \ {0}, a % g = 0
    PROVE  (a \div g) \in Nat \ {0} /\ (a \div g) * g = a
<1>1. a \in Int
  OBVIOUS
<1>2. PICK q \in Nat : q = a \div g
  BY Quotient
<1>3. a = q * g + (a % g)
  BY ONLY <1>1, <1>2, DivMod, g \in Nat \ {0}
<1>4. a = q * g
  <2>1. q * g \in Nat
    OBVIOUS
  <2> QED
    BY ONLY <1>3, <2>1, a % g = 0
<1>5. q # 0
  <2>1. 0 * g = 0
    OBVIOUS
  <2> QED
    BY ONLY <1>4, <2>1, a \in Nat \ {0}
<1> QED
  BY ONLY <1>2, <1>4, <1>5

LEMMA Cancels ==
    ASSUME NEW a \in Nat, NEW b \in Nat, NEW g \in Nat \ {0}
    PROVE  a * g <= b * g <=> a <= b
<1>1. CASE a <= b
  BY <1>1, ProductGrows
<1>2. CASE b + 1 <= a
  <2>1. (b + 1) * g <= a * g
    <3>1. b + 1 \in Nat /\ g \in Nat
      OBVIOUS
    <3> QED
      BY ONLY <1>2, <3>1, ProductGrows, a \in Nat
  <2>2. (b + 1) * g = b * g + g /\ b * g \in Nat /\ a * g \in Nat
    OBVIOUS
  <2> QED
    BY ONLY <1>2, <2>1, <2>2, a \in Nat, b \in Nat, g \in Nat \ {0}
<1> QED
  BY <1>1, <1>2

\* The step in its lowest terms, and a kernel that reaches as far as a step.
LEMMA StepTerms ==
    ASSUME NEW s \in Shape
    PROVE  /\ stepNum(s) \in Nat \ {0} /\ stepDen(s) \in Nat \ {0} /\ halfTaps(s) \in Nat \ {0}
           /\ stepNum(s) <= halfTaps(s) * stepDen(s)
           /\ \E g \in Nat \ {0} : s.rate = stepNum(s) * g /\ OutRate = stepDen(s) * g
<1>1. PICK R \in Nat \ {0}, O \in Nat \ {0}, Z \in Nat \ {0} : R = s.rate /\ O = OutRate /\ Z = Zeros
  BY ResamplerAssumption
<1>2. PICK g \in Nat \ {0} : g = gcd(R, O) /\ R % g = 0 /\ O % g = 0
  BY GcdDivides
<1>3. PICK num \in Nat \ {0} : num = R \div g /\ num * g = R
  BY <1>2, LowestTerm
<1>4. PICK den \in Nat \ {0} : den = O \div g /\ den * g = O
  BY <1>2, LowestTerm
<1>5. stepNum(s) = num /\ stepDen(s) = den
  BY <1>1, <1>2, <1>3, <1>4 DEF stepNum, stepDen
<1>6. PICK h \in Nat \ {0} : h = halfTaps(s) /\ R <= h * O
  <2>1. 1 * O <= Z * O /\ 1 * O = O /\ Z * O \in Nat
    <3>1. 1 \in Nat /\ O \in Nat /\ Z \in Nat /\ 1 <= Z
      OBVIOUS
    <3>2. 1 * O <= Z * O
      BY ONLY <3>1, ProductGrows
    <3>3. 1 * O = O /\ Z * O \in Nat
      OBVIOUS
    <3> QED
      BY <3>2, <3>3
  <2>2. CASE R <= O
    <3>1. halfTaps(s) = Z
      BY <1>1, <2>2 DEF halfTaps
    <3>2. R <= Z * O
      BY ONLY <2>1, <2>2, R \in Nat, O \in Nat
    <3> QED
      BY <3>1, <3>2
  <2>3. CASE ~(R <= O)
    <3>1. PICK a \in Nat : a = Z * R + O - 1
      <4>1. Z * R \in Nat
        OBVIOUS
      <4>2. Z * R + O - 1 \in Nat
        BY <4>1
      <4> QED
        BY <4>2
    <3>2. PICK q \in Nat : q = a \div O /\ q * O <= a /\ a < q * O + O
      BY Quotient
    <3>3. halfTaps(s) = q
      BY ONLY <1>1, <2>3, <3>1, <3>2 DEF halfTaps
    <3>4. 1 * R <= Z * R /\ 1 * R = R /\ Z * R \in Nat
      <4>1. 1 \in Nat /\ R \in Nat /\ Z \in Nat /\ 1 <= Z
        OBVIOUS
      <4>2. 1 * R <= Z * R
        BY ONLY <4>1, ProductGrows
      <4>3. 1 * R = R /\ Z * R \in Nat
        OBVIOUS
      <4> QED
        BY <4>2, <4>3
    <3>5. q * O \in Nat
      OBVIOUS
    <3>6. R <= q * O
      BY ONLY <3>1, <3>2, <3>4, <3>5, R \in Nat, O \in Nat
    <3>7. q # 0
      <4>1. 0 * O = 0
        OBVIOUS
      <4> QED
        BY ONLY <3>6, <4>1, R \in Nat \ {0}
    <3> QED
      BY ONLY <3>3, <3>6, <3>7, q \in Nat
  <2> QED
    BY <2>2, <2>3
<1>7. num <= h * den
  <2>1. h * (den * g) = (h * den) * g /\ h * den \in Nat
    OBVIOUS
  <2>2. num * g <= (h * den) * g
    BY ONLY <1>3, <1>4, <1>6, <2>1
  <2> QED
    BY ONLY <2>1, <2>2, Cancels, num \in Nat \ {0}, g \in Nat \ {0}
<1> QED
  BY <1>1, <1>3, <1>4, <1>5, <1>6, <1>7

\* The loop stops for the frames made as it does for the cursor: the buffer's
\* start and the stream's are a whole number of frames apart.
LEMMA StopsInStream ==
    ASSUME NEW n \in Nat, NEW d \in Nat \ {0}, NEW h \in Nat, NEW b \in Nat, NEW go \in Nat,
           NEW tot \in Nat, go + b = tot + h, NEW v \in Nat, NEW m \in Nat,
           go * d + v = m + h * d
    PROVE  Stops(v, d, h, b) <=> (m \div d) + h >= tot
<1>1. PICK q \in Nat : q = v \div d
  BY Quotient
<1>2. PICK p \in Nat : p = m \div d
  BY Quotient
<1>3. (go * d + v) \div d = go + q
  <2>1. (go * d + v) \div d = go + (v \div d) /\ (go * d + v) % d = v % d
    BY ONLY QuotientShift, go \in Nat, v \in Nat, d \in Nat \ {0}, ZenonT(100)
  <2> QED
    BY ONLY <1>1, <2>1
<1>4. (h * d + m) \div d = h + p
  <2>1. (h * d + m) \div d = h + (m \div d) /\ (h * d + m) % d = m % d
    BY ONLY QuotientShift, h \in Nat, m \in Nat, d \in Nat \ {0}, ZenonT(100)
  <2> QED
    BY ONLY <1>2, <2>1
<1>5. go * d + v = h * d + m
  <2>1. h * d \in Nat
    OBVIOUS
  <2> QED
    BY ONLY <2>1, m \in Nat, go * d + v = m + h * d
<1>6. go + q = h + p
  BY ONLY <1>3, <1>4, <1>5
<1> QED
  BY ONLY <1>1, <1>2, <1>6, go + b = tot + h, go \in Nat, b \in Nat, tot \in Nat, h \in Nat, q \in Nat, p \in Nat
  DEF Stops

\* One pass of produce, as numbers.
GridNumbers(n, d, h, i, x, b, go, ma, tot) ==
    /\ n <= h * d /\ x < d /\ h <= i + 1 /\ i + 1 <= b + h /\ go + b = tot + h
    /\ (go + i) * d + x = ma * n + h * d
    /\ ma > 0 => ((ma - 1) * n) \div d + h < tot
LastPass(v, k, n, d, h, b, e, y) ==
    /\ Stops(v + k * n, d, h, b) /\ \A j \in Nat : j < k => ~Stops(v + j * n, d, h, b)
    /\ e = (v + k * n) \div d /\ y = (v + k * n) % d
PassedNumbers(n, d, h, b, go, mk, tot, e, y) ==
    /\ h <= e + 1 /\ e + 1 <= b + h /\ y < d
    /\ (go + e) * d + y = mk * n + h * d
    /\ (mk * n) \div d + h >= tot
    /\ mk > 0 => ((mk - 1) * n) \div d + h < tot

LEMMA ProduceNumbers ==
    ASSUME NEW n \in Nat \ {0}, NEW d \in Nat \ {0}, NEW h \in Nat \ {0},
           NEW i \in Nat, NEW x \in Nat, NEW b \in Nat, NEW go \in Nat, NEW ma \in Nat, NEW tot \in Nat,
           GridNumbers(n, d, h, i, x, b, go, ma, tot),
           NEW k \in Nat, NEW e \in Nat, NEW y \in Nat, LastPass(i * d + x, k, n, d, h, b, e, y)
    PROVE  PassedNumbers(n, d, h, b, go, ma + k, tot, e, y)
<1>a. PICK v \in Nat : v = i * d + x
  OBVIOUS
<1>b. /\ n <= h * d /\ x < d /\ h <= i + 1 /\ i + 1 <= b + h /\ go + b = tot + h
      /\ (go + i) * d + x = ma * n + h * d
      /\ ma > 0 => ((ma - 1) * n) \div d + h < tot
  BY DEF GridNumbers
<1>c. /\ Stops(v + k * n, d, h, b) /\ \A j \in Nat : j < k => ~Stops(v + j * n, d, h, b)
      /\ e = (v + k * n) \div d /\ y = (v + k * n) % d
  BY <1>a DEF LastPass
<1> USE <1>a, <1>b, <1>c
<1>1. go * d + v = ma * n + h * d
  <2>1. (go + i) * d = go * d + i * d /\ go * d \in Nat /\ i * d \in Nat
    OBVIOUS
  <2> QED
    BY ONLY <2>1, v = i * d + x, (go + i) * d + x = ma * n + h * d, x \in Nat
<1>2. ASSUME NEW j \in Nat
      PROVE  /\ v + j * n \in Nat /\ (ma + j) * n \in Nat
             /\ go * d + (v + j * n) = (ma + j) * n + h * d
             /\ Stops(v + j * n, d, h, b) <=> (((ma + j) * n) \div d) + h >= tot
  <2>1. v + j * n \in Nat /\ (ma + j) * n \in Nat /\ (ma + j) * n = ma * n + j * n /\ j * n \in Nat /\ ma * n \in Nat
        /\ h * d \in Nat /\ go * d \in Nat
    OBVIOUS
  <2>2. go * d + (v + j * n) = (ma + j) * n + h * d
    BY ONLY <1>1, <2>1, v \in Nat
  <2>3. Stops(v + j * n, d, h, b) <=> (((ma + j) * n) \div d) + h >= tot
    BY ONLY <2>1, <2>2, StopsInStream, n \in Nat \ {0}, d \in Nat \ {0}, h \in Nat \ {0}, b \in Nat, go \in Nat,
       tot \in Nat, go + b = tot + h
  <2> QED
    BY ONLY <2>1, <2>2, <2>3
<1>3. PICK w \in Nat : w = v + k * n /\ w = e * d + y /\ y \in 0 .. d - 1
  <2>1. PICK w \in Nat : w = v + k * n
    BY <1>2
  <2>2. w \in Int
    OBVIOUS
  <2>3. (w % d) \in 0 .. d - 1 /\ w = (w \div d) * d + (w % d)
    BY ONLY <2>2, DivMod, d \in Nat \ {0}
  <2> QED
    BY ONLY <2>1, <2>3, e = (v + k * n) \div d, y = (v + k * n) % d
<1>4. h <= e + 1
  <2>1. w \div d >= i
    <3>1. w >= i * d
      <4>1. k * n \in Nat /\ i * d \in Nat
        OBVIOUS
      <4> QED
        BY ONLY <1>3, <4>1, v = i * d + x, x \in Nat
    <3> QED
      BY ONLY <3>1, QuotientReaches, w \in Nat, i \in Nat, d \in Nat \ {0}
  <2> QED
    BY ONLY <1>3, <2>1, e = (v + k * n) \div d, e \in Nat, h <= i + 1, i \in Nat, h \in Nat \ {0}
<1>5. e + 1 <= b + h
  <2>1. CASE k = 0
    <3>1. v + k * n = v
      BY <2>1
    <3>2. e = i
      <4>1. x \in 0 .. d - 1
        OBVIOUS
      <4>2. v \div d = i
        BY ONLY <4>1, QuotientUnique, v \in Nat, d \in Nat \ {0}, i \in Nat, v = i * d + x
      <4> QED
        BY ONLY <3>1, <4>2, e = (v + k * n) \div d
    <3> QED
      BY ONLY <3>2, i + 1 <= b + h
  <2>2. CASE k # 0
    <3>1. PICK j \in Nat : j + 1 = k
      <4>1. k - 1 \in Nat /\ (k - 1) + 1 = k
        BY <2>2
      <4> QED
        BY <4>1
    <3>2. PICK u \in Nat : u = v + j * n /\ u + n = w
      BY <1>3, <3>1, StepAlong
    <3>3. ~Stops(u, d, h, b)
      BY <3>1, <3>2
    <3>4. PICK q \in Nat : q = u \div d /\ q + h < b
      <4>1. PICK q \in Nat : q = u \div d
        BY ONLY Quotient, u \in Nat, d \in Nat \ {0}
      <4>2. ~(b <= q + h)
        BY ONLY <3>3, <4>1 DEF Stops
      <4> QED
        BY ONLY <4>1, <4>2, q \in Nat, h \in Nat \ {0}, b \in Nat
    <3>5. PICK m \in Nat : m = (q + 1) + h
      OBVIOUS
    <3>6. e <= h + q
      <4>1. u < q * d + d
        BY ONLY <3>4, Quotient, u \in Nat, d \in Nat \ {0}
      <4>2. m * d = (q * d + d) + h * d /\ q * d \in Nat /\ h * d \in Nat /\ m * d \in Nat
        BY ONLY <3>5, q \in Nat, d \in Nat \ {0}, h \in Nat \ {0}, m \in Nat
      <4>3. ~(w >= m * d)
        BY ONLY <3>2, <4>1, <4>2, n <= h * d, n \in Nat \ {0}, u \in Nat, w \in Nat, d \in Nat \ {0}
      <4>4. ~(w \div d >= m)
        BY ONLY <4>3, QuotientReaches, w \in Nat, m \in Nat, d \in Nat \ {0}
      <4>5. w \div d = e
        BY ONLY <1>3, <1>c
      <4> QED
        BY ONLY <3>5, <4>4, <4>5, h \in Nat \ {0}, q \in Nat, e \in Nat
    <3> QED
      BY ONLY <3>4, <3>6, q \in Nat, h \in Nat \ {0}, b \in Nat, e \in Nat
  <2> QED
    BY <2>1, <2>2
<1>6. (go + e) * d + y = (ma + k) * n + h * d
  <2>1. go * d + w = (ma + k) * n + h * d
    BY <1>2, <1>3
  <2>2. (go + e) * d = go * d + e * d /\ go * d \in Nat /\ e * d \in Nat
    OBVIOUS
  <2> QED
    BY ONLY <1>3, <2>1, <2>2, y \in Nat
<1>7. ((ma + k) * n) \div d + h >= tot
  BY <1>2
<1>8. ASSUME ma + k > 0 PROVE (((ma + k) - 1) * n) \div d + h < tot
  <2>1. CASE k = 0
    <3>1. ma + k = ma
      BY <2>1
    <3> QED
      BY ONLY <1>8, <3>1, ma > 0 => ((ma - 1) * n) \div d + h < tot
  <2>2. CASE k # 0
    <3>1. PICK j \in Nat : j + 1 = k
      <4>1. k - 1 \in Nat /\ (k - 1) + 1 = k
        BY <2>2
      <4> QED
        BY <4>1
    <3>2. ~Stops(v + j * n, d, h, b)
      BY <3>1
    <3>3. ~((((ma + j) * n) \div d) + h >= tot) /\ (ma + j) * n \in Nat
      BY <1>2, <3>2
    <3>4. (ma + k) - 1 = ma + j
      BY <3>1
    <3>5. ((ma + j) * n) \div d \in Nat
      BY <3>3, Quotient
    <3>6. (((ma + j) * n) \div d) + h < tot
      BY ONLY <3>3, <3>5, h \in Nat \ {0}, tot \in Nat
    <3> QED
      BY ONLY <3>4, <3>6
  <2> QED
    BY <2>1, <2>2
<1>9. y < d
  BY <1>3
<1> QED
  BY ONLY <1>4, <1>5, <1>6, <1>7, <1>8, <1>9 DEF PassedNumbers

\* The fields of a resampler, and what each step of a call leaves in them.
HasFields(r) ==
    r = [shape |-> r.shape, buf |-> r.buf, pos |-> r.pos, pending |-> r.pending,
         emitted |-> r.emitted, fed |-> r.fed, made |-> r.made, gone |-> r.gone, out |-> r.out]

LEMMA ConfigureFields ==
    ASSUME NEW r, HasFields(r), NEW s, NEW c, c = configure(r, s)
    PROVE  /\ HasFields(c) /\ c.shape = s /\ c.buf = (IF filtered(s) THEN halfTaps(s) ELSE 0)
           /\ c.pos = [int |-> c.buf, frac |-> 0]
           /\ c.pending = 0 /\ c.fed = 0 /\ c.made = 0 /\ c.gone = 0 /\ c.emitted = r.emitted
<1>1. c = [r EXCEPT !.shape = s, !.buf = IF filtered(s) THEN halfTaps(s) ELSE 0,
                    !.pos = [int |-> IF filtered(s) THEN halfTaps(s) ELSE 0, frac |-> 0],
                    !.pending = 0, !.fed = 0, !.made = 0, !.gone = 0]
  BY DEF configure
<1>2. PICK b : b = IF filtered(s) THEN halfTaps(s) ELSE 0
  OBVIOUS
<1>3. c = [r EXCEPT !.shape = s, !.buf = b, !.pos = [int |-> b, frac |-> 0],
                    !.pending = 0, !.fed = 0, !.made = 0, !.gone = 0]
  BY ONLY <1>1, <1>2, Zenon
<1>4. /\ HasFields(c) /\ c.shape = s /\ c.buf = b /\ c.pos = [int |-> b, frac |-> 0]
      /\ c.pending = 0 /\ c.fed = 0 /\ c.made = 0 /\ c.gone = 0 /\ c.emitted = r.emitted
  BY ONLY <1>3, HasFields(r) DEF HasFields
<1> QED
  BY ONLY <1>2, <1>4

LEMMA FeedFields ==
    ASSUME NEW r, HasFields(r), NEW n, NEW c, c = feed(r, n)
    PROVE  /\ HasFields(c) /\ c.shape = r.shape /\ c.buf = r.buf + n /\ c.pos = r.pos
           /\ c.pending = r.pending /\ c.fed = r.fed + n /\ c.made = r.made /\ c.gone = r.gone
           /\ c.emitted = r.emitted
BY DEF feed, HasFields

LEMMA PadFields ==
    ASSUME NEW r, HasFields(r), NEW n, NEW c, c = [r EXCEPT !.buf = @ + n]
    PROVE  /\ HasFields(c) /\ c.shape = r.shape /\ c.buf = r.buf + n /\ c.pos = r.pos
           /\ c.pending = r.pending /\ c.fed = r.fed /\ c.made = r.made /\ c.gone = r.gone
           /\ c.emitted = r.emitted
BY DEF HasFields

LEMMA ResetFields ==
    ASSUME NEW r, HasFields(r), NEW c, c = reset(r)
    PROVE  /\ HasFields(c) /\ c.shape = None /\ c.buf = 0 /\ c.pos = [int |-> 0, frac |-> 0]
           /\ c.pending = 0 /\ c.fed = 0 /\ c.made = 0 /\ c.gone = 0 /\ c.emitted = 0
BY DEF reset, HasFields

LEMMA ProduceFields ==
    ASSUME NEW r, HasFields(r), filtered(r.shape), NEW k, NEW e, NEW y,
           outputs(r) = [pos |-> [int |-> e, frac |-> y], made |-> k],
           NEW keep, keep = (IF e - halfTaps(r.shape) + 1 > 0 THEN e - halfTaps(r.shape) + 1 ELSE 0),
           NEW c, c = produce(r)
    PROVE  /\ HasFields(c) /\ c.shape = r.shape /\ c.buf = r.buf - keep /\ c.pos = [int |-> e - keep, frac |-> y]
           /\ c.pending = r.pending + k /\ c.fed = r.fed /\ c.made = r.made + k /\ c.gone = r.gone + keep
           /\ c.emitted = r.emitted
<1>1. outputs(r).pos.int = e /\ outputs(r).pos.frac = y /\ outputs(r).made = k
  OBVIOUS
<1>2. c = [r EXCEPT !.pending = @ + k, !.made = @ + k, !.pos = [int |-> e - keep, frac |-> y],
                    !.buf = @ - keep, !.gone = @ + keep]
  BY <1>1 DEF produce
<1> QED
  BY <1>2 DEF HasFields

LEMMA PassedFields ==
    ASSUME NEW r, HasFields(r), ~filtered(r.shape), NEW c, c = produce(r)
    PROVE  /\ HasFields(c) /\ c.shape = r.shape /\ c.buf = 0 /\ c.pos = r.pos
           /\ c.pending = r.pending + r.buf /\ c.fed = r.fed /\ c.made = r.made + r.buf
           /\ c.emitted = r.emitted /\ c.gone = r.gone + r.buf
<1>1. c = [r EXCEPT !.pending = @ + r.buf, !.made = @ + r.buf, !.gone = @ + r.buf, !.buf = 0]
  BY DEF produce
<1> QED
  BY <1>1 DEF HasFields

LEMMA CollectFields ==
    ASSUME NEW r, HasFields(r), r.pending \in Nat, r.emitted \in Nat, NEW final \in BOOLEAN,
           NEW c, c = collect(r, final)
    PROVE  /\ HasFields(c) /\ c.shape = r.shape /\ c.buf = r.buf /\ c.pos = r.pos
           /\ c.fed = r.fed /\ c.made = r.made /\ c.gone = r.gone
           /\ c.pending \in Nat /\ c.emitted \in Nat /\ c.emitted + c.pending = r.emitted + r.pending
           /\ FrameSize > 0 => c.pending < FrameSize
<1> DEFINE size == IF FrameSize = 0 THEN r.pending ELSE FrameSize
<1> DEFINE whole == IF r.pending = 0 THEN 0 ELSE r.pending \div size
<1> DEFINE taken == IF final THEN r.pending ELSE whole * size
<1>1. PICK o : c = [r EXCEPT !.pending = @ - taken, !.emitted = @ + taken, !.out = o]
  <2>1. PICK o : c = [r EXCEPT !.pending = @ - taken, !.emitted = @ + taken,
                               !.out = @ \o ([i \in 1..whole |-> size] \o o)]
    BY DEF collect
  <2> HIDE DEF taken, whole, size
  <2>2. \E q : q = r.out \o ([i \in 1..whole |-> size] \o o)
    OBVIOUS
  <2> QED
    BY <2>1, <2>2
<1>2. /\ taken \in Nat /\ taken <= r.pending
      /\ FrameSize > 0 => r.pending - taken < FrameSize
  <2>1. PICK p \in Nat, F \in Nat : p = r.pending /\ F = FrameSize
    BY ResamplerAssumption
  <2>2. CASE final
    BY <2>1, <2>2
  <2>3. CASE ~final /\ p = 0
    <3>1. taken = 0 * size
      BY <2>1, <2>3
    <3>2. size \in Nat
      BY <2>1
    <3>3. taken = 0
      <4> HIDE DEF taken, size
      <4> QED
        BY <3>1, <3>2
    <3> HIDE DEF taken
    <3> QED
      BY <2>1, <2>3, <3>3
  <2>4. CASE ~final /\ p # 0 /\ F = 0
    <3>1. taken = (p \div p) * p
      BY <2>1, <2>4
    <3>2. p \div p = 1
      <4>1. p \in Nat \ {0} /\ 0 \in 0 .. p - 1 /\ 1 \in Nat /\ p = 1 * p + 0
        BY <2>4
      <4> QED
        BY ONLY <4>1, QuotientUnique
    <3>3. taken = p
      <4> HIDE DEF taken
      <4> QED
        BY <3>1, <3>2
    <3> HIDE DEF taken
    <3> QED
      BY <2>1, <2>4, <3>3
  <2>5. CASE ~final /\ p # 0 /\ F # 0
    <3>1. taken = (p \div F) * F
      BY <2>1, <2>5
    <3>2. F \in Nat \ {0}
      BY <2>5
    <3>3. (p \div F) \in Nat /\ (p \div F) * F <= p /\ p < (p \div F) * F + F
      BY ONLY <3>2, Quotient, p \in Nat
    <3>4. PICK q \in Nat : q = p \div F
      BY <3>3
    <3>5. q * F \in Nat
      OBVIOUS
    <3> HIDE DEF taken
    <3> QED
      BY ONLY <2>1, <3>1, <3>3, <3>4, <3>5, p \in Nat, F \in Nat
  <2> QED
    BY <2>2, <2>3, <2>4, <2>5
<1> HIDE DEF taken
<1>3. /\ HasFields(c) /\ c.shape = r.shape /\ c.buf = r.buf /\ c.pos = r.pos
      /\ c.fed = r.fed /\ c.made = r.made /\ c.gone = r.gone
      /\ c.pending = r.pending - taken /\ c.emitted = r.emitted + taken
  BY <1>1 DEF HasFields
<1> QED
  BY <1>2, <1>3

(***************************************************************************)
(* A stream of fed frames, e more of silence behind it, with made frames   *)
(* out of it: what holds between the steps of a call, and what produce     *)
(* adds.                                                                   *)
(***************************************************************************)
OnGrid(r, e, n, d, h) ==
    /\ r.pos \in [int : Nat, frac : Nat] /\ r.pos.frac < d /\ h <= r.pos.int + 1 /\ r.pos.int + 1 <= r.buf + h
    /\ r.gone + r.buf = (r.fed + e) + h
    /\ (r.gone + r.pos.int) * d + r.pos.frac = r.made * n + h * d
    /\ r.made > 0 => ((r.made - 1) * n) \div d + h < r.fed + e

Running(r, e) ==
    /\ HasFields(r) /\ r.shape \in Shape
    /\ r.buf \in Nat /\ r.gone \in Nat /\ r.fed \in Nat /\ r.made \in Nat
    /\ r.pending \in Nat /\ r.emitted \in Nat /\ r.emitted + r.pending = r.made
    /\ filtered(r.shape) => OnGrid(r, e, stepNum(r.shape), stepDen(r.shape), halfTaps(r.shape))
    /\ ~filtered(r.shape) => r.made + r.buf = r.fed

Done(r, e) ==
    /\ Running(r, e)
    /\ filtered(r.shape) => ((r.made * stepNum(r.shape)) \div stepDen(r.shape)) + halfTaps(r.shape) >= r.fed + e
    /\ ~filtered(r.shape) => r.buf = 0

\* outputs ends at the first cursor whose kernel does not fit.
LEMMA OutputsEnd ==
    ASSUME NEW r, r.shape \in Shape, r.buf \in Nat, NEW v \in Nat, r.pos = CursorAt(v, stepDen(r.shape))
    PROVE  \E k \in Nat :
             /\ outputs(r) = [pos |-> CursorAt(v + k * stepNum(r.shape), stepDen(r.shape)), made |-> k]
             /\ Stops(v + k * stepNum(r.shape), stepDen(r.shape), halfTaps(r.shape), r.buf)
             /\ \A j \in Nat : j < k => ~Stops(v + j * stepNum(r.shape), stepDen(r.shape), halfTaps(r.shape), r.buf)
<1>1. PICK n \in Nat \ {0}, d \in Nat \ {0}, h \in Nat \ {0} :
         n = stepNum(r.shape) /\ d = stepDen(r.shape) /\ h = halfTaps(r.shape)
  BY StepTerms
<1>2. h \in Nat
  OBVIOUS
<1>3. PICK B \in Nat : B = r.buf
  OBVIOUS
<1>4. PICK f : f = CHOOSE g : RunsOut(g, n, d, h, B)
  OBVIOUS
<1>5. RunsOut(f, n, d, h, B)
  <2>1. \E g : RunsOut(g, n, d, h, B)
    BY ONLY <1>2, LoopExists, n \in Nat \ {0}, d \in Nat \ {0}, B \in Nat
  <2> QED
    BY <1>4, <2>1, Zenon
<1>6. outputs(r) = f[[pos |-> CursorAt(v, d), made |-> 0]]
  BY <1>1, <1>3, <1>4, OutputsLoop, Zenon
<1>7. \E k \in Nat : /\ f[[pos |-> CursorAt(v, d), made |-> 0]] = [pos |-> CursorAt(v + k * n, d), made |-> k]
                     /\ Stops(v + k * n, d, h, B)
                     /\ \A j \in Nat : j < k => ~Stops(v + j * n, d, h, B)
  BY ONLY <1>2, <1>5, LoopRuns, n \in Nat \ {0}, d \in Nat \ {0}, B \in Nat, v \in Nat
<1> QED
  BY ONLY <1>1, <1>3, <1>6, <1>7, Zenon

LEMMA ProduceFiltered ==
    ASSUME NEW r, NEW e \in Nat, Running(r, e), filtered(r.shape), NEW c, c = produce(r)
    PROVE  Done(c, e)
<1>1. PICK n \in Nat \ {0}, d \in Nat \ {0}, h \in Nat \ {0} :
         /\ n = stepNum(r.shape) /\ d = stepDen(r.shape) /\ h = halfTaps(r.shape) /\ n <= h * d
  BY StepTerms DEF Running
<1>2. HasFields(r) /\ r.shape \in Shape /\ OnGrid(r, e, n, d, h) /\ r.emitted + r.pending = r.made
  BY <1>1 DEF Running
<1>3. PICK b \in Nat, go \in Nat, fe \in Nat, ma \in Nat, pe \in Nat, em \in Nat :
         /\ b = r.buf /\ go = r.gone /\ fe = r.fed /\ ma = r.made /\ pe = r.pending /\ em = r.emitted
  BY DEF Running
<1>4. PICK i \in Nat, x \in Nat : i = r.pos.int /\ x = r.pos.frac /\ r.pos = [int |-> i, frac |-> x]
  BY <1>2 DEF OnGrid
<1>5. /\ x < d /\ h <= i + 1 /\ i + 1 <= b + h /\ go + b = (fe + e) + h
      /\ (go + i) * d + x = ma * n + h * d
      /\ ma > 0 => ((ma - 1) * n) \div d + h < fe + e
  BY <1>2, <1>3, <1>4 DEF OnGrid
<1>6. PICK tot \in Nat : tot = fe + e
  OBVIOUS
<1>7. PICK v \in Nat : v = i * d + x
  OBVIOUS
<1>8. r.pos = CursorAt(v, d)
  <2>1. x \in 0 .. d - 1
    BY <1>5
  <2>2. v \div d = i /\ v % d = x
    BY ONLY <1>7, <2>1, QuotientUnique, v \in Nat, i \in Nat, d \in Nat \ {0}
  <2> QED
    BY <1>4, <2>2 DEF CursorAt
<1>9. PICK k \in Nat : /\ outputs(r) = [pos |-> CursorAt(v + k * n, d), made |-> k]
                       /\ Stops(v + k * n, d, h, b)
                       /\ \A j \in Nat : j < k => ~Stops(v + j * n, d, h, b)
  BY <1>1, <1>2, <1>3, <1>8, OutputsEnd
<1>10. PICK en \in Nat, y \in Nat : /\ en = (v + k * n) \div d /\ y = (v + k * n) % d
                                    /\ outputs(r) = [pos |-> [int |-> en, frac |-> y], made |-> k]
  <2>1. PICK w \in Nat : w = v + k * n
    OBVIOUS
  <2>2. w \in Int
    OBVIOUS
  <2>3. w \div d \in Nat /\ w % d \in Nat
    BY ONLY <2>2, Quotient, DivMod, w \in Nat, d \in Nat \ {0}
  <2>4. CursorAt(w, d) = [int |-> w \div d, frac |-> w % d]
    BY DEF CursorAt
  <2> QED
    BY ONLY <1>9, <2>1, <2>3, <2>4
<1>11. /\ h <= en + 1 /\ en + 1 <= b + h /\ y < d
       /\ (go + en) * d + y = (ma + k) * n + h * d
       /\ ((ma + k) * n) \div d + h >= tot
       /\ ma + k > 0 => (((ma + k) - 1) * n) \div d + h < tot
  <2>1. GridNumbers(n, d, h, i, x, b, go, ma, tot)
    BY ONLY <1>1, <1>5, <1>6 DEF GridNumbers
  <2>2. LastPass(i * d + x, k, n, d, h, b, en, y)
    BY ONLY <1>7, <1>9, <1>10, Zenon DEF LastPass
  <2>3. PassedNumbers(n, d, h, b, go, ma + k, tot, en, y)
    BY ONLY <2>1, <2>2, ProduceNumbers, n \in Nat \ {0}, d \in Nat \ {0}, h \in Nat \ {0},
       i \in Nat, x \in Nat, b \in Nat, go \in Nat, ma \in Nat, tot \in Nat, k \in Nat,
       en \in Nat, y \in Nat
  <2> QED
    BY ONLY <2>3 DEF PassedNumbers
<1>12. PICK keep \in Nat : keep = en + 1 - h /\ keep = (IF en - h + 1 > 0 THEN en - h + 1 ELSE 0)
  <2>1. en + 1 - h \in Nat /\ en + 1 - h = (IF en - h + 1 > 0 THEN en - h + 1 ELSE 0)
    BY <1>11
  <2> QED
    BY <2>1
<1>13. /\ HasFields(c) /\ c.shape = r.shape /\ c.buf = b - keep /\ c.pos = [int |-> en - keep, frac |-> y]
       /\ c.pending = pe + k /\ c.fed = fe /\ c.made = ma + k /\ c.gone = go + keep
       /\ c.emitted = em
  <2>1. keep = (IF en - halfTaps(r.shape) + 1 > 0 THEN en - halfTaps(r.shape) + 1 ELSE 0)
    BY <1>1, <1>12
  <2>2. /\ HasFields(c) /\ c.shape = r.shape /\ c.buf = r.buf - keep /\ c.pos = [int |-> en - keep, frac |-> y]
        /\ c.pending = r.pending + k /\ c.fed = r.fed /\ c.made = r.made + k /\ c.gone = r.gone + keep
        /\ c.emitted = r.emitted
    BY ONLY <1>2, <1>10, <2>1, ProduceFields, filtered(r.shape), c = produce(r)
  <2> QED
    BY ONLY <1>3, <2>2
<1>14. /\ b - keep \in Nat /\ en - keep \in Nat /\ h <= (en - keep) + 1 /\ (en - keep) + 1 <= (b - keep) + h
       /\ (go + keep) + (b - keep) = (fe + e) + h /\ (go + keep) + (en - keep) = go + en
       /\ em + (pe + k) = ma + k
  <2>1. em + pe = ma
    BY ONLY <1>2, <1>3
  <2>2. keep = en + 1 - h /\ h <= en + 1 /\ en + 1 <= b + h /\ go + b = (fe + e) + h
    BY ONLY <1>5, <1>11, <1>12
  <2> QED
    BY ONLY <2>1, <2>2, h \in Nat \ {0}, en \in Nat, keep \in Nat, b \in Nat, go \in Nat,
     fe \in Nat, e \in Nat, em \in Nat, pe \in Nat, k \in Nat, ma \in Nat
<1>15. c.pos \in [int : Nat, frac : Nat] /\ c.pos.int = en - keep /\ c.pos.frac = y
  BY <1>13, <1>14
<1>16. OnGrid(c, e, n, d, h)
  <2>1. c.pos.frac < d /\ h <= c.pos.int + 1 /\ c.pos.int + 1 <= c.buf + h
    BY ONLY <1>11, <1>13, <1>14, <1>15
  <2>2. c.gone + c.buf = (c.fed + e) + h
    BY ONLY <1>13, <1>14
  <2>3. (c.gone + c.pos.int) * d + c.pos.frac = c.made * n + h * d
    BY ONLY <1>11, <1>13, <1>14, <1>15
  <2>4. c.made > 0 => ((c.made - 1) * n) \div d + h < c.fed + e
    BY ONLY <1>6, <1>11, <1>13
  <2> QED
    BY <1>15, <2>1, <2>2, <2>3, <2>4 DEF OnGrid
<1>17. Running(c, e)
  <2>1. c.buf \in Nat /\ c.gone \in Nat /\ c.fed \in Nat /\ c.made \in Nat /\ c.pending \in Nat /\ c.emitted \in Nat
    BY ONLY <1>13, <1>14, go \in Nat, keep \in Nat, fe \in Nat, ma \in Nat, k \in Nat, pe \in Nat, em \in Nat
  <2>2. c.emitted + c.pending = c.made
    BY ONLY <1>13, <1>14
  <2> QED
    BY ONLY <1>1, <1>2, <1>13, <1>16, <2>1, <2>2, filtered(r.shape) DEF Running
<1>18. ((c.made * n) \div d) + h >= c.fed + e
  BY ONLY <1>6, <1>11, <1>13
<1> QED
  BY ONLY <1>1, <1>13, <1>17, <1>18, filtered(r.shape) DEF Done

LEMMA Produced ==
    ASSUME NEW r, NEW e \in Nat, Running(r, e), NEW c, c = produce(r)
    PROVE  Done(c, e) /\ c.shape = r.shape /\ c.fed = r.fed
<1>1. HasFields(r)
  BY DEF Running
<1>2. CASE filtered(r.shape)
  <2>1. Done(c, e)
    BY <1>2, ProduceFiltered
  <2>2. c.shape = r.shape /\ c.fed = r.fed
    <3>1. PICK end : end = outputs(r)
      OBVIOUS
    <3>2. PICK keep : c = [r EXCEPT !.pending = @ + end.made, !.made = @ + end.made,
                                    !.pos = [int |-> end.pos.int - keep, frac |-> end.pos.frac],
                                    !.buf = @ - keep, !.gone = @ + keep]
      BY <1>2, <3>1 DEF produce
    <3> QED
      BY <1>1, <3>2 DEF HasFields
  <2> QED
    BY <2>1, <2>2
<1>3. CASE ~filtered(r.shape)
  <2>1. /\ HasFields(c) /\ c.shape = r.shape /\ c.buf = 0
        /\ c.pending = r.pending + r.buf /\ c.fed = r.fed /\ c.made = r.made + r.buf
        /\ c.emitted = r.emitted /\ c.gone = r.gone + r.buf
    BY <1>1, <1>3, PassedFields
  <2>2. /\ r.shape \in Shape /\ r.buf \in Nat /\ r.gone \in Nat /\ r.fed \in Nat /\ r.made \in Nat
        /\ r.pending \in Nat /\ r.emitted \in Nat /\ r.emitted + r.pending = r.made /\ r.made + r.buf = r.fed
    BY <1>3 DEF Running
  <2>3. Running(c, e)
    BY ONLY <1>3, <2>1, <2>2 DEF Running
  <2> QED
    BY ONLY <1>3, <2>1, <2>3 DEF Done
<1> QED
  BY <1>2, <1>3

\* What Done says is about these fields only.
LEMMA DoneFields ==
    ASSUME NEW r, NEW c, NEW e \in Nat, Done(r, e), HasFields(c), c.shape = r.shape, c.buf = r.buf, c.pos = r.pos,
           c.fed = r.fed, c.made = r.made, c.gone = r.gone, c.pending \in Nat, c.emitted \in Nat,
           c.emitted + c.pending = r.emitted + r.pending
    PROVE  Done(c, e)
<1>1. Running(c, e)
  BY DEF Running, Done, OnGrid
<1> QED
  BY <1>1 DEF Done

LEMMA Collected ==
    ASSUME NEW r, NEW e \in Nat, Done(r, e), NEW final \in BOOLEAN, NEW c, c = collect(r, final)
    PROVE  Done(c, e) /\ c.shape = r.shape /\ c.fed = r.fed /\ (FrameSize > 0 => c.pending < FrameSize)
<1>1. HasFields(r) /\ r.pending \in Nat /\ r.emitted \in Nat
  BY DEF Done, Running
<1>2. /\ HasFields(c) /\ c.shape = r.shape /\ c.buf = r.buf /\ c.pos = r.pos
      /\ c.fed = r.fed /\ c.made = r.made /\ c.gone = r.gone
      /\ c.pending \in Nat /\ c.emitted \in Nat /\ c.emitted + c.pending = r.emitted + r.pending
      /\ FrameSize > 0 => c.pending < FrameSize
  BY ONLY <1>1, CollectFields, final \in BOOLEAN, c = collect(r, final)
<1>3. Done(c, e)
  BY ONLY <1>2, DoneFields, Done(r, e), e \in Nat
<1> QED
  BY ONLY <1>2, <1>3

\* More frames, or more silence, leave the stream where it is.
LEMMA Longer ==
    ASSUME NEW r, NEW c, NEW n \in Nat, NEW e \in Nat, NEW t \in Nat, Running(r, e), HasFields(c),
           c.shape = r.shape, c.buf = r.buf + n, c.pos = r.pos, c.pending = r.pending,
           c.made = r.made, c.gone = r.gone, c.emitted = r.emitted, c.fed \in Nat,
           c.fed + t = (r.fed + e) + n, filtered(r.shape) \/ c.fed = r.fed + n
    PROVE  Running(c, t)
<1>1. /\ r.shape \in Shape
      /\ r.buf \in Nat /\ r.gone \in Nat /\ r.fed \in Nat /\ r.made \in Nat
      /\ r.pending \in Nat /\ r.emitted \in Nat /\ r.emitted + r.pending = r.made
      /\ ~filtered(r.shape) => r.made + r.buf = r.fed
  BY DEF Running
<1>2. ASSUME filtered(r.shape)
      PROVE  OnGrid(c, t, stepNum(r.shape), stepDen(r.shape), halfTaps(r.shape))
  <2>1. PICK m \in Nat \ {0}, d \in Nat \ {0}, h \in Nat \ {0} :
           m = stepNum(r.shape) /\ d = stepDen(r.shape) /\ h = halfTaps(r.shape)
    BY <1>1, StepTerms
  <2>2. OnGrid(r, e, m, d, h)
    BY <1>2, <2>1 DEF Running
  <2>3. c.pos \in [int : Nat, frac : Nat] /\ c.pos.frac < d /\ h <= c.pos.int + 1 /\ c.pos.int + 1 <= c.buf + h
    <3>1. r.pos \in [int : Nat, frac : Nat] /\ r.pos.frac < d /\ h <= r.pos.int + 1 /\ r.pos.int + 1 <= r.buf + h
      BY <2>2 DEF OnGrid
    <3>2. PICK i \in Nat, b \in Nat : i = r.pos.int /\ b = r.buf
      BY <1>1, <3>1
    <3>3. i + 1 <= (b + n) + h
      BY ONLY <3>1, <3>2, i \in Nat, b \in Nat, n \in Nat, h \in Nat \ {0}
    <3> QED
      BY ONLY <3>1, <3>2, <3>3, c.pos = r.pos, c.buf = r.buf + n
  <2>4. c.gone + c.buf = (c.fed + t) + h
    <3>1. r.gone + r.buf = (r.fed + e) + h
      BY <2>2 DEF OnGrid
    <3>2. r.gone + (r.buf + n) = ((r.fed + e) + n) + h
      <4>1. PICK go \in Nat, b \in Nat, fe \in Nat : go = r.gone /\ b = r.buf /\ fe = r.fed
        BY <1>1
      <4>2. go + b = (fe + e) + h
        BY ONLY <3>1, <4>1
      <4>3. go + (b + n) = ((fe + e) + n) + h
        BY ONLY <4>2, go \in Nat, b \in Nat, fe \in Nat, n \in Nat, e \in Nat, h \in Nat \ {0}
      <4> QED
        BY ONLY <4>1, <4>3
    <3> QED
      BY ONLY <3>2, c.fed + t = (r.fed + e) + n, c.gone = r.gone, c.buf = r.buf + n
  <2>5. (c.gone + c.pos.int) * d + c.pos.frac = c.made * m + h * d
    BY <2>2 DEF OnGrid
  <2>6. ASSUME c.made > 0 PROVE ((c.made - 1) * m) \div d + h < c.fed + t
    <3>1. ((r.made - 1) * m) \div d + h < r.fed + e
      BY <2>2, <2>6 DEF OnGrid
    <3>2. PICK a \in Nat : a = (r.made - 1) * m
      <4>1. r.made - 1 \in Nat
        BY <1>1, <2>6
      <4>2. (r.made - 1) * m \in Nat
        BY <4>1
      <4> QED
        BY <4>2
    <3>3. PICK q \in Nat : q = a \div d
      BY Quotient
    <3> QED
      BY ONLY <1>1, <3>1, <3>2, <3>3, q \in Nat, h \in Nat \ {0}, n \in Nat, e \in Nat, t \in Nat, c.fed \in Nat,
         c.fed + t = (r.fed + e) + n, c.made = r.made
  <2> QED
    BY ONLY <2>1, <2>3, <2>4, <2>5, <2>6 DEF OnGrid
<1>3. ~filtered(r.shape) => c.made + c.buf = c.fed
  BY <1>1
<1>4. c.buf \in Nat
  BY <1>1
<1> QED
  BY ONLY <1>1, <1>2, <1>3, <1>4, HasFields(c), c.shape = r.shape, c.pending = r.pending,
     c.made = r.made, c.gone = r.gone, c.emitted = r.emitted, c.fed \in Nat DEF Running

LEMMA Configured ==
    ASSUME NEW r, HasFields(r), r.emitted = 0, NEW s \in Shape, NEW c, c = configure(r, s)
    PROVE  Running(c, 0)
<1>1. /\ HasFields(c) /\ c.shape = s /\ c.buf = (IF filtered(s) THEN halfTaps(s) ELSE 0)
      /\ c.pos = [int |-> c.buf, frac |-> 0]
      /\ c.pending = 0 /\ c.fed = 0 /\ c.made = 0 /\ c.gone = 0 /\ c.emitted = 0
  BY ConfigureFields
<1>2. PICK n \in Nat \ {0}, d \in Nat \ {0}, h \in Nat \ {0} : n = stepNum(s) /\ d = stepDen(s) /\ h = halfTaps(s)
  BY StepTerms
<1>3. ASSUME filtered(s) PROVE OnGrid(c, 0, n, d, h)
  <2>1. c.buf = h /\ c.pos = [int |-> h, frac |-> 0]
    BY <1>1, <1>2, <1>3
  <2>2. c.pos \in [int : Nat, frac : Nat] /\ c.pos.int = h /\ c.pos.frac = 0
    BY <2>1
  <2>3. (0 + h) * d + 0 = 0 * n + h * d
    <3>1. h * d \in Nat
      OBVIOUS
    <3> QED
      BY <3>1
  <2>4. (c.gone + c.pos.int) * d + c.pos.frac = c.made * n + h * d
    BY ONLY <1>1, <2>2, <2>3, Zenon
  <2> QED
    BY <1>1, <2>1, <2>2, <2>4 DEF OnGrid
<1>4. c.buf \in Nat
  BY <1>1, <1>2
<1> QED
  BY <1>1, <1>2, <1>3, <1>4 DEF Running

\* A drained stream has given the frames its duration asks for.
Drains(rate, in, out) == out * rate >= in * OutRate /\ (out - 1) * rate < in * OutRate

LEMMA DrainNumbers ==
    ASSUME NEW n \in Nat \ {0}, NEW d \in Nat \ {0}, NEW h \in Nat, NEW g \in Nat \ {0}, NEW in \in Nat, NEW out \in Nat,
           OutRate = d * g, ((out * n) \div d) + h >= in + h,
           out > 0 => ((out - 1) * n) \div d + h < in + h
    PROVE  Drains(n * g, in, out)
<1>1. in * (d * g) = (in * d) * g /\ out * (n * g) = (out * n) * g /\ in * d \in Nat /\ out * n \in Nat
  OBVIOUS
<1>2. out * (n * g) >= in * (d * g)
  <2>1. PICK a \in Nat : a = out * n
    BY <1>1
  <2>2. PICK q \in Nat : q = a \div d
    BY Quotient
  <2>3. a \div d >= in
    BY ONLY <2>1, <2>2, q \in Nat, h \in Nat, in \in Nat, ((out * n) \div d) + h >= in + h
  <2>4. a >= in * d
    BY ONLY <2>3, QuotientReaches, a \in Nat, in \in Nat, d \in Nat \ {0}
  <2>5. (in * d) * g <= a * g
    BY ONLY <1>1, <2>4, ProductGrows, a \in Nat, g \in Nat \ {0}
  <2>6. (in * d) * g \in Nat /\ a * g \in Nat
    BY <1>1
  <2> QED
    BY ONLY <1>1, <2>1, <2>5, <2>6
<1>3. (out - 1) * (n * g) < in * (d * g)
  <2>1. CASE out = 0
    <3>1. PICK p \in Nat \ {0} : p = n * g
      <4>1. n * g \in Nat /\ n * g # 0
        OBVIOUS
      <4> QED
        BY <4>1
    <3>2. (0 - 1) * p = 0 - p
      OBVIOUS
    <3>3. in * (d * g) \in Nat
      OBVIOUS
    <3> QED
      BY ONLY <2>1, <3>1, <3>2, <3>3, p \in Nat \ {0}
  <2>2. CASE out # 0
    <3>1. PICK o \in Nat : o = out - 1
      <4>1. out - 1 \in Nat
        BY <2>2
      <4> QED
        BY <4>1
    <3>2. PICK a \in Nat : a = o * n
      OBVIOUS
    <3>3. PICK q \in Nat : q = a \div d
      BY Quotient
    <3>4. ~(a \div d >= in)
      <4>1. ((out - 1) * n) \div d + h < in + h
        BY <2>2
      <4> QED
        BY ONLY <3>1, <3>2, <3>3, <4>1, q \in Nat, h \in Nat, in \in Nat
    <3>5. ~(a >= in * d)
      BY ONLY <3>4, QuotientReaches, a \in Nat, in \in Nat, d \in Nat \ {0}
    <3>6. ~(in * d <= a)
      BY ONLY <1>1, <3>5, a \in Nat
    <3>7. ~((in * d) * g <= a * g)
      BY ONLY <1>1, <3>6, Cancels, a \in Nat, g \in Nat \ {0}
    <3>8. (in * d) * g \in Nat /\ a * g \in Nat /\ o * (n * g) = (o * n) * g
      BY <1>1
    <3> QED
      BY ONLY <1>1, <3>1, <3>2, <3>7, <3>8
  <2> QED
    BY <2>1, <2>2
<1> QED
  BY ONLY <1>2, <1>3, OutRate = d * g DEF Drains

LEMMA Drained ==
    ASSUME NEW r, Running(r, 0), NEW c, c = drained(r)
    PROVE  HasFields(c) /\ Drains(c.shape.rate, c.fed, c.made)
<1>1. PICK s \in Shape : s = r.shape
  BY DEF Running
<1>2. PICK t \in Nat : t = (IF filtered(s) THEN halfTaps(s) ELSE 0)
  BY StepTerms
<1>3. PICK p : p = [r EXCEPT !.buf = @ + t]
  OBVIOUS
<1>4. HasFields(r) /\ r.fed \in Nat
  BY DEF Running
<1>5. /\ HasFields(p) /\ p.shape = r.shape /\ p.buf = r.buf + t /\ p.pos = r.pos
      /\ p.pending = r.pending /\ p.fed = r.fed /\ p.made = r.made /\ p.gone = r.gone
      /\ p.emitted = r.emitted
  BY ONLY <1>3, <1>4, PadFields
<1>6. Running(p, t)
  <2>1. p.fed \in Nat /\ p.fed + t = (r.fed + 0) + t /\ (filtered(r.shape) \/ p.fed = r.fed + t)
    BY <1>1, <1>2, <1>4, <1>5
  <2>2. 0 \in Nat
    OBVIOUS
  <2> QED
    BY ONLY <1>5, <2>1, <2>2, Longer, Running(r, 0), t \in Nat
<1>7. PICK q : q = produce(p)
  OBVIOUS
<1>8. Done(q, t) /\ q.shape = s /\ q.fed = r.fed
  BY ONLY <1>1, <1>5, <1>6, <1>7, Produced, t \in Nat
<1>9. c = collect(q, TRUE)
  BY <1>1, <1>2, <1>3, <1>7 DEF drained
<1>10. Done(c, t) /\ c.shape = s /\ c.fed = r.fed
  <2>1. TRUE \in BOOLEAN
    OBVIOUS
  <2> QED
    BY ONLY <1>8, <1>9, <2>1, Collected, t \in Nat
<1>11. HasFields(c) /\ c.made \in Nat /\ c.fed \in Nat /\ Running(c, t)
  BY <1>10 DEF Done, Running
<1>12. CASE filtered(s)
  <2>1. PICK n \in Nat \ {0}, d \in Nat \ {0}, h \in Nat, g \in Nat \ {0} :
           /\ n = stepNum(s) /\ d = stepDen(s) /\ h = halfTaps(s) /\ s.rate = n * g /\ OutRate = d * g
    BY StepTerms
  <2>2. PICK in \in Nat, out \in Nat : in = c.fed /\ out = c.made
    BY <1>11
  <2>3. OnGrid(c, t, n, d, h) /\ ((c.made * n) \div d) + h >= c.fed + t /\ t = h
    BY <1>2, <1>10, <1>11, <1>12, <2>1 DEF Running, Done
  <2>4. ((out * n) \div d) + h >= in + h /\ (out > 0 => ((out - 1) * n) \div d + h < in + h)
    BY ONLY <2>2, <2>3 DEF OnGrid
  <2>5. Drains(n * g, in, out)
    BY ONLY <2>1, <2>4, DrainNumbers, n \in Nat \ {0}, d \in Nat \ {0}, h \in Nat, g \in Nat \ {0}, in \in Nat, out \in Nat
  <2> QED
    BY ONLY <1>10, <1>11, <2>1, <2>2, <2>5
<1>13. CASE ~filtered(s)
  <2>1. c.made = c.fed
    BY <1>10, <1>11, <1>13 DEF Running, Done
  <2>2. PICK R \in Nat \ {0} : R = c.shape.rate /\ R = OutRate
    BY <1>10, <1>13, ResamplerAssumption DEF filtered
  <2>3. PICK m \in Nat : m = c.made
    BY <1>11
  <2>4. (m - 1) * R = m * R - R /\ m * R \in Nat
    OBVIOUS
  <2> QED
    BY ONLY <1>11, <2>1, <2>2, <2>3, <2>4, R \in Nat \ {0} DEF Drains
<1> QED
  BY <1>12, <1>13

(***************************************************************************)
(* The invariant: a locked-in stream is Done, a resampler without one is   *)
(* empty, and the last flushed stream was drained.                         *)
(***************************************************************************)
ResamplerInv ==
    /\ shape \in Shape \union {None}
    /\ shape = None => emitted = 0 /\ pending = 0
    /\ shape # None => Done(Fields, 0)
    /\ FrameSize > 0 => pending < FrameSize
    /\ Drains(lastFlush.rate, lastFlush.in, lastFlush.out)

LEMMA FieldsHere ==
    /\ HasFields(Fields) /\ Fields.shape = shape /\ Fields.buf = buf /\ Fields.pos = position
    /\ Fields.pending = pending /\ Fields.emitted = emitted /\ Fields.fed = fed /\ Fields.made = made
    /\ Fields.gone = gone
BY DEF Fields, HasFields

LEMMA ResamplerInvInit == ResamplerInit => ResamplerInv
<1> SUFFICES ASSUME ResamplerInit PROVE ResamplerInv
  OBVIOUS
<1>1. shape = None /\ emitted = 0 /\ pending = 0 /\ lastFlush = [rate |-> OutRate, in |-> 0, out |-> 0]
  BY DEF ResamplerInit
<1>2. Drains(OutRate, 0, 0)
  BY ResamplerAssumption DEF Drains
<1>3. lastFlush.rate = OutRate /\ lastFlush.in = 0 /\ lastFlush.out = 0
  BY <1>1
<1> QED
  BY <1>1, <1>2, <1>3 DEF ResamplerInv

\* After a call: what becomes the state is Done, or reset.
LEMMA BecomesDone ==
    ASSUME NEW c, Done(c, 0), FrameSize > 0 => c.pending < FrameSize, becomes(c),
           Drains(lastFlush.rate, lastFlush.in, lastFlush.out)'
    PROVE  ResamplerInv'
<1>1. /\ HasFields(Fields)' /\ Fields'.shape = c.shape /\ Fields'.buf = c.buf /\ Fields'.pos = c.pos
      /\ Fields'.pending = c.pending /\ Fields'.emitted = c.emitted /\ Fields'.fed = c.fed
      /\ Fields'.made = c.made /\ Fields'.gone = c.gone
  BY DEF becomes, Fields, HasFields
<1>2. c.pending \in Nat /\ c.emitted \in Nat /\ c.shape \in Shape
  BY DEF Done, Running
<1>3. PICK q : q = Fields'
  OBVIOUS
<1>4. HasFields(q) /\ 0 \in Nat
  BY <1>1, <1>3 DEF HasFields
<1>5. Done(q, 0)
  BY ONLY <1>1, <1>2, <1>3, <1>4, DoneFields, Done(c, 0)
<1>6. Done(Fields, 0)'
  BY ONLY <1>3, <1>5 DEF Done, Running, OnGrid, HasFields
<1>7. shape' = c.shape /\ pending' = c.pending
  BY DEF becomes
<1>8. c.shape # None
  BY <1>2, ResamplerAssumption DEF None
<1> QED
  BY <1>2, <1>6, <1>7, <1>8 DEF ResamplerInv

LEMMA BecomesReset ==
    ASSUME NEW r, HasFields(r), becomes(reset(r)), Drains(lastFlush.rate, lastFlush.in, lastFlush.out)'
    PROVE  ResamplerInv'
<1>1. PICK c : c = reset(r)
  OBVIOUS
<1>2. c.shape = None /\ c.emitted = 0 /\ c.pending = 0
  BY <1>1, ResetFields
<1>3. shape' = None /\ emitted' = 0 /\ pending' = 0
  BY <1>1, <1>2 DEF becomes
<1>4. None' = None
  BY DEF None
<1> QED
  BY <1>3, <1>4, ResamplerAssumption DEF ResamplerInv

LEMMA Written ==
    ASSUME ResamplerInv, NEW n \in 1 .. MaxWrite, NEW s \in Shape, ResamplerWrite(n, s)
    PROVE  ResamplerInv'
<1>1. n \in Nat /\ 0 \in Nat
  BY ResamplerAssumption
<1> DEFINE changed == shape # None /\ shape # s
<1> DEFINE old == IF changed THEN drained(Fields) ELSE Fields
<1> DEFINE ready == IF changed \/ shape = None
                    THEN configure(IF changed THEN reset(old) ELSE old, s) ELSE old
<1>2. /\ becomes(collect(produce(feed(ready, n)), FALSE))
      /\ lastFlush' = IF changed THEN flushedStream(old) ELSE lastFlush
  BY DEF ResamplerWrite
<1>3. shape # None => Done(Fields, 0) /\ Running(Fields, 0)
  BY DEF ResamplerInv, Done
<1>4. Running(ready, 0) /\ Drains(lastFlush.rate, lastFlush.in, lastFlush.out)'
  <2>1. CASE changed
    <3>1. HasFields(old) /\ Drains(old.shape.rate, old.fed, old.made)
      BY <1>3, <2>1, Drained
    <3>2. PICK z : z = reset(old)
      OBVIOUS
    <3>3. HasFields(z) /\ z.emitted = 0
      BY ONLY <3>1, <3>2, ResetFields
    <3>4. ready = configure(z, s)
      BY <2>1, <3>2
    <3>5. Running(ready, 0)
      <4> HIDE DEF ready
      <4> QED
        BY ONLY <3>3, <3>4, Configured, s \in Shape
    <3>6. lastFlush' = [rate |-> old.shape.rate, in |-> old.fed, out |-> old.made]
      BY <1>2, <2>1 DEF flushedStream
    <3>7. Drains(lastFlush.rate, lastFlush.in, lastFlush.out)'
      <4> HIDE DEF old
      <4>1. lastFlush'.rate = old.shape.rate /\ lastFlush'.in = old.fed /\ lastFlush'.out = old.made
        BY <3>6
      <4> QED
        BY ONLY <3>1, <4>1 DEF Drains
    <3> QED
      BY ONLY <3>5, <3>7
  <2>2. CASE ~changed
    <3>1. Drains(lastFlush.rate, lastFlush.in, lastFlush.out)'
      <4>1. lastFlush' = lastFlush
        BY <1>2, <2>2
      <4> QED
        BY <4>1 DEF ResamplerInv, Drains
    <3>2. CASE shape = None
      <4>1. ready = configure(Fields, s)
        BY <2>2, <3>2
      <4>2. HasFields(Fields) /\ Fields.emitted = 0
        BY <3>2, FieldsHere DEF ResamplerInv
      <4> HIDE DEF ready
      <4>3. Running(ready, 0)
        BY ONLY <4>1, <4>2, Configured, s \in Shape
      <4> QED
        BY ONLY <3>1, <4>3
    <3>3. CASE shape # None
      <4>1. ready = Fields
        BY <2>2, <3>3
      <4> HIDE DEF ready
      <4> QED
        BY ONLY <1>3, <3>1, <3>3, <4>1
    <3> QED
      BY <3>2, <3>3
  <2> QED
    BY <2>1, <2>2
<1>5. PICK r : r = ready
  OBVIOUS
<1>6. Running(r, 0) /\ becomes(collect(produce(feed(r, n)), FALSE))
  BY ONLY <1>2, <1>4, <1>5
<1>7. PICK p : p = feed(r, n)
  OBVIOUS
<1>8. HasFields(r) /\ r.fed \in Nat
  BY <1>6 DEF Running
<1>9. /\ HasFields(p) /\ p.shape = r.shape /\ p.buf = r.buf + n /\ p.pos = r.pos
      /\ p.pending = r.pending /\ p.fed = r.fed + n /\ p.made = r.made /\ p.gone = r.gone
      /\ p.emitted = r.emitted
  BY ONLY <1>7, <1>8, FeedFields
<1>10. Running(p, 0)
  <2>1. p.fed \in Nat /\ p.fed + 0 = (r.fed + 0) + n /\ (filtered(r.shape) \/ p.fed = r.fed + n)
    BY ONLY <1>1, <1>8, <1>9
  <2>2. Running(r, 0)
    BY <1>6
  <2> QED
    BY ONLY <1>1, <1>9, <2>1, <2>2, Longer
<1>11. PICK q : q = produce(p)
  OBVIOUS
<1>12. Done(q, 0)
  BY ONLY <1>1, <1>10, <1>11, Produced
<1>13. PICK c : c = collect(q, FALSE)
  OBVIOUS
<1>14. Done(c, 0) /\ (FrameSize > 0 => c.pending < FrameSize)
  <2>1. FALSE \in BOOLEAN
    OBVIOUS
  <2> QED
    BY ONLY <1>1, <1>12, <1>13, <2>1, Collected
<1>15. becomes(c)
  BY ONLY <1>6, <1>7, <1>11, <1>13
<1> QED
  BY ONLY <1>4, <1>14, <1>15, BecomesDone

LEMMA ResamplerInvStep == ResamplerInv /\ [ResamplerNext]_resamplerVars => ResamplerInv'
<1> SUFFICES ASSUME ResamplerInv, [ResamplerNext]_resamplerVars PROVE ResamplerInv'
  OBVIOUS
<1>1. ASSUME NEW n \in 1 .. MaxWrite, NEW s \in Shape, ResamplerWrite(n, s) PROVE ResamplerInv'
  BY <1>1, Written
<1>2. CASE ResamplerFlush
  <2>1. shape # None /\ Running(Fields, 0)
    BY <1>2 DEF ResamplerFlush, ResamplerInv, Done
  <2>2. PICK r : r = drained(Fields)
    OBVIOUS
  <2>3. becomes(reset(r)) /\ lastFlush' = flushedStream(r)
    BY <1>2, <2>2 DEF ResamplerFlush
  <2>4. HasFields(r) /\ Drains(r.shape.rate, r.fed, r.made)
    BY ONLY <2>1, <2>2, Drained
  <2>5. lastFlush'.rate = r.shape.rate /\ lastFlush'.in = r.fed /\ lastFlush'.out = r.made
    BY <2>3 DEF flushedStream
  <2>6. Drains(lastFlush.rate, lastFlush.in, lastFlush.out)'
    BY ONLY <2>4, <2>5 DEF Drains
  <2> QED
    BY ONLY <2>3, <2>4, <2>6, BecomesReset
<1>3. CASE ResamplerReset
  <2>1. becomes(reset(Fields)) /\ lastFlush' = lastFlush
    BY <1>3 DEF ResamplerReset
  <2>2. Drains(lastFlush.rate, lastFlush.in, lastFlush.out)'
    BY <2>1 DEF ResamplerInv, Drains
  <2>3. PICK r : r = Fields
    OBVIOUS
  <2>4. HasFields(r) /\ becomes(reset(r))
    BY <2>1, <2>3, FieldsHere
  <2> QED
    BY ONLY <2>2, <2>4, BecomesReset
<1>4. CASE UNCHANGED resamplerVars
  BY <1>4 DEF resamplerVars, ResamplerInv, Drains, Done, Running, OnGrid, HasFields, Fields
<1> QED
  BY <1>1, <1>2, <1>3, <1>4 DEF ResamplerNext

\* ResampledExactly, from the invariant.
LEMMA ResampledExactlyHolds == ResamplerInv => ResampledExactly
<1> SUFFICES ASSUME ResamplerInv PROVE ResampledExactly
  OBVIOUS
<1>1. ASSUME shape # None PROVE Done(Fields, 0)
  BY <1>1 DEF ResamplerInv
<1>2. ASSUME shape # None, filtered(shape),
             NEW n, NEW d, NEW h, n = stepNum(shape), d = stepDen(shape), h = halfTaps(shape)
      PROVE  /\ (gone + position.int - h) * d + position.frac = made * n
             /\ (made * n) \div d + h >= fed
             /\ made > 0 => ((made - 1) * n) \div d + h < fed
             /\ position.int - h + 1 >= 0 /\ buf >= 0 /\ gone + buf = fed + h
  <2>1. Running(Fields, 0) /\ ((made * n) \div d) + h >= fed + 0
    BY <1>1, <1>2, FieldsHere DEF Done
  <2>2. shape \in Shape /\ OnGrid(Fields, 0, n, d, h)
    BY <1>2, <2>1, FieldsHere DEF Running
  <2>3. n \in Nat \ {0} /\ d \in Nat \ {0} /\ h \in Nat \ {0}
    BY <1>2, <2>2, StepTerms
  <2>4. buf \in Nat /\ gone \in Nat /\ fed \in Nat /\ made \in Nat
    BY <2>1, FieldsHere DEF Running
  <2>5. /\ position \in [int : Nat, frac : Nat] /\ h <= position.int + 1
        /\ gone + buf = (fed + 0) + h
        /\ (gone + position.int) * d + position.frac = made * n + h * d
        /\ made > 0 => ((made - 1) * n) \div d + h < fed + 0
    BY <2>2, FieldsHere DEF OnGrid
  <2>6. PICK i \in Nat, x \in Nat : i = position.int /\ x = position.frac
    BY <2>5
  <2>7. (gone + i - h) * d + x = made * n
    <3>1. PICK z \in Int : z = gone + i - h
      <4>1. gone + i - h \in Int
        BY <2>3, <2>4
      <4> QED
        BY <4>1
    <3>2. PICK a \in Nat : a = gone + i
      BY <2>4
    <3>3. z * d = a * d - h * d /\ a * d \in Nat /\ h * d \in Nat /\ made * n \in Nat
      <4>1. z = a - h
        BY <2>3, <2>4, <3>1, <3>2
      <4>2. (a - h) * d = a * d - h * d
        BY <2>3
      <4>3. a * d \in Nat /\ h * d \in Nat /\ made * n \in Nat
        BY <2>3, <2>4
      <4> QED
        BY ONLY <4>1, <4>2, <4>3
    <3>4. a * d + x = made * n + h * d
      BY ONLY <2>5, <2>6, <3>2
    <3>5. z * d + x = made * n
      BY ONLY <3>3, <3>4, x \in Nat
    <3> QED
      BY ONLY <3>1, <3>5
  <2>8. fed + 0 = fed
    BY <2>4
  <2>9. position.int - h + 1 >= 0 /\ buf >= 0
    BY ONLY <2>3, <2>4, <2>5, <2>6, i \in Nat
  <2> QED
    BY ONLY <2>1, <2>5, <2>6, <2>7, <2>8, <2>9
<1>3. ASSUME shape # None, ~filtered(shape) PROVE made = fed /\ buf = 0
  <2>1. Running(Fields, 0) /\ buf = 0
    BY <1>1, <1>3, FieldsHere DEF Done
  <2>2. made \in Nat /\ made + buf = fed
    BY <1>3, <2>1, FieldsHere DEF Running
  <2> QED
    BY <2>1, <2>2
<1>4. ASSUME shape # None PROVE emitted + pending = made
  BY <1>1, <1>4, FieldsHere DEF Done, Running
<1>5. /\ lastFlush.out * lastFlush.rate >= lastFlush.in * OutRate
      /\ (lastFlush.out - 1) * lastFlush.rate < lastFlush.in * OutRate
      /\ FrameSize > 0 => pending < FrameSize
  BY DEF ResamplerInv, Drains
<1> QED
  BY <1>2, <1>3, <1>4, <1>5 DEF ResampledExactly

\* However a stream is cut into writes, the resampler's cursor, its output and
\* its flushed frames are those of one write, for every set of rates and
\* channels and every output rate, kernel and buffer size (Write, Flush, Reset).
THEOREM ResampledExactlyCorrect == ResamplerSpec => []ResampledExactly
BY ResamplerInvInit, ResamplerInvStep, ResampledExactlyHolds, PTL DEF ResamplerSpec
=============================================================================
