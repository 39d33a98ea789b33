----------------------------- MODULE MediaProofs -----------------------------
(***************************************************************************)
(* Proofs about the components that handle media and report on it:         *)
(* RtxProber, NackBuffer, SampleClock, AudioReader and RtcStats, for any   *)
(* widths, sizes, rates and numbers of streams, packets and goroutines.    *)
(***************************************************************************)
EXTENDS NackBuffer, RtxProber, SampleClock, AudioReader, RtcStats, FiniteSetTheorems, SequenceTheorems,
        WellFoundedInduction, TLAPS

(***************************************************************************)
(* RtxProber.                                                              *)
(***************************************************************************)

\* The batches that fit into the probing.
Batches == (Duration + Interval - 1) \div Interval

Probing == [at : {"none", "start", "sleep", "loop", "batch", "tick"}, since : Nat, left : Nat]

ProberTypeOK ==
    /\ proberNow \in Nat
    /\ prober \in [Stream -> Probing]
    /\ ticked \in [Stream -> Nat] /\ probes \in [Stream -> Nat]

\* Nothing is sent before the loop, each tick pays for one batch, and ticks come
\* no faster than the interval.
BatchesPaid(s) ==
    /\ s \notin firstSeen => prober[s].at = "none" /\ probes[s] = 0 /\ ticked[s] = 0
    /\ prober[s].at \in {"start", "sleep"} => probes[s] = 0 /\ ticked[s] = 0
    /\ prober[s].at \in {"loop", "batch", "tick"} =>
         /\ prober[s].since <= proberNow
         /\ ticked[s] <= (proberNow - prober[s].since) \div Interval
    /\ prober[s].at = "loop" => probes[s] <= BatchSize * ticked[s]
    /\ prober[s].at = "batch" => probes[s] + prober[s].left <= BatchSize * (ticked[s] + 1)
    /\ prober[s].at = "tick" => probes[s] <= BatchSize * (ticked[s] + 1)
    /\ prober[s].at \in {"batch", "tick"} => ticked[s] + 1 <= Batches
    /\ probes[s] <= BatchSize * Batches

ProbeInv == ProberTypeOK /\ \A s \in Stream : BatchesPaid(s)

\* A set of numbers that is not empty has a least one.
LEMMA LeastOf ==
    ASSUME NEW T \in SUBSET Nat, T # {}
    PROVE  \E x \in T : \A y \in T : x <= y
<1>1. PICK R : R = OpToRel(<, Nat)
  OBVIOUS
<1>2. IsWellFoundedOn(R, Nat)
  BY <1>1, NatLessThanWellFounded
<1>3. PICK x \in T : \A y \in T : ~(<<y, x>> \in R)
  BY <1>2, WFMin
<1>4. R = {p \in Nat \X Nat : p[1] < p[2]}
  BY <1>1 DEF OpToRel
<1>5. ASSUME NEW y \in T PROVE x <= y
  <2>1. <<y, x>> \notin R /\ <<y, x>> \in Nat \X Nat
    BY <1>3
  <2>2. ~(y < x)
    BY <1>4, <2>1
  <2> QED
    BY <2>2
<1> QED
  BY <1>5

\* What \div is.
LEMMA Quotient ==
    ASSUME NEW a \in Nat, NEW d \in Nat \ {0}
    PROVE  a \div d \in Nat /\ (a \div d) * d <= a /\ a < (a \div d) * d + d
<1>1. a \div d \in Nat
  OBVIOUS
<1>2. (a \div d) * d <= a
  OBVIOUS
<1>3. a < (a \div d) * d + d
  OBVIOUS
<1> QED
  BY <1>1, <1>2, <1>3

LEMMA ProductGrows ==
    ASSUME NEW a \in Nat, NEW b \in Nat, NEW c \in Nat, a <= b
    PROVE  a * c <= b * c /\ c * a <= c * b
<1>1. \E k \in Nat : b = a + k
  <2>1. b - a \in Nat /\ b = a + (b - a)
    OBVIOUS
  <2> QED
    BY <2>1
<1>2. PICK k \in Nat : b = a + k
  BY <1>1
<1>3. b * c = a * c + k * c
  BY <1>2
<1>4. k * c \in Nat /\ a * c \in Nat
  OBVIOUS
<1>5. c * a = a * c /\ c * b = b * c
  OBVIOUS
<1> QED
  BY <1>3, <1>4, <1>5

\* A later batch than this many would start after the deadline.
LEMMA BatchInTime ==
    ASSUME NEW at \in Nat, NEW since \in Nat, NEW k \in Nat, since <= at,
           k <= (at - since) \div Interval, at < since + Duration
    PROVE  k + 1 <= Batches
<1>1. Interval \in Nat \ {0} /\ Duration \in Nat /\ at - since \in Nat
      /\ at - since < Duration /\ Duration + Interval - 1 \in Nat
  BY ProberAssumption
<1> DEFINE q == (at - since) \div Interval
<1>2. q \in Nat /\ q * Interval <= at - since
  BY <1>1, Quotient
<1>3. Batches \in Nat /\ Duration + Interval - 1 < Batches * Interval + Interval
  BY <1>1, Quotient DEF Batches
<1> HIDE DEF q
<1>4. q * Interval < Batches * Interval
  <2>1. q * Interval \in Nat /\ Batches * Interval \in Nat
    BY <1>1, <1>2, <1>3
  <2> QED
    BY <1>1, <1>2, <1>3, <2>1
<1>5. q < Batches
  <2>1. ~(Batches <= q)
    <3> SUFFICES ASSUME Batches <= q PROVE FALSE
      OBVIOUS
    <3>1. Batches * Interval <= q * Interval
      BY <1>1, <1>2, <1>3, ProductGrows
    <3>2. q * Interval \in Nat /\ Batches * Interval \in Nat
      BY <1>1, <1>2, <1>3
    <3> QED
      BY <1>4, <3>1, <3>2
  <2> QED
    BY <1>2, <1>3, <2>1
<1> QED
  BY <1>2, <1>3, <1>5 DEF q

LEMMA ProbeInvInit == ProberInit => ProbeInv
<1> SUFFICES ASSUME ProberInit PROVE ProbeInv
  OBVIOUS
<1>1. BatchSize \in Nat /\ Batches \in Nat
  BY ProberAssumption, Quotient DEF Batches
<1>2. ProberTypeOK
  BY DEF ProberInit, ProberTypeOK, Probing
<1>3. BatchSize * Batches \in Nat
  BY <1>1
<1>4. \A s \in Stream : BatchesPaid(s)
  BY <1>3 DEF ProberInit, BatchesPaid
<1> QED
  BY <1>2, <1>4 DEF ProbeInv

\* A step of one stream leaves the others where they are.
LEMMA StreamStep ==
    ASSUME ProbeInv, NEW s \in Stream, NEW goes \in Probing,
           prober' = [prober EXCEPT ![s] = goes],
           ticked' \in [Stream -> Nat], probes' \in [Stream -> Nat], proberNow' = proberNow,
           \A z \in Stream \ {s} : /\ ticked'[z] = ticked[z] /\ probes'[z] = probes[z]
                                   /\ z \in firstSeen' <=> z \in firstSeen
    PROVE  ProberTypeOK' /\ prober'[s] = goes /\ \A z \in Stream \ {s} : BatchesPaid(z)'
<1>1. ProberTypeOK
  BY DEF ProbeInv
<1>2. ProberTypeOK' /\ prober'[s] = goes
  BY <1>1 DEF ProberTypeOK
<1>3. \A z \in Stream \ {s} : prober'[z] = prober[z]
  BY <1>1 DEF ProberTypeOK
<1>4. \A z \in Stream \ {s} : BatchesPaid(z)'
  BY <1>3 DEF ProbeInv, BatchesPaid
<1> QED
  BY <1>2, <1>4

LEMMA ProbeInvStep == ProbeInv /\ [ProberNext]_proberVars => ProbeInv'
<1> SUFFICES ASSUME ProbeInv, [ProberNext]_proberVars PROVE ProbeInv'
  OBVIOUS
<1>0. /\ proberNow \in Nat /\ prober \in [Stream -> Probing]
      /\ ticked \in [Stream -> Nat] /\ probes \in [Stream -> Nat]
      /\ BatchSize \in Nat /\ Interval \in Nat \ {0} /\ Duration \in Nat /\ Batches \in Nat
  BY ProberAssumption, Quotient DEF ProbeInv, ProberTypeOK, Batches
<1>1. CASE ProberClock
  <2>1. /\ proberNow' = proberNow + 1
        /\ UNCHANGED <<liveStreams, firstSeen, probed, prober, ticked, probes>>
    BY <1>1 DEF ProberClock
  <2>2. ASSUME NEW s \in Stream PROVE BatchesPaid(s)'
    <3>1. BatchesPaid(s) /\ prober[s].since \in Nat /\ ticked[s] \in Nat
      BY <1>0 DEF ProbeInv, Probing
    <3>2. ASSUME prober[s].since <= proberNow,
                 ticked[s] <= (proberNow - prober[s].since) \div Interval
          PROVE  ticked[s] <= (proberNow + 1 - prober[s].since) \div Interval
      <4> DEFINE a == proberNow - prober[s].since
      <4>1. a \in Nat /\ proberNow + 1 - prober[s].since = a + 1
        BY <1>0, <3>1, <3>2
      <4> HIDE DEF a
      <4>2. a \div Interval <= (a + 1) \div Interval
        BY <1>0, <4>1
      <4>3. a \div Interval \in Nat /\ (a + 1) \div Interval \in Nat
        BY <1>0, <4>1, Quotient
      <4> QED
        BY <3>1, <3>2, <4>1, <4>2, <4>3 DEF a
    <3> QED
      BY <1>0, <2>1, <3>1, <3>2 DEF BatchesPaid
  <2>3. ProberTypeOK'
    BY <1>0, <2>1 DEF ProberTypeOK
  <2> QED
    BY <2>2, <2>3 DEF ProbeInv
<1>2. ASSUME NEW s \in Stream, BindProber(s) \/ UnbindProber(s) PROVE ProbeInv'
  <2>1. UNCHANGED <<proberNow, firstSeen, prober, ticked, probes>>
    BY <1>2 DEF BindProber, UnbindProber
  <2> QED
    BY <2>1 DEF ProbeInv, ProberTypeOK, BatchesPaid
<1>3. ASSUME NEW s \in Stream, FirstWrite(s) PROVE ProbeInv'
  <2> DEFINE goes == [at |-> "start", since |-> proberNow, left |-> 0]
  <2>1. /\ s \notin firstSeen /\ firstSeen' = firstSeen \cup {s}
        /\ prober' = [prober EXCEPT ![s] = goes]
        /\ UNCHANGED <<proberNow, ticked, probes>>
    BY <1>3 DEF FirstWrite, ProberGoes
  <2>2. goes \in Probing /\ goes.at = "start"
    BY <1>0 DEF Probing
  <2> HIDE DEF goes
  <2>3. /\ ProberTypeOK' /\ \A z \in Stream \ {s} : BatchesPaid(z)'
        /\ prober'[s] = goes /\ ticked'[s] = ticked[s] /\ probes'[s] = probes[s]
    BY <1>0, <2>1, <2>2, StreamStep
  <2>4. BatchesPaid(s)'
    BY <2>1, <2>2, <2>3 DEF ProbeInv, BatchesPaid
  <2> QED
    BY <2>3, <2>4 DEF ProbeInv
<1>4. ASSUME NEW s \in Stream, probeStream(s) PROVE ProbeInv'
  <2>1. PICK place \in {"none", "sleep"} :
          prober' = [prober EXCEPT ![s] = [at |-> place, since |-> proberNow, left |-> 0]]
    BY <1>4 DEF probeStream, ProberGoes
  <2>2. prober[s].at = "start" /\ UNCHANGED <<proberNow, firstSeen, ticked, probes>>
    BY <1>4 DEF probeStream
  <2> DEFINE goes == [at |-> place, since |-> proberNow, left |-> 0]
  <2>3. goes \in Probing /\ goes.at \in {"none", "sleep"}
    BY <1>0 DEF Probing
  <2> HIDE DEF goes
  <2>4. /\ ProberTypeOK' /\ \A z \in Stream \ {s} : BatchesPaid(z)'
        /\ prober'[s] = goes /\ ticked'[s] = ticked[s] /\ probes'[s] = probes[s]
    BY <1>0, <2>1, <2>2, <2>3, StreamStep DEF goes
  <2>5. BatchesPaid(s)'
    BY <2>2, <2>3, <2>4 DEF ProbeInv, BatchesPaid
  <2> QED
    BY <2>4, <2>5 DEF ProbeInv
<1>5. ASSUME NEW s \in Stream, ProbeDelayOver(s) PROVE ProbeInv'
  <2> DEFINE goes == [at |-> "loop", since |-> proberNow, left |-> 0]
  <2>1. /\ prober[s].at = "sleep" /\ prober' = [prober EXCEPT ![s] = goes]
        /\ UNCHANGED <<proberNow, firstSeen, ticked, probes>>
    BY <1>5 DEF ProbeDelayOver, ProberGoes
  <2>2. goes \in Probing /\ goes.at = "loop" /\ goes.since = proberNow
    BY <1>0 DEF Probing
  <2> HIDE DEF goes
  <2>3. /\ ProberTypeOK' /\ \A z \in Stream \ {s} : BatchesPaid(z)'
        /\ prober'[s] = goes /\ ticked'[s] = ticked[s] /\ probes'[s] = probes[s]
    BY <1>0, <2>1, <2>2, StreamStep
  <2>4. probes[s] = 0 /\ ticked[s] = 0 /\ s \in firstSeen /\ probes[s] <= BatchSize * Batches
    BY <2>1 DEF ProbeInv, BatchesPaid
  <2>5. (proberNow - proberNow) \div Interval \in Nat /\ BatchSize * 0 = 0
    BY <1>0, Quotient
  <2>6. BatchesPaid(s)'
    BY <1>0, <2>1, <2>2, <2>3, <2>4, <2>5 DEF BatchesPaid
  <2> QED
    BY <2>3, <2>6 DEF ProbeInv
<1>6. ASSUME NEW s \in Stream, ProbeLoop(s) PROVE ProbeInv'
  <2>1. prober[s].at = "loop" /\ UNCHANGED <<proberNow, firstSeen, ticked, probes>>
    BY <1>6 DEF ProbeLoop
  <2>2. prober[s].since \in Nat /\ ticked[s] \in Nat /\ probes[s] \in Nat
    BY <1>0 DEF Probing
  <2>3. /\ s \in firstSeen /\ prober[s].since <= proberNow
        /\ ticked[s] <= (proberNow - prober[s].since) \div Interval
        /\ probes[s] <= BatchSize * ticked[s] /\ probes[s] <= BatchSize * Batches
    BY <2>1 DEF ProbeInv, BatchesPaid
  <2>4. CASE beforeDeadline(s)
    <3> DEFINE goes == [at |-> "batch", since |-> prober[s].since, left |-> BatchSize]
    <3>1. prober' = [prober EXCEPT ![s] = goes]
      BY <1>6, <2>4 DEF ProbeLoop, ProberGoes
    <3>2. goes \in Probing /\ goes.at = "batch" /\ goes.since = prober[s].since
          /\ goes.left = BatchSize
      BY <1>0, <2>2 DEF Probing
    <3> HIDE DEF goes
    <3>3. /\ ProberTypeOK' /\ \A z \in Stream \ {s} : BatchesPaid(z)'
          /\ prober'[s] = goes /\ ticked'[s] = ticked[s] /\ probes'[s] = probes[s]
      BY <1>0, <2>1, <3>1, <3>2, StreamStep
    <3>4. ticked[s] + 1 <= Batches
      BY <1>0, <2>2, <2>3, <2>4, BatchInTime DEF beforeDeadline
    <3>5. probes[s] + BatchSize <= BatchSize * (ticked[s] + 1)
      BY <1>0, <2>2, <2>3
    <3>6. BatchesPaid(s)'
      BY <2>1, <2>3, <3>2, <3>3, <3>4, <3>5 DEF BatchesPaid
    <3> QED
      BY <3>3, <3>6 DEF ProbeInv
  <2>5. CASE ~beforeDeadline(s)
    <3> DEFINE goes == [at |-> "none", since |-> 0, left |-> 0]
    <3>1. prober' = [prober EXCEPT ![s] = goes]
      BY <1>6, <2>5 DEF ProbeLoop, ProberGoes
    <3>2. goes \in Probing /\ goes.at = "none"
      BY DEF Probing
    <3> HIDE DEF goes
    <3>3. /\ ProberTypeOK' /\ \A z \in Stream \ {s} : BatchesPaid(z)'
          /\ prober'[s] = goes /\ ticked'[s] = ticked[s] /\ probes'[s] = probes[s]
      BY <1>0, <2>1, <3>1, <3>2, StreamStep
    <3>4. BatchesPaid(s)'
      BY <2>1, <2>3, <3>2, <3>3 DEF BatchesPaid
    <3> QED
      BY <3>3, <3>4 DEF ProbeInv
  <2> QED
    BY <2>4, <2>5
<1>7. ASSUME NEW s \in Stream, sendProbePacket(s) PROVE ProbeInv'
  <2>1. prober[s].at = "batch" /\ UNCHANGED <<proberNow, firstSeen, ticked>>
    BY <1>7 DEF sendProbePacket
  <2>2. prober[s].since \in Nat /\ prober[s].left \in Nat /\ ticked[s] \in Nat /\ probes[s] \in Nat
    BY <1>0 DEF Probing
  <2>3. /\ s \in firstSeen /\ prober[s].since <= proberNow
        /\ ticked[s] <= (proberNow - prober[s].since) \div Interval
        /\ probes[s] + prober[s].left <= BatchSize * (ticked[s] + 1)
        /\ ticked[s] + 1 <= Batches /\ probes[s] <= BatchSize * Batches
    BY <2>1 DEF ProbeInv, BatchesPaid
  <2>4. BatchSize * (ticked[s] + 1) <= BatchSize * Batches
        /\ BatchSize * (ticked[s] + 1) \in Nat /\ BatchSize * Batches \in Nat
    BY <1>0, <2>2, <2>3, ProductGrows
  <2>5. CASE prober[s].left = 0
    <3> DEFINE goes == [at |-> "tick", since |-> prober[s].since, left |-> 0]
    <3>1. prober' = [prober EXCEPT ![s] = goes] /\ UNCHANGED probes
      BY <1>7, <2>5 DEF sendProbePacket, ProberGoes
    <3>2. goes \in Probing /\ goes.at = "tick" /\ goes.since = prober[s].since
      BY <2>2 DEF Probing
    <3> HIDE DEF goes
    <3>3. /\ ProberTypeOK' /\ \A z \in Stream \ {s} : BatchesPaid(z)'
          /\ prober'[s] = goes /\ ticked'[s] = ticked[s] /\ probes'[s] = probes[s]
      BY <1>0, <2>1, <3>1, <3>2, StreamStep
    <3>4. BatchesPaid(s)'
      BY <2>1, <2>2, <2>3, <2>5, <3>2, <3>3 DEF BatchesPaid
    <3> QED
      BY <3>3, <3>4 DEF ProbeInv
  <2>6. CASE prober[s].left # 0 /\ s \in liveStreams
    <3> DEFINE goes == [at |-> "batch", since |-> prober[s].since, left |-> prober[s].left - 1]
    <3>1. prober' = [prober EXCEPT ![s] = goes] /\ probes' = [probes EXCEPT ![s] = probes[s] + 1]
      BY <1>0, <1>7, <2>6 DEF sendProbePacket, ProberGoes
    <3>2. goes \in Probing /\ goes.at = "batch" /\ goes.since = prober[s].since
          /\ goes.left = prober[s].left - 1
      BY <2>2, <2>6 DEF Probing
    <3> HIDE DEF goes
    <3>3. /\ ProberTypeOK' /\ \A z \in Stream \ {s} : BatchesPaid(z)'
          /\ prober'[s] = goes /\ ticked'[s] = ticked[s] /\ probes'[s] = probes[s] + 1
      <4>1. probes[s] + 1 \in Nat
        BY <2>2
      <4> QED
        BY <1>0, <2>1, <3>1, <3>2, <4>1, StreamStep
    <3>4. /\ probes[s] + 1 + (prober[s].left - 1) <= BatchSize * (ticked[s] + 1)
          /\ probes[s] + 1 <= BatchSize * Batches
      BY <2>2, <2>3, <2>4, <2>6
    <3>5. BatchesPaid(s)'
      BY <2>1, <2>3, <3>2, <3>3, <3>4 DEF BatchesPaid
    <3> QED
      BY <3>3, <3>5 DEF ProbeInv
  <2>7. CASE prober[s].left # 0 /\ s \notin liveStreams
    <3> DEFINE goes == [at |-> "none", since |-> 0, left |-> 0]
    <3>1. prober' = [prober EXCEPT ![s] = goes] /\ UNCHANGED probes
      BY <1>7, <2>7 DEF sendProbePacket, ProberGoes
    <3>2. goes \in Probing /\ goes.at = "none"
      BY DEF Probing
    <3> HIDE DEF goes
    <3>3. /\ ProberTypeOK' /\ \A z \in Stream \ {s} : BatchesPaid(z)'
          /\ prober'[s] = goes /\ ticked'[s] = ticked[s] /\ probes'[s] = probes[s]
      BY <1>0, <2>1, <3>1, <3>2, StreamStep
    <3>4. BatchesPaid(s)'
      BY <2>1, <2>3, <3>2, <3>3 DEF BatchesPaid
    <3> QED
      BY <3>3, <3>4 DEF ProbeInv
  <2> QED
    BY <2>5, <2>6, <2>7
<1>8. ASSUME NEW s \in Stream, ProbeTick(s) PROVE ProbeInv'
  <2> DEFINE goes == [at |-> "loop", since |-> prober[s].since, left |-> 0]
  <2> DEFINE produced == (proberNow - prober[s].since) \div Interval
  <2>1. /\ prober[s].at = "tick" /\ produced > ticked[s]
        /\ ticked' = [ticked EXCEPT ![s] = produced]
        /\ prober' = [prober EXCEPT ![s] = goes]
        /\ UNCHANGED <<proberNow, firstSeen, probes>>
    BY <1>8 DEF ProbeTick, ProberGoes
  <2>2. prober[s].since \in Nat /\ ticked[s] \in Nat /\ probes[s] \in Nat
    BY <1>0 DEF Probing
  <2>3. /\ s \in firstSeen /\ prober[s].since <= proberNow
        /\ probes[s] <= BatchSize * (ticked[s] + 1) /\ probes[s] <= BatchSize * Batches
    BY <2>1 DEF ProbeInv, BatchesPaid
  <2>4. produced \in Nat
    BY <1>0, <2>2, <2>3, Quotient
  <2>5. goes \in Probing /\ goes.at = "loop" /\ goes.since = prober[s].since
    BY <2>2 DEF Probing
  <2>6. probes[s] <= BatchSize * produced
    <3> HIDE DEF produced
    <3>1. ticked[s] + 1 <= produced
      BY <2>1, <2>2, <2>4
    <3>2. BatchSize * (ticked[s] + 1) <= BatchSize * produced
      BY <1>0, <2>2, <2>4, <3>1, ProductGrows
    <3>3. BatchSize * (ticked[s] + 1) \in Nat /\ BatchSize * produced \in Nat
      BY <1>0, <2>2, <2>4
    <3> QED
      BY <2>2, <2>3, <3>2, <3>3
  <2> HIDE DEF goes
  <2>7. /\ ProberTypeOK' /\ \A z \in Stream \ {s} : BatchesPaid(z)'
        /\ prober'[s] = goes /\ ticked'[s] = produced /\ probes'[s] = probes[s]
    <3> HIDE DEF produced
    <3> QED
      BY <1>0, <2>1, <2>4, <2>5, StreamStep
  <2>8. BatchesPaid(s)'
    BY <2>1, <2>3, <2>4, <2>5, <2>6, <2>7 DEF BatchesPaid
  <2> QED
    BY <2>7, <2>8 DEF ProbeInv
<1>9. CASE UNCHANGED proberVars
  BY <1>9 DEF proberVars, ProbeInv, ProberTypeOK, BatchesPaid
<1> QED
  BY <1>1, <1>2, <1>3, <1>4, <1>5, <1>6, <1>7, <1>8, <1>9 DEF ProberNext

\* probeStream and sendProbePackets: with any number of streams, any interval and
\* writes of any length, no stream is sent more probes than the batches that fit
\* into the duration.
THEOREM ProbeBudgetCorrect == ProberSpec => []ProbeBudget
<1>1. ProbeInv => ProbeBudget
  BY DEF ProbeInv, BatchesPaid, ProbeBudget, Batches
<1> QED
  BY <1>1, ProbeInvInit, ProbeInvStep, PTL DEF ProberSpec
-----------------------------------------------------------------------------
(***************************************************************************)
(* NackBuffer.                                                             *)
(***************************************************************************)

\* A remainder is the only number in its range at a multiple's distance.
LEMMA RemainderUnique ==
    ASSUME NEW a \in Int, NEW d \in Nat \ {0}, NEW q \in Int, NEW r \in 0 .. d - 1, a = q * d + r
    PROVE  a % d = r
OBVIOUS

LEMMA Remainder ==
    ASSUME NEW a \in Int, NEW d \in Nat \ {0}
    PROVE  (a % d) \in 0 .. d - 1 /\ \E q \in Int : a = q * d + (a % d)
<1>1. (a % d) \in 0 .. d - 1
  OBVIOUS
<1>2. (a \div d) \in Int
  OBVIOUS
<1>3. a = (a \div d) * d + (a % d)
  OBVIOUS
<1> QED
  BY <1>1, <1>2, <1>3, Zenon

Numbers == 2 * uint16SizeHalf

\* The distance of two sequence numbers.
LEMMA SeqDiff ==
    ASSUME NEW a \in SeqNo, NEW b \in SeqNo
    PROVE  /\ seqDiff(a, b) = IF a >= b THEN a - b ELSE a - b + Numbers
           /\ seqDiff(a, b) \in SeqNo
<1>1. Numbers \in Nat \ {0} /\ SeqNo = 0 .. Numbers - 1
  BY NackAssumption DEF Numbers, SeqNo
<1> HIDE DEF Numbers
<1>2. CASE a >= b
  <2>1. a - b \in 0 .. Numbers - 1 /\ a - b = 0 * Numbers + (a - b)
    BY <1>1, <1>2
  <2>2. (a - b) % Numbers = a - b
    BY <1>1, <2>1, RemainderUnique
  <2> QED
    BY <1>1, <1>2, <2>1, <2>2 DEF seqDiff, Numbers
<1>3. CASE ~(a >= b)
  <2>1. a - b + Numbers \in 0 .. Numbers - 1 /\ a - b = (-1) * Numbers + (a - b + Numbers)
    BY <1>1, <1>3
  <2>2. (a - b) % Numbers = a - b + Numbers
    BY <1>1, <2>1, RemainderUnique
  <2> QED
    BY <1>1, <1>3, <2>1, <2>2 DEF seqDiff, Numbers
<1> QED
  BY <1>2, <1>3

\* Numbers a multiple of Size apart share a slot, across the wrap too.
LEMMA SameSlot ==
    ASSUME NEW c \in SeqNo
    PROVE  /\ c % Size \in 0 .. Size - 1
           /\ c + Size < Numbers => (c + Size) % Size = c % Size
           /\ c + Size >= Numbers => (c + Size - Numbers) % Size = c % Size
<1>1. /\ uint16SizeHalf \in Nat \ {0} /\ Size \in Nat \ {0} /\ c \in Nat
      /\ uint16SizeHalf % Size = 0 /\ uint16SizeHalf \in Int /\ c \in Int
  BY NackAssumption DEF SeqNo
<1>2. PICK k \in Int : uint16SizeHalf = k * Size + (uint16SizeHalf % Size)
  BY <1>1, Remainder
<1>3. Numbers = (2 * k) * Size
  BY <1>1, <1>2 DEF Numbers
<1>4. c % Size \in 0 .. Size - 1
  BY <1>1, Remainder
<1>5. PICK q \in Int : c = q * Size + (c % Size)
  BY <1>1, Remainder
<1> DEFINE r == c % Size
<1>0. r \in 0 .. Size - 1 /\ c = q * Size + r
  BY <1>4, <1>5, Zenon
<1> HIDE DEF r
<1>6. (c + Size) % Size = r
  <2> DEFINE t == q + 1
  <2>1. t * Size = q * Size + Size /\ q * Size \in Int /\ t \in Int
    BY <1>1
  <2> HIDE DEF t
  <2>2. c + Size = t * Size + r /\ c + Size \in Int
    BY <1>0, <1>1, <2>1
  <2> QED
    BY <1>0, <1>1, <2>1, <2>2, RemainderUnique
<1>7. (c + Size - Numbers) % Size = r
  <2> DEFINE t == q + 1 - 2 * k
  <2>1. t * Size = q * Size + Size - (2 * k) * Size
    BY <1>1
  <2>2. q * Size \in Int /\ (2 * k) * Size \in Int /\ t \in Int
    BY <1>1
  <2> HIDE DEF t
  <2>3. c + Size - Numbers = t * Size + r /\ c + Size - Numbers \in Int
    BY <1>0, <1>1, <1>3, <2>1, <2>2
  <2> QED
    BY <1>0, <1>1, <2>2, <2>3, RemainderUnique
<1> QED
  BY <1>4, <1>6, <1>7 DEF r

\* Numbers that come into or go out of the window when the highest one advances
\* lose their slot.
LEMMA WindowAdvances ==
    ASSUME NEW s \in SeqNo, NEW c \in SeqNo, highestAdded \in SeqNo,
           s # highestAdded, isNewer(s),
           ~(seqDiff(highestAdded, c) < Size <=> seqDiff(s, c) < Size)
    PROVE  c % Size \in emptied(s)
<1> DEFINE h == highestAdded
<1>0. /\ uint16SizeHalf \in Nat \ {0} /\ Size \in 1 .. uint16SizeHalf
      /\ Numbers = 2 * uint16SizeHalf /\ SeqNo = 0 .. Numbers - 1
      /\ Numbers \in Nat
  BY NackAssumption DEF Numbers, SeqNo
<1>1. /\ seqDiff(s, h) = (IF s >= h THEN s - h ELSE s - h + Numbers)
      /\ seqDiff(h, c) = (IF h >= c THEN h - c ELSE h - c + Numbers)
      /\ seqDiff(s, c) = (IF s >= c THEN s - c ELSE s - c + Numbers)
      /\ seqDiff(c, h) = (IF c >= h THEN c - h ELSE c - h + Numbers)
  BY SeqDiff
<1>2. seqDiff(s, h) < uint16SizeHalf
  BY DEF isNewer
<1>3. ASSUME NEW x \in SeqNo, seqDiff(x, h) \in 1 .. seqDiff(s, h), x % Size = c % Size
      PROVE  c % Size \in emptied(s)
  <2>1. CASE seqDiff(x, h) = seqDiff(s, h)
    <3>0. seqDiff(x, h) = IF x >= h THEN x - h ELSE x - h + Numbers
      BY SeqDiff
    <3>1. x = s
      BY <1>0, <1>1, <2>1, <3>0
    <3> QED
      BY <1>3, <3>1 DEF emptied
  <2>2. CASE seqDiff(x, h) # seqDiff(s, h)
    <3>1. seqDiff(s, h) \in Int
      BY <1>0, <1>1
    <3>2. x \in skipped(s)
      BY <1>3, <2>2, <3>1 DEF skipped
    <3> QED
      BY <1>3, <3>2 DEF emptied
  <2> QED
    BY <2>1, <2>2
<1>4. CASE seqDiff(h, c) < Size /\ ~(seqDiff(s, c) < Size)
  <2> DEFINE x == IF c + Size < Numbers THEN c + Size ELSE c + Size - Numbers
  <2>1. x \in SeqNo
    BY <1>0
  <2>2. x % Size = c % Size
    <3>1. CASE c + Size < Numbers
      BY <3>1, SameSlot
    <3>2. CASE ~(c + Size < Numbers)
      <4>1. c + Size >= Numbers /\ x = c + Size - Numbers
        BY <1>0, <3>2
      <4> QED
        BY <4>1, SameSlot
    <3> QED
      BY <3>1, <3>2
  <2>3. seqDiff(x, h) = IF x >= h THEN x - h ELSE x - h + Numbers
    BY <2>1, SeqDiff
  <2>4. seqDiff(x, h) \in 1 .. seqDiff(s, h)
    BY <1>0, <1>1, <1>2, <1>4, <2>1, <2>3
  <2> QED
    BY <1>3, <2>1, <2>2, <2>4
<1>5. CASE ~(seqDiff(h, c) < Size) /\ seqDiff(s, c) < Size
  <2>1. seqDiff(c, h) \in 1 .. seqDiff(s, h)
    BY <1>0, <1>1, <1>2, <1>5
  <2> QED
    BY <1>3, <2>1
<1> QED
  BY <1>4, <1>5

Kept == [count : Nat, seq : SeqNo, resends : 0 .. MaxRetries]

\* A packet not yet added is its writer's alone.
FreshUnheld == fresh # NoPacket => Holders(fresh) = {} /\ packet[fresh].count = 1

\* A packet is in the slot of its sequence number, and so in no other.
SlotsBySeq ==
    \A i \in 0 .. Size - 1 : slots[i] # NoPacket => packet[slots[i]].seq % Size = i

\* Whoever resends has the packet of the number it was asked for.
ResendsKnown ==
    \A r \in Resender :
        IF resending[r].pkt = NoPacket THEN resending[r] = Idle
        ELSE packet[resending[r].pkt].seq = resending[r].seq

\* Of the numbers in the window those are current whose packet is in their slot.
WindowKept ==
    /\ ~started => \A i \in 0 .. Size - 1 : slots[i] = NoPacket
    /\ started => \A c \in SeqNo :
         c \in current <=> /\ seqDiff(highestAdded, c) < Size /\ slots[c % Size] # NoPacket
                           /\ packet[slots[c % Size]].seq = c

NackInv ==
    /\ NackTypeOK /\ FreshUnheld /\ SlotsBySeq /\ ResendsKnown
    /\ CountsMatchHolders /\ WindowKept

LEMMA NackConstants ==
    /\ uint16SizeHalf \in Nat \ {0} /\ Size \in Nat \ {0} /\ Size <= uint16SizeHalf
    /\ MaxRetries \in Nat /\ NoPacket \notin Packet
    /\ IsFiniteSet(Resender) /\ Resender \cap (0 .. Size - 1) = {}
    /\ 0 \in SeqNo /\ \A s \in SeqNo : s \in Nat /\ s % Size \in 0 .. Size - 1
    /\ Free \in Kept /\ Free.count = 0 /\ Idle.pkt = NoPacket
<1>1. /\ uint16SizeHalf \in Nat \ {0} /\ Size \in Nat \ {0} /\ Size <= uint16SizeHalf
      /\ MaxRetries \in Nat /\ NoPacket \notin Packet
      /\ IsFiniteSet(Resender) /\ Resender \cap (0 .. Size - 1) = {}
  BY NackAssumption
<1>2. 0 \in SeqNo /\ \A s \in SeqNo : s \in Nat
  BY <1>1 DEF SeqNo
<1>3. \A s \in SeqNo : s % Size \in 0 .. Size - 1
  BY SameSlot
<1>4. Free \in Kept /\ Free.count = 0
  BY <1>1, <1>2 DEF Free, Kept
<1>5. Idle.pkt = NoPacket
  BY DEF Idle
<1> QED
  BY <1>1, <1>2, <1>3, <1>4, <1>5

LEMMA HoldersFinite == \A p : IsFiniteSet(Holders(p))
<1> TAKE p
<1>1. IsFiniteSet(0 .. Size - 1)
  BY NackConstants, FS_Interval
<1>2. IsFiniteSet((0 .. Size - 1) \cup Resender)
  BY <1>1, NackConstants, FS_Union
<1>3. Holders(p) \in SUBSET ((0 .. Size - 1) \cup Resender)
  BY DEF Holders
<1> QED
  BY <1>2, <1>3, FS_Subset

\* What is in use is not free, and its count is positive.
LEMMA HeldCounts ==
    ASSUME NackInv, NEW p \in Packet, Holders(p) # {}
    PROVE  packet[p].count \in Nat \ {0} /\ packet[p] # Free
<1>1. packet[p].count = Cardinality(Holders(p))
  BY DEF NackInv, CountsMatchHolders
<1>2. Cardinality(Holders(p)) \in Nat \ {0}
  BY HoldersFinite, FS_CardinalityType, FS_EmptySet
<1> QED
  BY <1>1, <1>2, NackConstants

\* Release by one of the holders.
letGo(c) == IF c.count = 1 THEN Free ELSE [c EXCEPT !.count = @ - 1]

LEMMA LetGo ==
    ASSUME NackInv, NEW p \in Packet, NEW x \in Holders(p)
    PROVE  /\ letGo(packet[p]) \in Kept
           /\ Holders(p) \ {x} # {} => /\ letGo(packet[p]).count = Cardinality(Holders(p) \ {x})
                                       /\ letGo(packet[p]).seq = packet[p].seq
<1> DEFINE H == Holders(p)
<1> DEFINE c == packet[p]
<1>0. IsFiniteSet(H) /\ x \in H /\ c \in Kept /\ c.count = Cardinality(H)
  BY HoldersFinite DEF NackInv, NackTypeOK, CountsMatchHolders, Kept
<1> SUFFICES /\ letGo(c) \in Kept
             /\ H \ {x} # {} => letGo(c).count = Cardinality(H \ {x}) /\ letGo(c).seq = c.seq
  OBVIOUS
<1> HIDE DEF H, c
<1>1. /\ Cardinality(H) \in Nat \ {0} /\ IsFiniteSet(H \ {x})
      /\ Cardinality(H \ {x}) = Cardinality(H) - 1
      /\ Cardinality(H \ {x}) = 0 <=> H \ {x} = {}
  BY <1>0, FS_CardinalityType, FS_EmptySet, FS_RemoveElement
<1>2. CASE c.count = 1
  BY <1>0, <1>1, <1>2, NackConstants DEF letGo
<1>3. CASE c.count # 1
  <2>1. /\ letGo(c) = [c EXCEPT !.count = @ - 1] /\ c.count \in Nat \ {0, 1}
    BY <1>0, <1>1, <1>3 DEF letGo
  <2>2. letGo(c) \in Kept /\ letGo(c).count = c.count - 1 /\ letGo(c).seq = c.seq
    BY <1>0, <2>1 DEF Kept
  <2> QED
    BY <1>0, <1>1, <2>2
<1> QED
  BY <1>2, <1>3

\* The conjuncts about packets survive a step that changes no slot and no resender,
\* if the packets in use and the fresh one keep their counts and sequence numbers.
LEMMA PacketsKept ==
    ASSUME NackInv, UNCHANGED <<ringVars, resending>>,
           packet' \in [Packet -> Kept], fresh' \in Packet \cup {NoPacket},
           \A p \in Packet : Holders(p) # {} =>
               packet'[p].count = packet[p].count /\ packet'[p].seq = packet[p].seq,
           fresh' # NoPacket => Holders(fresh') = {} /\ packet'[fresh'].count = 1,
           bound' \in BOOLEAN
    PROVE  NackInv'
<1>1. UNCHANGED <<slots, highestAdded, started, current, resending>>
  BY DEF ringVars
<1>2. /\ slots \in [0 .. Size - 1 -> Packet \cup {NoPacket}]
      /\ resending \in [Resender -> [pkt : Packet \cup {NoPacket}, seq : SeqNo]]
  BY DEF NackInv, NackTypeOK
<1>3. \A p : Holders(p)' = Holders(p)
  BY <1>1 DEF Holders
<1>4. \A i \in 0 .. Size - 1 : slots[i] # NoPacket =>
          slots[i] \in Packet /\ Holders(slots[i]) # {}
  BY <1>2 DEF Holders
<1>5. \A r \in Resender : resending[r].pkt # NoPacket =>
          resending[r].pkt \in Packet /\ Holders(resending[r].pkt) # {}
  BY <1>2 DEF Holders
<1>6. NackTypeOK'
  <2>1. started' \in BOOLEAN
    BY <1>1 DEF NackInv, NackTypeOK
  <2> QED
    BY <1>1, <2>1 DEF NackInv, NackTypeOK, Kept
<1>7. FreshUnheld'
  BY <1>3 DEF FreshUnheld
<1>8. SlotsBySeq'
  BY <1>1, <1>4 DEF NackInv, SlotsBySeq
<1>9. ResendsKnown'
  BY <1>1, <1>5 DEF NackInv, ResendsKnown
<1>10. CountsMatchHolders'
  BY <1>3 DEF NackInv, CountsMatchHolders
<1>11. WindowKept'
  BY <1>1, <1>4, NackConstants DEF NackInv, WindowKept
<1> QED
  BY <1>6, <1>7, <1>8, <1>9, <1>10, <1>11 DEF NackInv

LEMMA NackInvInit == NackInit => NackInv
<1> SUFFICES ASSUME NackInit PROVE NackInv
  OBVIOUS
<1>1. NackTypeOK
  <2>1. bound \in BOOLEAN /\ started \in BOOLEAN
    BY DEF NackInit
  <2>2. Idle \in [pkt : Packet \cup {NoPacket}, seq : SeqNo]
    BY NackConstants DEF Idle
  <2> QED
    BY <2>1, <2>2, NackConstants DEF NackInit, NackTypeOK, Kept
<1>2. \A p \in Packet : Holders(p) = {}
  BY NackConstants DEF NackInit, Holders
<1>3. FreshUnheld /\ SlotsBySeq /\ WindowKept
  BY DEF NackInit, FreshUnheld, SlotsBySeq, WindowKept
<1>4. ResendsKnown /\ CountsMatchHolders
  BY <1>2, NackConstants DEF NackInit, ResendsKnown, CountsMatchHolders
<1> QED
  BY <1>1, <1>3, <1>4 DEF NackInv

LEMMA NewPacketKeeps ==
    ASSUME NackInv, NEW s \in SeqNo, NewPacket(s)
    PROVE  NackInv'
<1> DEFINE p == CHOOSE q \in Packet : packet[q] = Free
<1>1. p \in Packet /\ packet[p] = Free
  BY DEF NewPacket
<1>2. /\ packet' = [packet EXCEPT ![p] = [Free EXCEPT !.count = 1, !.seq = s]]
      /\ fresh' = p /\ UNCHANGED <<bound, ringVars, resending>>
  BY DEF NewPacket
<1> HIDE DEF p
<1>3. packet \in [Packet -> Kept] /\ bound' \in BOOLEAN
  BY <1>2 DEF NackInv, NackTypeOK, Kept
<1> DEFINE made == [Free EXCEPT !.count = 1, !.seq = s]
<1>4. made \in Kept /\ made.count = 1
  BY NackConstants DEF Kept
<1> HIDE DEF made
<1>5. Holders(p) = {}
  BY <1>1, HeldCounts
<1>6. packet' \in [Packet -> Kept] /\ packet'[p] = made
      /\ \A q \in Packet \ {p} : packet'[q] = packet[q]
  BY <1>1, <1>2, <1>3, <1>4 DEF made
<1> QED
  BY <1>1, <1>2, <1>3, <1>4, <1>5, <1>6, PacketsKept

LEMMA CollectKeeps ==
    ASSUME NackInv, NEW p \in Packet, Collect(p)
    PROVE  NackInv'
<1>1. /\ fresh # p /\ Holders(p) = {} /\ packet' = [packet EXCEPT ![p] = Free]
      /\ UNCHANGED <<bound, ringVars, fresh, resending>>
  BY DEF Collect
<1>2. packet \in [Packet -> Kept] /\ bound' \in BOOLEAN /\ fresh \in Packet \cup {NoPacket}
  BY <1>1 DEF NackInv, NackTypeOK, Kept
<1>3. packet' \in [Packet -> Kept] /\ \A q \in Packet \ {p} : packet'[q] = packet[q]
  BY <1>1, <1>2, NackConstants
<1>4. fresh # NoPacket => Holders(fresh) = {} /\ packet'[fresh].count = 1
  BY <1>1, <1>2, <1>3 DEF NackInv, FreshUnheld
<1> QED
  BY <1>1, <1>2, <1>3, <1>4, PacketsKept

LEMMA UnbindKeeps ==
    ASSUME NackInv, UnbindLocalStream
    PROVE  NackInv'
<1>1. bound' \in BOOLEAN /\ UNCHANGED <<ringVars, packet, fresh, resending>>
  BY DEF UnbindLocalStream
<1>2. packet' \in [Packet -> Kept] /\ fresh' \in Packet \cup {NoPacket}
  BY <1>1 DEF NackInv, NackTypeOK, Kept
<1>3. fresh' # NoPacket => Holders(fresh') = {} /\ packet'[fresh'].count = 1
  BY <1>1 DEF NackInv, FreshUnheld
<1>4. packet' = packet /\ UNCHANGED <<ringVars, resending>>
  BY <1>1
<1> QED
  BY <1>1, <1>2, <1>3, <1>4, PacketsKept

\* A resender takes hold of a packet that is in its slot, or lets go of it.
LEMMA ResenderStep ==
    ASSUME NackInv, NEW r \in Resender, NEW p \in Packet, Holders(p) # {},
           NEW pkt \in Kept, NEW task \in [pkt : Packet \cup {NoPacket}, seq : SeqNo],
           packet' = [packet EXCEPT ![p] = pkt],
           resending' = [resending EXCEPT ![r] = task],
           UNCHANGED <<bound, ringVars, fresh>>,
           Holders(p)' # {} => pkt.count = Cardinality(Holders(p)') /\ pkt.seq = packet[p].seq,
           IF task.pkt = NoPacket THEN task = Idle ELSE task.pkt = p /\ pkt.seq = task.seq,
           resending[r].pkt \in {NoPacket, p}
    PROVE  NackInv'
<1>1. UNCHANGED <<bound, slots, highestAdded, started, current, fresh>>
  BY DEF ringVars
<1>2. /\ packet \in [Packet -> Kept] /\ fresh \in Packet \cup {NoPacket}
      /\ slots \in [0 .. Size - 1 -> Packet \cup {NoPacket}]
      /\ resending \in [Resender -> [pkt : Packet \cup {NoPacket}, seq : SeqNo]]
  BY DEF NackInv, NackTypeOK, Kept
<1>3. /\ packet' \in [Packet -> Kept] /\ packet'[p] = pkt
      /\ \A q \in Packet \ {p} : packet'[q] = packet[q]
  BY <1>2
<1>4. /\ resending' \in [Resender -> [pkt : Packet \cup {NoPacket}, seq : SeqNo]]
      /\ resending'[r] = task /\ \A z \in Resender \ {r} : resending'[z] = resending[z]
  BY <1>2
<1>5. ASSUME NEW q \in Packet \ {p} PROVE Holders(q)' = Holders(q)
  <2>1. \A z \in Resender : resending'[z].pkt = q <=> resending[z].pkt = q
    BY <1>4, NackConstants
  <2> QED
    BY <1>1, <2>1 DEF Holders
<1>6. NackTypeOK'
  <2>1. bound' \in BOOLEAN /\ started' \in BOOLEAN
    BY <1>1 DEF NackInv, NackTypeOK
  <2> QED
    BY <1>1, <1>3, <1>4, <2>1 DEF NackInv, NackTypeOK, Kept
<1>7. FreshUnheld'
  <2>1. fresh # p
    BY NackConstants DEF NackInv, FreshUnheld
  <2> QED
    BY <1>1, <1>2, <1>3, <1>5, <2>1 DEF NackInv, FreshUnheld
<1>8. \A i \in 0 .. Size - 1 : slots[i] # NoPacket => packet'[slots[i]].seq = packet[slots[i]].seq
  <2> SUFFICES ASSUME NEW i \in 0 .. Size - 1, slots[i] # NoPacket
               PROVE  packet'[slots[i]].seq = packet[slots[i]].seq
    OBVIOUS
  <2>1. CASE slots[i] = p
    <3>1. i \in Holders(p)'
      BY <1>1, <2>1 DEF Holders
    <3> QED
      BY <1>3, <2>1, <3>1
  <2>2. CASE slots[i] # p
    BY <1>2, <1>3, <2>2
  <2> QED
    BY <2>1, <2>2
<1>9. SlotsBySeq'
  BY <1>1, <1>8 DEF NackInv, SlotsBySeq
<1>10. ResendsKnown'
  <2> SUFFICES ASSUME NEW z \in Resender
               PROVE  IF resending'[z].pkt = NoPacket THEN resending'[z] = Idle
                      ELSE packet'[resending'[z].pkt].seq = resending'[z].seq
    BY DEF ResendsKnown
  <2>1. CASE z = r
    BY <1>3, <1>4, <2>1
  <2>2. CASE z # r /\ resending[z].pkt = p
    <3>1. z \in Holders(p)'
      BY <1>4, <2>2 DEF Holders
    <3> QED
      BY <1>3, <1>4, <2>2, <3>1, NackConstants DEF NackInv, ResendsKnown
  <2>3. CASE z # r /\ resending[z].pkt # p
    BY <1>2, <1>3, <1>4, <2>3 DEF NackInv, ResendsKnown
  <2> QED
    BY <2>1, <2>2, <2>3
<1>11. CountsMatchHolders'
  BY <1>3, <1>5 DEF NackInv, CountsMatchHolders
<1>12. WindowKept'
  BY <1>1, <1>8, NackConstants DEF NackInv, WindowKept
<1> QED
  BY <1>6, <1>7, <1>9, <1>10, <1>11, <1>12 DEF NackInv

LEMMA resendPacketsKeeps ==
    ASSUME NackInv, NEW r \in Resender, NEW s \in SeqNo, resendPackets(r, s)
    PROVE  NackInv'
<1>1. /\ resending[r] = Idle /\ Get(s) # NoPacket /\ mayResend(Get(s))
      /\ packet' = [packet EXCEPT ![Get(s)] = retained(@)]
      /\ resending' = [resending EXCEPT ![r] = [pkt |-> Get(s), seq |-> s]]
      /\ UNCHANGED <<bound, ringVars, fresh>>
  BY DEF resendPackets
<1>2. /\ packet \in [Packet -> Kept] /\ slots \in [0 .. Size - 1 -> Packet \cup {NoPacket}]
      /\ resending \in [Resender -> [pkt : Packet \cup {NoPacket}, seq : SeqNo]]
  BY DEF NackInv, NackTypeOK, Kept
<1>3. s % Size \in 0 .. Size - 1
  BY NackConstants
<1>4. PICK p \in Packet : p = Get(s) /\ p = slots[s % Size] /\ packet[p].seq = s
  BY <1>1, <1>2, <1>3 DEF Get
<1>5. s % Size \in Holders(p)
  BY <1>3, <1>4 DEF Holders
<1> DEFINE task == [pkt |-> p, seq |-> s]
<1> DEFINE pkt == retained(packet[p])
<1>6. task \in [pkt : Packet \cup {NoPacket}, seq : SeqNo] /\ task.pkt = p /\ task.seq = s
      /\ resending' = [resending EXCEPT ![r] = task]
  BY <1>1, <1>4
<1>7. packet' = [packet EXCEPT ![p] = pkt]
  BY <1>1, <1>2, <1>4
<1>8. pkt \in Kept /\ pkt.count = packet[p].count + 1 /\ pkt.seq = s
  <2>1. packet[p] \in Kept /\ packet[p].seq = s
    BY <1>2, <1>4
  <2>2. PICK n \in 0 .. MaxRetries : pkt = [packet[p] EXCEPT !.count = @ + 1, !.resends = n]
    <3>1. CASE MaxRetries = 0
      BY <3>1, NackConstants DEF retained
    <3>2. CASE MaxRetries # 0
      <4>1. packet[p].resends + 1 \in 0 .. MaxRetries
        BY <1>1, <1>4, <2>1, <3>2, NackConstants DEF mayResend, Kept
      <4>2. pkt = [packet[p] EXCEPT !.count = @ + 1, !.resends = packet[p].resends + 1]
        BY <3>2 DEF retained
      <4> QED
        BY <4>1, <4>2
    <3> QED
      BY <3>1, <3>2
  <2> DEFINE c == packet[p]
  <2>3. c \in [count : Nat, seq : SeqNo, resends : 0 .. MaxRetries]
        /\ pkt = [c EXCEPT !.count = @ + 1, !.resends = n]
    BY <2>1, <2>2 DEF Kept
  <2>4. c.seq = s
    BY <2>1
  <2> HIDE DEF pkt, c
  <2>5. pkt \in [count : Nat, seq : SeqNo, resends : 0 .. MaxRetries]
    <3>1. n \in 0 .. MaxRetries /\ c.count + 1 \in Nat
      BY <2>3
    <3>2. pkt = [count |-> c.count + 1, seq |-> c.seq, resends |-> n]
      BY <2>3
    <3>3. c.seq \in SeqNo
      BY <2>3
    <3> QED
      BY <3>1, <3>2, <3>3
  <2>6. pkt.count = c.count + 1 /\ pkt.seq = s
    BY <2>3, <2>4
  <2> QED
    BY <2>5, <2>6 DEF Kept, c
<1> HIDE DEF pkt, task
<1>9. Holders(p)' = Holders(p) \cup {r} /\ r \notin Holders(p)
  <2>1. slots' = slots /\ resending'[r] = task
        /\ \A z \in Resender \ {r} : resending'[z] = resending[z]
    BY <1>1, <1>2, <1>6 DEF ringVars
  <2>2. r \notin 0 .. Size - 1 /\ resending[r].pkt # p
    BY <1>1, <1>4, NackConstants
  <2>3. {z \in Resender : resending'[z].pkt = p} = {z \in Resender : resending[z].pkt = p} \cup {r}
    BY <1>6, <2>1, <2>2
  <2> QED
    BY <2>1, <2>2, <2>3 DEF Holders
<1>10. pkt.count = Cardinality(Holders(p)')
  <2>1. IsFiniteSet(Holders(p))
    BY HoldersFinite
  <2>2. Cardinality(Holders(p) \cup {r}) = Cardinality(Holders(p)) + 1
    BY <1>9, <2>1, FS_AddElement
  <2>3. packet[p].count = Cardinality(Holders(p))
    BY <1>4, <1>5 DEF NackInv, CountsMatchHolders
  <2> QED
    BY <1>8, <1>9, <2>2, <2>3
<1>11. resending[r].pkt = NoPacket
  BY <1>1, NackConstants
<1>12. IF task.pkt = NoPacket THEN task = Idle ELSE task.pkt = p /\ pkt.seq = task.seq
  BY <1>4, <1>6, <1>8, NackConstants
<1>13. Holders(p)' # {} => pkt.count = Cardinality(Holders(p)') /\ pkt.seq = packet[p].seq
  BY <1>4, <1>8, <1>10
<1>14. UNCHANGED <<bound, ringVars, fresh>>
       /\ resending[r].pkt \in {NoPacket, p} /\ Holders(p) # {}
  BY <1>1, <1>5, <1>11
<1> QED
  BY <1>6, <1>7, <1>8, <1>12, <1>13, <1>14, ResenderStep

LEMMA ResendDoneKeeps ==
    ASSUME NackInv, NEW r \in Resender, ResendDone(r)
    PROVE  NackInv'
<1>1. /\ resending[r] # Idle /\ Release({resending[r].pkt})
      /\ resending' = [resending EXCEPT ![r] = Idle] /\ UNCHANGED <<bound, ringVars, fresh>>
  BY DEF ResendDone
<1>2. /\ packet \in [Packet -> Kept]
      /\ resending \in [Resender -> [pkt : Packet \cup {NoPacket}, seq : SeqNo]]
  BY DEF NackInv, NackTypeOK, Kept
<1>3. PICK p \in Packet : p = resending[r].pkt
  BY <1>1, <1>2 DEF NackInv, ResendsKnown
<1>4. r \in Holders(p)
  BY <1>3 DEF Holders
<1> DEFINE pkt == letGo(packet[p])
<1>5. packet' = [packet EXCEPT ![p] = pkt]
  BY <1>1, <1>2, <1>3 DEF Release, letGo
<1>6. Holders(p)' = Holders(p) \ {r}
  <2>1. slots' = slots /\ resending'[r].pkt = NoPacket
        /\ \A z \in Resender \ {r} : resending'[z] = resending[z]
    BY <1>1, <1>2, NackConstants DEF ringVars
  <2>2. r \notin 0 .. Size - 1 /\ p # NoPacket
    BY <1>3, NackConstants
  <2>3. {z \in Resender : resending'[z].pkt = p} = {z \in Resender : resending[z].pkt = p} \ {r}
    BY <1>3, <2>1, <2>2
  <2> QED
    BY <2>1, <2>2, <2>3 DEF Holders
<1>7. /\ pkt \in Kept
      /\ Holders(p)' # {} => pkt.count = Cardinality(Holders(p)') /\ pkt.seq = packet[p].seq
  BY <1>4, <1>6, LetGo
<1>8. Idle \in [pkt : Packet \cup {NoPacket}, seq : SeqNo] /\ Idle.pkt = NoPacket
  BY NackConstants DEF Idle
<1> HIDE DEF pkt
<1>9. IF Idle.pkt = NoPacket THEN Idle = Idle ELSE Idle.pkt = p /\ pkt.seq = Idle.seq
  BY <1>8
<1>10. UNCHANGED <<bound, ringVars, fresh>> /\ resending' = [resending EXCEPT ![r] = Idle]
       /\ resending[r].pkt \in {NoPacket, p} /\ Holders(p) # {}
  BY <1>1, <1>3, <1>4
<1> QED
  BY <1>5, <1>7, <1>8, <1>9, <1>10, ResenderStep

\* Add puts the fresh packet f into its slot and empties the slots E.
LEMMA Stored ==
    ASSUME NackInv, NEW f \in Packet, f = fresh, NEW s \in SeqNo, s = packet[f].seq,
           NEW E \in SUBSET (0 .. Size - 1), s % Size \in E,
           slots' = [i \in 0 .. Size - 1 |->
                        IF i = s % Size THEN f ELSE IF i \in E THEN NoPacket ELSE slots[i]],
           packet' = [p \in Packet |->
                        IF p \notin {slots[i] : i \in E} THEN packet[p] ELSE letGo(packet[p])],
           fresh' = NoPacket, UNCHANGED <<bound, resending>>, started' = TRUE,
           highestAdded' \in SeqNo, current' \subseteq SeqNo
    PROVE  /\ NackTypeOK' /\ FreshUnheld' /\ SlotsBySeq' /\ ResendsKnown' /\ CountsMatchHolders'
           /\ packet'[f].seq = s
           /\ \A i \in (0 .. Size - 1) \ E : slots[i] # NoPacket =>
                  packet'[slots[i]].seq = packet[slots[i]].seq
<1>1. /\ packet \in [Packet -> Kept] /\ slots \in [0 .. Size - 1 -> Packet \cup {NoPacket}]
      /\ resending \in [Resender -> [pkt : Packet \cup {NoPacket}, seq : SeqNo]]
  BY DEF NackInv, NackTypeOK, Kept
<1>2. /\ Holders(f) = {} /\ packet[f].count = 1 /\ f # NoPacket
  BY NackConstants DEF NackInv, FreshUnheld
<1>3. \A i, j \in 0 .. Size - 1 : slots[i] = slots[j] /\ slots[i] # NoPacket => i = j
  BY DEF NackInv, SlotsBySeq
<1>4. (\A i \in 0 .. Size - 1 : slots[i] # f) /\ \A r \in Resender : resending[r].pkt # f
  BY <1>2 DEF Holders
<1>5. packet'[f] = packet[f]
  BY <1>4
<1>6. Holders(f)' = {s % Size}
  <2>1. \A i \in 0 .. Size - 1 : slots'[i] = f <=> i = s % Size
    BY <1>2, <1>4
  <2> QED
    BY <1>4, <2>1 DEF Holders
<1>7. ASSUME NEW p \in Packet \ {f}, NEW i \in E, slots[i] = p
      PROVE  /\ packet'[p] \in Kept
             /\ Holders(p)' # {} => /\ packet'[p].count = Cardinality(Holders(p)')
                                    /\ packet'[p].seq = packet[p].seq
  <2>1. p # NoPacket /\ i \in Holders(p)
    BY <1>7, NackConstants DEF Holders
  <2>2. \A j \in 0 .. Size - 1 : slots'[j] = p <=> j # i /\ slots[j] = p
    BY <1>3, <1>7, <2>1
  <2>3. i \notin Resender
    BY NackConstants
  <2>4. Holders(p)' = Holders(p) \ {i}
    BY <2>2, <2>3 DEF Holders
  <2>5. packet'[p] = letGo(packet[p])
    BY <1>7
  <2> QED
    BY <2>1, <2>4, <2>5, LetGo, ZenonT(60)
<1>8. ASSUME NEW p \in Packet \ {f}, \A i \in E : slots[i] # p
      PROVE  packet'[p] = packet[p] /\ Holders(p)' = Holders(p)
  <2>1. \A j \in 0 .. Size - 1 : slots'[j] = p <=> slots[j] = p
    BY <1>8, NackConstants
  <2> QED
    BY <1>8, <2>1 DEF Holders
<1>9. packet' \in [Packet -> Kept]
  <2>1. \A p \in Packet : packet'[p] \in Kept
    BY <1>1, <1>5, <1>7, <1>8
  <2> QED
    BY <2>1
<1>10. NackTypeOK'
  <2>1. bound' \in BOOLEAN /\ started' \in BOOLEAN
    BY DEF NackInv, NackTypeOK
  <2>2. slots' \in [0 .. Size - 1 -> Packet \cup {NoPacket}]
    BY <1>1
  <2>3. resending' \in [Resender -> [pkt : Packet \cup {NoPacket}, seq : SeqNo]]
        /\ fresh' \in Packet \cup {NoPacket}
    BY <1>1
  <2> QED
    BY <1>9, <2>1, <2>2, <2>3 DEF NackTypeOK, Kept
<1>11. FreshUnheld'
  BY DEF FreshUnheld
<1>12. ASSUME NEW i \in (0 .. Size - 1) \ E, slots[i] # NoPacket
       PROVE  packet'[slots[i]] = packet[slots[i]]
  <2>1. slots[i] \in Packet \ {f}
    BY <1>1, <1>4, <1>12
  <2>2. \A j \in E : slots[j] # slots[i]
    BY <1>3, <1>12
  <2> QED
    BY <1>8, <2>1, <2>2
<1>13. SlotsBySeq'
  <2> SUFFICES ASSUME NEW i \in 0 .. Size - 1, slots'[i] # NoPacket
               PROVE  packet'[slots'[i]].seq % Size = i
    BY DEF SlotsBySeq
  <2>1. CASE i = s % Size
    BY <1>5, <2>1
  <2>2. CASE i # s % Size
    <3>1. i \notin E /\ slots'[i] = slots[i]
      BY <2>2
    <3> QED
      BY <1>12, <3>1 DEF NackInv, SlotsBySeq
  <2> QED
    BY <2>1, <2>2
<1>14. ResendsKnown'
  <2> SUFFICES ASSUME NEW r \in Resender
               PROVE  IF resending[r].pkt = NoPacket THEN resending[r] = Idle
                      ELSE packet'[resending[r].pkt].seq = resending[r].seq
    BY DEF ResendsKnown
  <2>1. CASE resending[r].pkt = NoPacket
    BY <2>1 DEF NackInv, ResendsKnown
  <2>2. CASE resending[r].pkt # NoPacket
    <3>1. PICK p \in Packet \ {f} : p = resending[r].pkt
      BY <1>1, <1>4, <2>2
    <3>2. r \in Holders(p)'
      BY <3>1 DEF Holders
    <3>3. packet'[p].seq = packet[p].seq
      BY <1>7, <1>8, <3>2
    <3> QED
      BY <2>2, <3>1, <3>3 DEF NackInv, ResendsKnown
  <2> QED
    BY <2>1, <2>2
<1>15. CountsMatchHolders'
  <2> SUFFICES ASSUME NEW p \in Packet, Holders(p)' # {}
               PROVE  packet'[p].count = Cardinality(Holders(p)')
    BY DEF CountsMatchHolders
  <2>1. CASE p = f
    BY <1>2, <1>5, <1>6, <2>1, FS_Singleton
  <2>2. CASE p # f /\ \E i \in E : slots[i] = p
    BY <1>7, <2>2
  <2>3. CASE p # f /\ \A i \in E : slots[i] # p
    BY <1>8, <2>3 DEF NackInv, CountsMatchHolders
  <2> QED
    BY <2>1, <2>2, <2>3
<1> QED
  BY <1>5, <1>10, <1>11, <1>12, <1>13, <1>14, <1>15

LEMMA AddKeeps ==
    ASSUME NackInv, Add
    PROVE  NackInv'
<1>1. /\ packet \in [Packet -> Kept] /\ slots \in [0 .. Size - 1 -> Packet \cup {NoPacket}]
      /\ fresh \in Packet \cup {NoPacket} /\ highestAdded \in SeqNo /\ current \subseteq SeqNo
  BY DEF NackInv, NackTypeOK, Kept
<1>2. /\ fresh # NoPacket /\ fresh' = NoPacket /\ UNCHANGED <<bound, resending>>
      /\ bound' \in BOOLEAN
  BY DEF Add, NackInv, NackTypeOK
<1>3. PICK f \in Packet : f = fresh
  BY <1>1, <1>2
<1>4. PICK s \in SeqNo : s = packet[f].seq
  BY <1>1 DEF Kept
<1>5. s % Size \in 0 .. Size - 1
  BY NackConstants
<1>6. CASE started /\ s = highestAdded /\ UNCHANGED <<ringVars, packet>>
  <2>1. UNCHANGED <<ringVars, resending>> /\ packet' = packet /\ fresh' \in Packet \cup {NoPacket}
    BY <1>2, <1>6
  <2> QED
    BY <1>1, <1>2, <2>1, PacketsKept
<1>7. CASE /\ ~started /\ slots' = [slots EXCEPT ![s % Size] = f]
           /\ highestAdded' = s /\ started' = TRUE /\ current' = {s} /\ UNCHANGED packet
  <2> DEFINE E == {s % Size}
  <2>1. \A i \in 0 .. Size - 1 : slots[i] = NoPacket
    BY <1>7 DEF NackInv, WindowKept
  <2>2. slots' = [i \in 0 .. Size - 1 |->
                     IF i = s % Size THEN f ELSE IF i \in E THEN NoPacket ELSE slots[i]]
    BY <1>1, <1>5, <1>7
  <2>3. packet' = [p \in Packet |->
                     IF p \notin {slots[i] : i \in E} THEN packet[p] ELSE letGo(packet[p])]
    <3>1. \A p \in Packet : p \notin {slots[i] : i \in E}
      BY <1>5, <2>1, NackConstants
    <3> QED
      BY <1>1, <1>7, <3>1
  <2>4. E \in SUBSET (0 .. Size - 1) /\ s % Size \in E
    BY <1>5
  <2>5. highestAdded' \in SeqNo /\ current' \subseteq SeqNo /\ started' = TRUE
    BY <1>7
  <2> HIDE DEF E
  <2>6. /\ NackTypeOK' /\ FreshUnheld' /\ SlotsBySeq' /\ ResendsKnown' /\ CountsMatchHolders'
        /\ packet'[f].seq = s
    BY <1>2, <1>3, <1>4, <2>2, <2>3, <2>4, <2>5, Stored
  <2>7. WindowKept'
    <3> SUFFICES ASSUME NEW c \in SeqNo
                 PROVE  c = s <=> /\ seqDiff(s, c) < Size /\ slots'[c % Size] # NoPacket
                                  /\ packet'[slots'[c % Size]].seq = c
      BY <1>7 DEF WindowKept
    <3>1. c % Size \in 0 .. Size - 1
      BY NackConstants
    <3>2. slots'[c % Size] = IF c % Size = s % Size THEN f ELSE NoPacket
      BY <1>1, <1>5, <1>7, <2>1, <3>1
    <3>3. seqDiff(s, s) = 0 /\ 0 < Size
      BY NackConstants, SeqDiff
    <3> QED
      BY <2>6, <3>2, <3>3, NackConstants
  <2> QED
    BY <2>6, <2>7 DEF NackInv
<1>8. CASE /\ started /\ s # highestAdded
           /\ slots' = [i \in 0 .. Size - 1 |->
                           IF i = s % Size THEN f
                           ELSE IF i \in emptied(s) THEN NoPacket ELSE slots[i]]
           /\ Release({slots[i] : i \in emptied(s)})
           /\ highestAdded' = IF isNewer(s) THEN s ELSE highestAdded
           /\ current' = {c \in current : c % Size \notin emptied(s)}
                             \cup (IF seqDiff(highestAdded', s) < Size THEN {s} ELSE {})
           /\ UNCHANGED started
  <2>1. PICK E \in SUBSET (0 .. Size - 1) : E = emptied(s)
    <3>1. emptied(s) \subseteq 0 .. Size - 1
      BY NackConstants DEF emptied, skipped
    <3> QED
      BY <3>1
  <2>2. s % Size \in E
    BY <2>1 DEF emptied
  <2>3. packet' = [p \in Packet |->
                     IF p \notin {slots[i] : i \in E} THEN packet[p] ELSE letGo(packet[p])]
    BY <1>8, <2>1 DEF Release, letGo
  <2>4. slots' = [i \in 0 .. Size - 1 |->
                     IF i = s % Size THEN f ELSE IF i \in E THEN NoPacket ELSE slots[i]]
    BY <1>8, <2>1
  <2>5. highestAdded' \in SeqNo /\ current' \subseteq SeqNo /\ started' = TRUE
    <3>1. started' = TRUE
      BY <1>8 DEF NackInv, NackTypeOK
    <3> QED
      BY <1>1, <1>8, <3>1
  <2>6. /\ NackTypeOK' /\ FreshUnheld' /\ SlotsBySeq' /\ ResendsKnown' /\ CountsMatchHolders'
        /\ packet'[f].seq = s
        /\ \A i \in (0 .. Size - 1) \ E : slots[i] # NoPacket =>
               packet'[slots[i]].seq = packet[slots[i]].seq
    BY <1>2, <1>3, <1>4, <2>2, <2>3, <2>4, <2>5, Stored
  <2>7. ASSUME NEW c \in SeqNo
        PROVE  c \in current' <=> /\ seqDiff(highestAdded', c) < Size
                                  /\ slots'[c % Size] # NoPacket
                                  /\ packet'[slots'[c % Size]].seq = c
    <3>1. c % Size \in 0 .. Size - 1
      BY NackConstants
    <3>2. c \in current' <=> \/ c \in current /\ c % Size \notin E
                             \/ c = s /\ seqDiff(highestAdded', s) < Size
      BY <1>8, <2>1
    <3>3. CASE c % Size \notin E
      <4>1. slots'[c % Size] = slots[c % Size] /\ c # s
        BY <2>2, <2>4, <3>1, <3>3
      <4>2. seqDiff(highestAdded', c) < Size <=> seqDiff(highestAdded, c) < Size
        <5>1. CASE isNewer(s)
          BY <1>1, <1>8, <2>1, <3>3, <5>1, WindowAdvances
        <5>2. CASE ~isNewer(s)
          BY <1>8, <5>2
        <5> QED
          BY <5>1, <5>2
      <4>3. c \in current <=> /\ seqDiff(highestAdded, c) < Size /\ slots[c % Size] # NoPacket
                              /\ packet[slots[c % Size]].seq = c
        BY <1>8 DEF NackInv, WindowKept
      <4>4. slots[c % Size] # NoPacket =>
                packet'[slots[c % Size]].seq = packet[slots[c % Size]].seq
        BY <2>6, <3>1, <3>3
      <4> QED
        BY <3>2, <3>3, <4>1, <4>2, <4>3, <4>4
    <3>4. CASE c % Size \in E /\ c % Size # s % Size
      BY <2>4, <3>1, <3>2, <3>4
    <3>5. CASE c % Size = s % Size
      <4>1. slots'[c % Size] = f /\ f # NoPacket
        BY <2>4, <3>1, <3>5, NackConstants
      <4> QED
        BY <2>2, <2>6, <3>2, <3>5, <4>1
    <3> QED
      BY <3>3, <3>4, <3>5
  <2>8. WindowKept'
    BY <2>5, <2>7 DEF WindowKept
  <2> QED
    BY <2>6, <2>8 DEF NackInv
<1> QED
  BY <1>3, <1>4, <1>6, <1>7, <1>8 DEF Add

LEMMA NackInvStep == NackInv /\ [NackNext]_nackVars => NackInv'
<1> SUFFICES ASSUME NackInv, [NackNext]_nackVars PROVE NackInv'
  OBVIOUS
<1>1. CASE UNCHANGED nackVars
  <2>1. UNCHANGED <<ringVars, resending, packet, fresh, bound>>
    BY <1>1 DEF nackVars
  <2>2. packet' \in [Packet -> Kept] /\ fresh' \in Packet \cup {NoPacket} /\ bound' \in BOOLEAN
    BY <2>1 DEF NackInv, NackTypeOK, Kept
  <2>3. fresh' # NoPacket => Holders(fresh') = {} /\ packet'[fresh'].count = 1
    BY <2>1 DEF NackInv, FreshUnheld
  <2>4. packet' = packet /\ UNCHANGED <<ringVars, resending>>
    BY <2>1
  <2> QED
    BY <2>2, <2>3, <2>4, PacketsKept
<1> QED
  BY <1>1, NewPacketKeeps, CollectKeeps, UnbindKeeps, resendPacketsKeeps, ResendDoneKeeps,
     AddKeeps DEF NackNext

\* rtpBuffer.Add and Get, retainablePacket.Retain and Release, and resendPackets:
\* for every buffer size, number of pooled packets and of goroutines resending, the
\* buffer serves exactly the window, each resend writes the packet it was asked for,
\* and memory is given back exactly when its last holder lets go.
THEOREM NackSoundCorrect == NackSpec => []NackSound
<1>1. ASSUME NackInv PROVE NackSound
  <2>1. NackTypeOK /\ CountsMatchHolders
    BY <1>1 DEF NackInv
  <2>2. ResendsWhatWasAsked
    <3> SUFFICES ASSUME NEW r \in Resender, resending[r] # Idle
                 PROVE  /\ packet[resending[r].pkt].count > 0
                        /\ packet[resending[r].pkt].seq = resending[r].seq
      BY DEF ResendsWhatWasAsked
    <3>1. resending[r].pkt \in Packet /\ packet[resending[r].pkt].seq = resending[r].seq
      BY <1>1, <2>1 DEF NackInv, NackTypeOK, ResendsKnown
    <3>2. r \in Holders(resending[r].pkt)
      BY DEF Holders
    <3>3. packet[resending[r].pkt].count \in Nat \ {0}
      BY <1>1, <3>1, <3>2, HeldCounts
    <3> QED
      BY <3>1, <3>3
  <2>3. ServesTheWindow
    <3> SUFFICES ASSUME started, NEW c \in SeqNo
                 PROVE  c \in current <=>
                          seqDiff(highestAdded, c) < uint16SizeHalf /\ Get(c) # NoPacket
      BY DEF ServesTheWindow
    <3>1. c % Size \in 0 .. Size - 1 /\ Size \in Nat /\ Size <= uint16SizeHalf
          /\ uint16SizeHalf \in Nat
      BY NackConstants
    <3>2. seqDiff(highestAdded, c) \in Nat
      <4>1. highestAdded \in SeqNo
        BY <2>1 DEF NackTypeOK
      <4> QED
        BY <4>1, SeqDiff DEF SeqNo
    <3>3. c \in current <=> /\ seqDiff(highestAdded, c) < Size /\ slots[c % Size] # NoPacket
                            /\ packet[slots[c % Size]].seq = c
      BY <1>1 DEF NackInv, WindowKept
    <3>4. slots[c % Size] # NoPacket => packet[slots[c % Size]].count # 0
      <4> SUFFICES ASSUME slots[c % Size] # NoPacket PROVE packet[slots[c % Size]].count # 0
        OBVIOUS
      <4>1. slots[c % Size] \in Packet /\ c % Size \in Holders(slots[c % Size])
        BY <2>1, <3>1 DEF NackTypeOK, Holders
      <4> QED
        BY <1>1, <4>1, HeldCounts
    <3> QED
      BY <3>1, <3>2, <3>3, <3>4 DEF Get
  <2> QED
    BY <2>1, <2>2, <2>3 DEF NackSound
<1> QED
  BY <1>1, NackInvInit, NackInvStep, PTL DEF NackSpec
-----------------------------------------------------------------------------
(***************************************************************************)
(* SampleClock.                                                            *)
(***************************************************************************)

Ticks == 2 * HalfTicks

LEMMA WrapType ==
    ASSUME NEW a \in Int
    PROVE  /\ wrapTicks(a) \in 0 .. Ticks - 1
           /\ \E q \in Int : a = q * Ticks + wrapTicks(a)
           /\ a \in 0 .. Ticks - 1 => wrapTicks(a) = a
<1>1. Ticks \in Nat \ {0}
  BY SampleClockAssumption DEF Ticks
<1>2. wrapTicks(a) = a % Ticks
  BY DEF wrapTicks, Ticks
<1> HIDE DEF Ticks
<1>3. a \in 0 .. Ticks - 1 => (a % Ticks) = a
  BY <1>1
<1>4. (a % Ticks) \in 0 .. Ticks - 1 /\ \E q \in Int : a = q * Ticks + (a % Ticks)
  BY <1>1, Remainder
<1> QED
  BY <1>2, <1>3, <1>4, Zenon

\* Numbers a multiple of RTP time apart are the same RTP time.
LEMMA WrapSame ==
    ASSUME NEW a \in Int, NEW b \in Int, NEW k \in Int, a = b + k * Ticks
    PROVE  wrapTicks(a) = wrapTicks(b)
<1>1. Ticks \in Nat \ {0}
  BY SampleClockAssumption DEF Ticks
<1>2. wrapTicks(a) = a % Ticks
  BY DEF wrapTicks, Ticks
<1> DEFINE r == wrapTicks(b)
<1>3. PICK q \in Int : b = q * Ticks + r
  BY WrapType
<1>0. r \in 0 .. Ticks - 1
  BY WrapType
<1> HIDE DEF Ticks, r
<1> DEFINE t == q + k
<1>4. t * Ticks = q * Ticks + k * Ticks /\ q * Ticks \in Int /\ k * Ticks \in Int /\ t \in Int
  BY <1>1
<1> HIDE DEF t
<1>5. a = t * Ticks + r
  BY <1>0, <1>1, <1>3, <1>4
<1> DEFINE z == a
<1>6. z = t * Ticks + r /\ z \in Int
  BY <1>5
<1> HIDE DEF z
<1>7. z % Ticks = r
  BY <1>0, <1>1, <1>4, <1>6, RemainderUnique
<1> QED
  BY <1>2, <1>7 DEF r, z

\* Wrapping a part of a sum or of a difference does not change what it wraps to.
LEMMA WrapPart ==
    ASSUME NEW a \in Int, NEW b \in Int
    PROVE  /\ wrapTicks(b + wrapTicks(a)) = wrapTicks(b + a)
           /\ wrapTicks(b - wrapTicks(a)) = wrapTicks(b - a)
<1>1. Ticks \in Nat \ {0} /\ wrapTicks(a) \in Int
  BY SampleClockAssumption, WrapType DEF Ticks
<1>2. PICK q \in Int : a = q * Ticks + wrapTicks(a)
  BY WrapType
<1> DEFINE r == wrapTicks(a)
<1> HIDE DEF Ticks, r
<1>3. q * Ticks \in Int /\ (-q) * Ticks = -(q * Ticks) /\ -q \in Int
  BY <1>1
<1>4. b + a = (b + r) + q * Ticks /\ b - a = (b - r) + (-q) * Ticks
      /\ b + r \in Int /\ b - r \in Int /\ b + a \in Int /\ b - a \in Int
  BY <1>1, <1>2, <1>3 DEF r
<1>5. wrapTicks(b + a) = wrapTicks(b + r)
  BY <1>4, WrapSame
<1>6. wrapTicks(b - a) = wrapTicks(b - r)
  BY <1>3, <1>4, WrapSame
<1> QED
  BY <1>5, <1>6 DEF r

\* The previous sample ends where its own length puts it.
ClockInv ==
    /\ clock \in [started : BOOLEAN, start : Int, end : Int, wall : Int]
    /\ clock.started => \E d \in SampleDurations \cap Nat :
                            clock.end = wrapTicks(clock.start + spanOf(d))
    /\ SamplesNeverOverlap

LEMMA SpanType ==
    ASSUME NEW d \in Int
    PROVE  spanOf(d) \in 0 .. Ticks - 1
<1>1. (d * Rate) \div ClockSecond \in Int
  BY SampleClockAssumption
<1> QED
  BY <1>1, WrapType DEF spanOf

\* A sample after the first: start0 and end are where the previous one, b ticks long,
\* was; gap is what dropped packets leave free.
LEMMA NeverCloser ==
    ASSUME NEW start0 \in Int, NEW end \in Int, NEW b \in Nat, NEW gap \in Nat, NEW target \in Int,
           end = wrapTicks(start0 + b), b + gap <= HalfTicks, b < Ticks
    PROVE  LET at == later(target, wrapTicks(end + gap))
               before == wrapTicks(end - start0)
               onWire == wrapTicks(wrapTicks(at - end) + before)
           IN  /\ at \in Int
               /\ onWire = wrapTicks(at - start0) /\ onWire >= wrapTicks(before + gap)
<1> DEFINE start == wrapTicks(end + gap)
<1> DEFINE at == later(target, start)
<1> DEFINE before == wrapTicks(end - start0)
<1> DEFINE ahead == wrapTicks(at - start)
<1> DEFINE onWire == wrapTicks(wrapTicks(at - end) + before)
<1>0. HalfTicks \in Nat \ {0} /\ Ticks = 2 * HalfTicks /\ Ticks \in Nat
  BY SampleClockAssumption DEF Ticks
<1>1. start \in Int
  <2>1. end + gap \in Int
    OBVIOUS
  <2> QED
    BY <2>1, WrapType
<1>2. before = b
  <2>1. wrapTicks((-start0) + wrapTicks(start0 + b)) = wrapTicks((-start0) + (start0 + b))
    <3>1. -start0 \in Int /\ start0 + b \in Int
      OBVIOUS
    <3> QED
      BY <3>1, WrapPart
  <2>2. end - start0 = (-start0) + end /\ (-start0) + (start0 + b) = b
    OBVIOUS
  <2>3. before = wrapTicks(b)
    BY <2>1, <2>2
  <2>4. b \in Int /\ b \in 0 .. Ticks - 1
    BY <1>0
  <2> QED
    BY <2>3, <2>4, WrapType
<1>3. at \in Int /\ ahead \in 0 .. HalfTicks - 1
  <2>1. CASE at = target /\ wrapTicks(target - start) # 0 /\ ~isNegative(target - start)
    <3>1. target - start \in Int
      BY <1>1
    <3>2. wrapTicks(target - start) \in 0 .. Ticks - 1
      BY <3>1, WrapType
    <3> QED
      BY <1>0, <2>1, <3>2 DEF isNegative
  <2>2. CASE at = start
    <3>1. start - start = 0 /\ 0 \in 0 .. Ticks - 1 /\ 0 \in Int
      BY <1>0, <1>1
    <3>2. wrapTicks(0) = 0
      BY <3>1, WrapType
    <3> QED
      BY <1>0, <1>1, <2>2, <3>1, <3>2
  <2> QED
    BY <2>1, <2>2 DEF later
<1> HIDE DEF start, at, before, ahead
<1>4. onWire = wrapTicks(at - start0)
  <2>1. onWire = wrapTicks(before + wrapTicks(at - end))
    <3>1. at - end \in Int
      BY <1>3
    <3>2. wrapTicks(at - end) \in Int /\ before \in Int
      BY <1>2, <3>1, WrapType
    <3>3. wrapTicks(at - end) + before = before + wrapTicks(at - end)
      BY <3>2
    <3> QED
      BY <3>3
  <2>2. at - end \in Int /\ before \in Int
    BY <1>2, <1>3
  <2>3. onWire = wrapTicks(before + (at - end))
    BY <2>1, <2>2, WrapPart
  <2>4. wrapTicks((at + b) - wrapTicks(start0 + b)) = wrapTicks((at + b) - (start0 + b))
    <3>1. at + b \in Int /\ start0 + b \in Int
      BY <1>3
    <3> QED
      BY <3>1, WrapPart
  <2>5. before + (at - end) = (at + b) - end /\ (at + b) - (start0 + b) = at - start0
    BY <1>2, <1>3
  <2> QED
    BY <2>3, <2>4, <2>5
<1>5. onWire = wrapTicks(b + gap + ahead)
  <2>1. wrapTicks((b + gap) + ahead) = wrapTicks((b + gap) + (at - start))
    <3>1. b + gap \in Int /\ at - start \in Int
      BY <1>1, <1>3
    <3> QED
      BY <3>1, WrapPart DEF ahead
  <2>2. wrapTicks((b + gap + at) - wrapTicks(end + gap)) = wrapTicks((b + gap + at) - (end + gap))
    <3>1. b + gap + at \in Int /\ end + gap \in Int
      BY <1>3
    <3> QED
      BY <3>1, WrapPart
  <2>3. (b + gap) + (at - start) = (b + gap + at) - start
        /\ (b + gap + at) - (end + gap) = b + (at - end)
    BY <1>1, <1>3
  <2>4. wrapTicks(b + gap + ahead) = wrapTicks(b + (at - end))
    BY <2>1, <2>2, <2>3 DEF start
  <2>5. wrapTicks(b + wrapTicks(at - end)) = wrapTicks(b + (at - end))
    <3>1. b \in Int /\ at - end \in Int
      BY <1>3
    <3> QED
      BY <3>1, WrapPart
  <2>6. wrapTicks(at - end) + before = b + wrapTicks(at - end)
    <3>1. at - end \in Int
      BY <1>3
    <3>2. wrapTicks(at - end) \in Int
      BY <3>1, WrapType
    <3> QED
      BY <1>2, <3>2
  <2> QED
    BY <2>4, <2>5, <2>6
<1>6. b + gap + ahead \in 0 .. Ticks - 1 /\ b + gap \in 0 .. Ticks - 1
      /\ b + gap <= b + gap + ahead /\ b + gap + ahead \in Int /\ b + gap \in Int
  BY <1>0, <1>3
<1>7. wrapTicks(b + gap + ahead) = b + gap + ahead /\ wrapTicks(b + gap) = b + gap
  BY <1>6, WrapType
<1>8. onWire >= wrapTicks(before + gap)
  BY <1>2, <1>5, <1>6, <1>7
<1> QED
  BY <1>2, <1>3, <1>4, <1>8 DEF at, before, start

LEMMA WriteSampleKeeps ==
    ASSUME ClockInv, NEW s \in Sample, WriteSample(s)
    PROVE  ClockInv'
<1> DEFINE p == clockPlace(clock, s)
<1> DEFINE span == spanOf(s.duration)
<1> DEFINE gap == s.dropped * span
<1>0. HalfTicks \in Nat \ {0} /\ Ticks = 2 * HalfTicks /\ Tick \subseteq Int
      /\ Rate \in Nat /\ ClockSecond \in Nat \ {0}
  BY SampleClockAssumption DEF Ticks, Tick
<1>1. /\ p.ok
      /\ clock' = [started |-> TRUE, start |-> p.start, end |-> wrapTicks(p.start + p.span),
                   wall |-> s.wall]
      /\ clockStep' = IF ~clock.started THEN clockStep
                      ELSE [wire |-> wrapTicks(p.skip + wrapTicks(clock.end - clock.start)),
                            least |-> wrapTicks(wrapTicks(clock.end - clock.start)
                                                  + s.dropped * p.span),
                            places |-> wrapTicks(p.start - clock.start)]
  BY DEF WriteSample
<1>2. s.duration \in SampleDurations \cap Nat /\ s.pts \in Int /\ s.dropped \in Drops
      /\ s.dropped \in Nat /\ s.wall \in Int
  <2>1. s.duration \in SampleDurations /\ s.pts \in Tick /\ s.wall \in Walls /\ s.dropped \in Drops
    BY DEF Sample
  <2>2. s.duration >= 0
    BY <1>1 DEF clockPlace
  <2>3. SampleDurations \subseteq Int /\ Walls \subseteq Nat /\ Drops \subseteq Nat
    BY SampleClockAssumption
  <2> HIDE DEF p
  <2>4. s.duration \in Int /\ s.wall \in Nat /\ s.dropped \in Nat
    BY <2>1, <2>3
  <2>5. s.duration \in Nat /\ s.wall \in Int /\ s.pts \in Int
    <3>1. Tick \subseteq Int
      BY <1>0
    <3>2. s.pts \in Int
      BY <2>1, <3>1
    <3>3. s.duration \in Nat /\ s.wall \in Int
      BY <2>2, <2>4
    <3> QED
      BY <3>2, <3>3
  <2> QED
    BY <2>1, <2>4, <2>5
<1>3. span \in Nat /\ span < Ticks /\ gap \in Nat /\ p.span = span
  <2>1. s.duration \in Int
    BY <1>2
  <2>2. span \in 0 .. Ticks - 1
    BY <2>1, SpanType
  <2>3. span \in Nat /\ span < Ticks
    BY <1>0, <2>2
  <2>4. p.span = span
    BY DEF clockPlace
  <2> HIDE DEF span
  <2>5. gap \in Nat
    BY <1>2, <2>3
  <2> QED
    BY <2>3, <2>4, <2>5
<1>4. /\ clock \in [started : BOOLEAN, start : Int, end : Int, wall : Int]
      /\ clock.start \in Int /\ clock.end \in Int /\ clock.wall \in Int
  BY DEF ClockInv
<1> HIDE DEF span, gap
<1>5. ASSUME p.start \in Int PROVE
        /\ clock' \in [started : BOOLEAN, start : Int, end : Int, wall : Int]
        /\ clock'.started => \E d \in SampleDurations \cap Nat :
                                 clock'.end = wrapTicks(clock'.start + spanOf(d))
  <2>1. p.start + p.span \in Int
    BY <1>3, <1>5
  <2>2. wrapTicks(p.start + p.span) \in Int
    BY <2>1, WrapType
  <2>3. TRUE \in BOOLEAN
    OBVIOUS
  <2> HIDE DEF p
  <2>4. clock' \in [started : BOOLEAN, start : Int, end : Int, wall : Int]
    BY <1>1, <1>2, <1>5, <2>2, <2>3
  <2>5. clock'.end = wrapTicks(clock'.start + spanOf(s.duration))
    BY <1>1, <1>3 DEF span
  <2> QED
    BY <1>2, <2>4, <2>5
<1>6. CASE ~clock.started
  <2>1. PICK end \in Int : p.start = wrapTicks(end + gap)
    <3>1. CASE s.pts # 0
      <4>1. s.pts - gap \in Int
        BY <1>2, <1>3
      <4>2. wrapTicks(s.pts - gap) \in Int
        BY <4>1, WrapType
      <4>3. p.start = wrapTicks(wrapTicks(s.pts - gap) + gap)
        BY <1>6, <3>1 DEF clockPlace, gap, span
      <4> QED
        BY <4>2, <4>3
    <3>2. CASE s.pts = 0
      <4>1. p.start = wrapTicks(clock.end + gap)
        BY <1>6, <3>2 DEF clockPlace, gap, span
      <4> QED
        BY <1>4, <4>1
    <3> QED
      BY <3>1, <3>2
  <2>2. end + gap \in Int
    BY <1>3
  <2>3. p.start \in Int
    BY <2>1, <2>2, WrapType
  <2>4. SamplesNeverOverlap'
    BY <1>1, <1>6 DEF ClockInv, SamplesNeverOverlap
  <2> QED
    BY <1>5, <2>3, <2>4 DEF ClockInv
<1>7. CASE clock.started
  <2>1. PICK target \in Int :
          p.start = later(target, wrapTicks(clock.end + gap))
    <3> DEFINE byWall == s.wall # 0 /\ clock.wall # 0
    <3> DEFINE target == IF s.pts # 0 THEN s.pts
                         ELSE IF byWall
                         THEN wrapTicks(clock.start + ((s.wall - clock.wall) * Rate) \div ClockSecond)
                         ELSE wrapTicks(clock.end + gap)
    <3>1. p.start = later(target, wrapTicks(clock.end + gap))
      BY <1>7 DEF clockPlace, gap, span
    <3>2. wrapTicks(clock.end + gap) \in Int
      <4>1. clock.end + gap \in Int
        BY <1>3, <1>4
      <4> QED
        BY <4>1, WrapType
    <3>3. wrapTicks(clock.start + ((s.wall - clock.wall) * Rate) \div ClockSecond) \in Int
      <4>1. ((s.wall - clock.wall) * Rate) \div ClockSecond \in Int
        BY <1>0, <1>2, <1>4
      <4>2. clock.start + ((s.wall - clock.wall) * Rate) \div ClockSecond \in Int
        BY <1>4, <4>1
      <4> QED
        BY <4>2, WrapType
    <3>4. target \in Int
      BY <1>2, <3>2, <3>3
    <3> QED
      BY <3>1, <3>4
  <2>2. PICK d \in SampleDurations \cap Nat : clock.end = wrapTicks(clock.start + spanOf(d))
    BY <1>7 DEF ClockInv
  <2>3. spanOf(d) \in Nat /\ spanOf(d) < Ticks /\ spanOf(d) + gap <= HalfTicks
    <3>1. spanOf(d) \in 0 .. Ticks - 1
      BY SpanType
    <3>2. spanOf(d) + s.dropped * spanOf(s.duration) <= HalfTicks
      BY <1>2, SampleClockAssumption
    <3> QED
      BY <1>0, <3>1, <3>2 DEF gap, span
  <2>4. p.skip = wrapTicks(p.start - clock.end)
    BY <1>7 DEF clockPlace, skipTo
  <2> DEFINE at == later(target, wrapTicks(clock.end + gap))
  <2> DEFINE before == wrapTicks(clock.end - clock.start)
  <2>5. /\ at \in Int
        /\ wrapTicks(wrapTicks(at - clock.end) + before) = wrapTicks(at - clock.start)
        /\ wrapTicks(wrapTicks(at - clock.end) + before) >= wrapTicks(before + gap)
    <3> DEFINE b == spanOf(d)
    <3> DEFINE end == clock.end
    <3> DEFINE start0 == clock.start
    <3> HIDE DEF p
    <3>1. start0 \in Int /\ end \in Int /\ b \in Nat /\ gap \in Nat /\ target \in Int
          /\ end = wrapTicks(start0 + b) /\ b + gap <= HalfTicks /\ b < Ticks
      BY <1>3, <1>4, <2>2, <2>3
    <3> HIDE DEF b, end, start0
    <3>2. /\ later(target, wrapTicks(end + gap)) \in Int
          /\ wrapTicks(wrapTicks(later(target, wrapTicks(end + gap)) - end) + wrapTicks(end - start0))
               = wrapTicks(later(target, wrapTicks(end + gap)) - start0)
          /\ wrapTicks(wrapTicks(later(target, wrapTicks(end + gap)) - end) + wrapTicks(end - start0))
               >= wrapTicks(wrapTicks(end - start0) + gap)
      BY <3>1, NeverCloser
    <3> QED
      BY <3>2 DEF end, start0
  <2> HIDE DEF p, at, before
  <2>6. p.start = at
    BY <2>1 DEF at
  <2>7. /\ clockStep'.wire = wrapTicks(wrapTicks(at - clock.end) + before)
        /\ clockStep'.least = wrapTicks(before + gap)
        /\ clockStep'.places = wrapTicks(at - clock.start)
    BY <1>1, <1>3, <1>7, <2>4, <2>6 DEF before, gap
  <2>8. SamplesNeverOverlap'
    BY <2>5, <2>7 DEF SamplesNeverOverlap
  <2> QED
    BY <1>5, <2>5, <2>6, <2>8 DEF ClockInv
<1> QED
  BY <1>6, <1>7

\* sampleClock.place and WriteSample: for every clock rate, range of RTP time and
\* mixture of time stamps, no sample lands closer to the one before it than that
\* one's length, and the wire shows what the clock decided.
THEOREM SamplesNeverOverlapCorrect == WriterSpec => []SamplesNeverOverlap
<1>1. WriterInit => ClockInv
  <2> SUFFICES ASSUME WriterInit PROVE ClockInv
    OBVIOUS
  <2>1. clock \in [started : BOOLEAN, start : Int, end : Int, wall : Int] /\ ~clock.started
    BY DEF WriterInit, NewClock
  <2>2. SamplesNeverOverlap
    BY DEF WriterInit, SamplesNeverOverlap
  <2> QED
    BY <2>1, <2>2 DEF ClockInv
<1>2. ClockInv /\ [WriterNext]_writerVars => ClockInv'
  <2>1. ASSUME ClockInv, UNCHANGED writerVars PROVE ClockInv'
    BY <2>1 DEF ClockInv, writerVars, SamplesNeverOverlap
  <2> QED
    BY <2>1, WriteSampleKeeps DEF WriterNext
<1>3. ClockInv => SamplesNeverOverlap
  BY DEF ClockInv
<1> QED
  BY <1>1, <1>2, <1>3, PTL DEF WriterSpec
-----------------------------------------------------------------------------
(***************************************************************************)
(* AudioReader.                                                            *)
(***************************************************************************)

\* Numbers a multiple of the modulus apart have one remainder.
LEMMA RemainderSame ==
    ASSUME NEW b \in Int, NEW k \in Int, NEW d \in Nat \ {0}
    PROVE  (b + k * d) % d = b % d
<1>1. PICK r \in 0 .. d - 1 : r = b % d
  BY Remainder
<1>2. PICK q \in Int : b = q * d + r
  BY <1>1, Remainder
<1>3. PICK t \in Int : t = q + k
  OBVIOUS
<1>4. t * d = q * d + k * d /\ q * d \in Int /\ k * d \in Int
  BY <1>3
<1>5. PICK a \in Int : a = b + k * d
  BY <1>4
<1>6. a = t * d + r
  BY <1>2, <1>4, <1>5
<1>7. a % d = r
  BY <1>6, RemainderUnique
<1> QED
  BY <1>1, <1>5, <1>7

\* The gap that handle computes from wrapped numbers is the wrapped distance of the
\* packets, and so is the number it expects next.
LEMMA GapOf ==
    ASSUME NEW n \in Nat, NEW e \in Nat, expectedSeq = e % ReadSeqMod
    PROVE  gapOf(seqOf(n)) = (n - e) % ReadSeqMod
<1>1. ReadSeqMod \in Nat \ {0} /\ n \in Int /\ e \in Int
  BY AudioReaderAssumption
<1>2. seqOf(n) \in 0 .. ReadSeqMod - 1 /\ \E a \in Int : n = a * ReadSeqMod + seqOf(n)
  BY ONLY <1>1, Remainder, Zenon DEF seqOf
<1>3. expectedSeq \in 0 .. ReadSeqMod - 1 /\ \E b \in Int : e = b * ReadSeqMod + expectedSeq
  <2>1. (e % ReadSeqMod) \in 0 .. ReadSeqMod - 1 /\ \E b \in Int : e = b * ReadSeqMod + (e % ReadSeqMod)
    BY ONLY <1>1, Remainder, Zenon
  <2> QED
    BY ONLY <2>1, expectedSeq = e % ReadSeqMod, Zenon
<1>4. PICK x \in Int : x = seqOf(n) - expectedSeq + ReadSeqMod
  BY <1>1, <1>2, <1>3
<1>5. PICK y \in Int : y = n - e
  BY <1>1
<1>6. \E k \in Int : x = y + k * ReadSeqMod
  <2>1. PICK a \in Int : n = a * ReadSeqMod + seqOf(n)
    BY <1>2
  <2>2. PICK b \in Int : e = b * ReadSeqMod + expectedSeq
    BY <1>3
  <2>3. PICK k \in Int : k = 1 - a + b
    OBVIOUS
  <2>4. /\ k * ReadSeqMod = ReadSeqMod - a * ReadSeqMod + b * ReadSeqMod
        /\ a * ReadSeqMod \in Int /\ b * ReadSeqMod \in Int
    BY ONLY <1>1, <2>3
  <2>5. x = y + k * ReadSeqMod
    BY ONLY <1>1, <1>2, <1>3, <1>4, <1>5, <2>1, <2>2, <2>4
  <2> QED
    BY <2>5
<1>7. x % ReadSeqMod = y % ReadSeqMod
  <2>1. PICK k \in Int : x = y + k * ReadSeqMod
    BY ONLY <1>6
  <2>2. (y + k * ReadSeqMod) % ReadSeqMod = y % ReadSeqMod
    BY ONLY <1>1, RemainderSame, Zenon
  <2> QED
    BY ONLY <2>1, <2>2, Zenon
<1> QED
  BY <1>4, <1>5, <1>7 DEF gapOf

LEMMA NextSeq ==
    ASSUME NEW n \in Nat
    PROVE  (seqOf(n) + 1) % ReadSeqMod = (n + 1) % ReadSeqMod
<1>1. ReadSeqMod \in Nat \ {0} /\ n \in Int
  BY AudioReaderAssumption
<1>2. seqOf(n) \in 0 .. ReadSeqMod - 1 /\ \E a \in Int : n = a * ReadSeqMod + seqOf(n)
  BY ONLY <1>1, Remainder, Zenon DEF seqOf
<1>3. PICK a \in Int : n = a * ReadSeqMod + seqOf(n)
  BY ONLY <1>2
<1>4. PICK x \in Int : x = seqOf(n) + 1
  BY ONLY <1>1, <1>2
<1>5. PICK y \in Int : y = n + 1
  BY ONLY <1>1
<1>6. a * ReadSeqMod \in Int
  BY ONLY <1>1
<1>7. y = x + a * ReadSeqMod
  BY ONLY <1>1, <1>2, <1>3, <1>4, <1>5, <1>6
<1>8. (x + a * ReadSeqMod) % ReadSeqMod = x % ReadSeqMod
  BY ONLY <1>1, RemainderSame, Zenon
<1> QED
  BY ONLY <1>4, <1>5, <1>7, <1>8, Zenon

\* A packet before the expected one is late as long as it is less than half a round
\* late; from the expected one on the gap counts packets, whole rounds left out.
LEMMA GapSize ==
    ASSUME NEW n \in Nat, NEW e \in Nat, NEW g, g = (n - e) % ReadSeqMod
    PROVE  /\ g \in Nat
           /\ n < e /\ e < n + ReadSeqMod \div 2 => tooLate(g)
           /\ n >= e => g <= n - e /\ (n - e - g) % ReadSeqMod = 0
<1>1. ReadSeqMod \in Nat \ {0}
  BY AudioReaderAssumption
<1>2. PICK y \in Int : y = n - e
  OBVIOUS
<1>3. g = y % ReadSeqMod
  BY <1>2
<1>4. g \in 0 .. ReadSeqMod - 1
  BY ONLY <1>1, <1>3, Remainder
<1>5. PICK q \in Int : y = q * ReadSeqMod + g
  BY ONLY <1>1, <1>3, Remainder
<1>6. ReadSeqMod \div 2 \in Nat /\ 2 * (ReadSeqMod \div 2) = ReadSeqMod
  BY AudioReaderAssumption
<1>7. ASSUME n < e, e < n + ReadSeqMod \div 2 PROVE tooLate(g)
  <2>1. PICK r \in 0 .. ReadSeqMod - 1 : r = y + ReadSeqMod
    BY <1>1, <1>2, <1>6, <1>7
  <2>2. y = (-1) * ReadSeqMod + r
    BY <1>1, <2>1
  <2>3. g = r
    BY ONLY <1>1, <1>3, <2>2, RemainderUnique
  <2> QED
    BY <1>1, <1>2, <1>6, <1>7, <2>1, <2>3 DEF tooLate
<1>8. ASSUME n >= e PROVE g <= n - e
  <2>1. CASE q >= 0
    <3>1. q * ReadSeqMod \in Nat
      BY ONLY <1>1, <2>1
    <3> QED
      BY <1>2, <1>4, <1>5, <3>1
  <2>2. CASE q <= -1
    <3>1. q * ReadSeqMod <= -ReadSeqMod /\ q * ReadSeqMod \in Int
      BY ONLY <1>1, <2>2
    <3> QED
      BY <1>1, <1>2, <1>4, <1>5, <1>8, <3>1
  <2> QED
    BY <2>1, <2>2
<1>9. (n - e - g) % ReadSeqMod = 0
  <2>1. PICK x \in Int : x = n - e - g
    BY <1>1, <1>4
  <2>2. q * ReadSeqMod \in Int
    BY ONLY <1>1
  <2>3. x = q * ReadSeqMod + 0 /\ 0 \in 0 .. ReadSeqMod - 1
    BY ONLY <1>1, <1>2, <1>4, <1>5, <2>1, <2>2, n \in Nat, e \in Nat
  <2>4. x % ReadSeqMod = 0
    BY ONLY <1>1, <2>3, RemainderUnique
  <2> QED
    BY <2>1, <2>4
<1> QED
  BY <1>4, <1>7, <1>8, <1>9

\* A frame concealed i frames before a packet has the time of the packet it stands for.
LEMMA MissingOnTime ==
    ASSUME NEW n \in Nat, NEW i \in Nat
    PROVE  (timestampOf(n) - i * FrameTicks + i * ReadTsMod) % ReadTsMod = timestampOf(n - i)
<1>1. ReadTsMod \in Nat \ {0} /\ FrameTicks \in Nat
  BY AudioReaderAssumption
<1>2. PICK s \in Int : s = timestampOf(n)
  BY <1>1, Remainder DEF timestampOf
<1>3. PICK y \in Int : y = (n - i) * FrameTicks
  BY <1>1
<1>4. PICK x \in Int : x = s - i * FrameTicks + i * ReadTsMod
  BY <1>1
<1>5. \E k \in Int : x = y + k * ReadTsMod
  <2>1. PICK z \in Int : z = n * FrameTicks
    BY <1>1
  <2>2. PICK q \in Int : z = q * ReadTsMod + s
    BY <1>1, <1>2, <2>1, Remainder DEF timestampOf
  <2>3. PICK k \in Int : k = i - q
    OBVIOUS
  <2>4. /\ k * ReadTsMod = i * ReadTsMod - q * ReadTsMod
        /\ i * ReadTsMod \in Int /\ q * ReadTsMod \in Int
    BY ONLY <1>1, <2>3
  <2>5. i * FrameTicks \in Int /\ (n - i) * FrameTicks = z - i * FrameTicks
    BY ONLY <1>1, <2>1
  <2>6. x = y + k * ReadTsMod
    BY ONLY <1>1, <1>3, <1>4, <2>2, <2>4, <2>5
  <2> QED
    BY <2>6
<1>6. x % ReadTsMod = y % ReadTsMod
  <2>1. PICK k \in Int : x = y + k * ReadTsMod
    BY ONLY <1>5
  <2>2. (y + k * ReadTsMod) % ReadTsMod = y % ReadTsMod
    BY ONLY <1>1, RemainderSame, Zenon
  <2> QED
    BY ONLY <2>1, <2>2, Zenon
<1> QED
  BY <1>2, <1>3, <1>4, <1>6 DEF timestampOf

Frame == [n : Int, kind : {"decoded", "missing", "malformed"}, pts : Int]

LEMMA PtsType ==
    ASSUME NEW t \in Int, NEW base \in Int
    PROVE  ptsOf(t, base) \in Int
<1>1. ReadTsMod \in Nat \ {0}
  BY AudioReaderAssumption
<1> QED
  BY <1>1 DEF ptsOf

LEMMA TimestampType ==
    ASSUME NEW n \in Int
    PROVE  timestampOf(n) \in Int
<1>1. ReadTsMod \in Nat \ {0} /\ n * FrameTicks \in Int
  BY AudioReaderAssumption
<1> QED
  BY <1>1 DEF timestampOf

\* What concealGap returns when concealment is on.
ConcealedFor(gap, c, t, base, n, kind) ==
    /\ gap \in Seq(Frame) /\ Len(gap) = c
    /\ \A j \in 1 .. c :
         /\ gap[j].n = n - (c + 1 - j) /\ gap[j].kind = kind
         /\ gap[j].pts = ptsOf((t - (c + 1 - j) * FrameTicks + (c + 1 - j) * ReadTsMod) % ReadTsMod, base)

LEMMA Concealed ==
    ASSUME NEW count \in Nat \ {0}, NEW t \in Int, NEW base \in Int, NEW n \in Int,
           NEW kind \in {"missing", "malformed"}, conceal
    PROVE  /\ capped(count) \in 1 .. count /\ (count <= MaxConceal => capped(count) = count)
           /\ ConcealedFor(concealGap(count, t, base, n, kind), capped(count), t, base, n, kind)
<1>0. PICK c, gap : c = capped(count) /\ gap = concealGap(count, t, base, n, kind)
  OBVIOUS
<1>1. c \in 1 .. count /\ (count <= MaxConceal => c = count)
  BY <1>0, AudioReaderAssumption DEF capped
<1> DEFINE at(i) == (t - i * FrameTicks + i * ReadTsMod) % ReadTsMod
<1> DEFINE frame(i) == [n |-> n - i, kind |-> kind, pts |-> ptsOf(at(i), base)]
<1>2. gap = [j \in 1 .. c |-> frame(c + 1 - j)]
  BY <1>0 DEF concealGap
<1>3. ASSUME NEW i \in Int PROVE frame(i) \in Frame
  <2>1. at(i) \in Int
    <3>1. ReadTsMod \in Nat \ {0} /\ FrameTicks \in Int
      BY AudioReaderAssumption
    <3>2. i * FrameTicks \in Int /\ i * ReadTsMod \in Int
      BY <3>1
    <3>3. t - i * FrameTicks + i * ReadTsMod \in Int
      BY <3>2
    <3> QED
      BY <3>1, <3>3
  <2> HIDE DEF at
  <2>2. ptsOf(at(i), base) \in Int
    BY <2>1, PtsType
  <2> QED
    BY <2>2 DEF Frame
<1>4. \A j \in 1 .. c : frame(c + 1 - j) \in Frame
  <2> SUFFICES ASSUME NEW j \in 1 .. c PROVE frame(c + 1 - j) \in Frame
    OBVIOUS
  <2>1. c + 1 - j \in Int
    BY <1>1
  <2> HIDE DEF frame
  <2> QED
    BY <1>3, <2>1
<1>5. gap \in Seq(Frame) /\ Len(gap) = c
  <2> HIDE DEF frame
  <2>1. gap \in [1 .. c -> Frame] /\ c \in Nat
    BY <1>1, <1>2, <1>4
  <2> QED
    BY <2>1
<1>6. ConcealedFor(gap, c, t, base, n, kind)
  BY <1>1, <1>2, <1>5 DEF ConcealedFor
<1> QED
  BY ONLY <1>0, <1>1, <1>6, Zenon

Filled(g, n, base) == IF g > 0 THEN concealGap(g, timestampOf(n), base, n, "missing") ELSE <<>>

Heard(n, decodes, base) ==
    IF decodes THEN <<[n |-> n, kind |-> "decoded", pts |-> ptsOf(timestampOf(n), base)]>>
    ELSE concealGap(1, timestampOf(n), base, n + 1, "malformed")

\* A run of frames that ends with packet n, each with the time of the packet it stands for.
RunTo(frames, n, base) ==
    /\ frames \in Seq(Frame)
    /\ \A j \in 1 .. Len(frames) :
         /\ frames[j].n = n - Len(frames) + j
         /\ frames[j].kind # "malformed" => frames[j].pts = ptsOf(timestampOf(frames[j].n), base)

LEMMA FilledRun ==
    ASSUME NEW g \in Nat, NEW n \in Nat, NEW base \in Int, conceal \in BOOLEAN
    PROVE  /\ RunTo(Filled(g, n, base), n - 1, base)
           /\ conceal => Len(Filled(g, n, base)) = capped(g)
           /\ ~conceal => Filled(g, n, base) = <<>>
           /\ capped(g) \in 0 .. g /\ (g <= MaxConceal => capped(g) = g)
<1>0. capped(g) \in 0 .. g /\ (g <= MaxConceal => capped(g) = g)
  BY AudioReaderAssumption DEF capped
<1>1. CASE g = 0
  <2>1. Filled(g, n, base) = <<>>
    BY <1>1 DEF Filled
  <2>2. capped(g) = 0
    BY <1>0, <1>1
  <2>3. RunTo(<<>>, n - 1, base) /\ Len(<<>>) = 0
    BY DEF RunTo
  <2> QED
    BY ONLY <1>0, <1>1, <2>1, <2>2, <2>3, Zenon
<1>2. CASE g > 0 /\ ~conceal
  <2>1. Filled(g, n, base) = <<>>
    BY <1>2 DEF Filled, concealGap
  <2> QED
    BY <1>0, <1>2, <2>1 DEF RunTo
<1>3. CASE g > 0 /\ conceal
  <2>1. PICK f : f = concealGap(g, timestampOf(n), base, n, "missing")
    OBVIOUS
  <2>2. PICK c : c = capped(g)
    OBVIOUS
  <2>3. /\ g \in Nat \ {0} /\ timestampOf(n) \in Int /\ n \in Int /\ base \in Int
        /\ "missing" \in {"missing", "malformed"}
    BY <1>3, TimestampType
  <2>4. c \in 1 .. g /\ ConcealedFor(f, c, timestampOf(n), base, n, "missing")
    <3>1. /\ capped(g) \in 1 .. g
          /\ ConcealedFor(concealGap(g, timestampOf(n), base, n, "missing"), capped(g), timestampOf(n), base, n, "missing")
      BY ONLY <1>3, <2>3, Concealed, Zenon
    <3> QED
      BY ONLY <2>1, <2>2, <3>1, Zenon
  <2>5. ASSUME NEW j \in 1 .. c
        PROVE  f[j].n = n - 1 - c + j /\ f[j].pts = ptsOf(timestampOf(f[j].n), base)
    <3>1. PICK i \in Nat : i = c + 1 - j
      BY <2>4
    <3>2. /\ f[j].n = n - i
          /\ f[j].pts = ptsOf((timestampOf(n) - i * FrameTicks + i * ReadTsMod) % ReadTsMod, base)
      BY <2>4, <3>1 DEF ConcealedFor
    <3>3. (timestampOf(n) - i * FrameTicks + i * ReadTsMod) % ReadTsMod = timestampOf(n - i)
      BY ONLY n \in Nat, MissingOnTime, Zenon
    <3>4. f[j].pts = ptsOf(timestampOf(f[j].n), base)
      BY ONLY <3>2, <3>3, Zenon
    <3> QED
      BY <2>4, <3>1, <3>2, <3>4
  <2>6. Filled(g, n, base) = f
    BY <1>3, <2>1 DEF Filled
  <2> QED
    BY <1>0, <1>3, <2>2, <2>4, <2>5, <2>6 DEF RunTo, ConcealedFor
<1> QED
  BY <1>1, <1>2, <1>3

LEMMA HeardRun ==
    ASSUME NEW n \in Nat, NEW base \in Int, NEW decodes \in BOOLEAN, conceal \in BOOLEAN
    PROVE  /\ RunTo(Heard(n, decodes, base), n, base)
           /\ Len(Heard(n, decodes, base)) \in {0, 1}
           /\ conceal => Len(Heard(n, decodes, base)) = 1
<1>0. timestampOf(n) \in Int /\ n + 1 \in Int /\ 1 \in Nat \ {0}
  BY TimestampType
<1>1. CASE decodes
  <2>1. PICK f : f = [n |-> n, kind |-> "decoded", pts |-> ptsOf(timestampOf(n), base)]
    OBVIOUS
  <2>2. f \in Frame /\ f.n = n /\ f.pts = ptsOf(timestampOf(f.n), base)
    BY <1>0, <2>1, PtsType DEF Frame
  <2>3. Heard(n, decodes, base) = <<f>>
    BY <1>1, <2>1 DEF Heard
  <2>4. RunTo(<<f>>, n, base) /\ Len(<<f>>) = 1
    BY <2>2 DEF RunTo
  <2> QED
    BY <2>3, <2>4
<1>2. CASE ~decodes /\ ~conceal
  <2>1. Heard(n, decodes, base) = <<>>
    BY <1>2 DEF Heard, concealGap
  <2>2. RunTo(<<>>, n, base) /\ Len(<<>>) = 0
    BY DEF RunTo
  <2> QED
    BY <1>2, <2>1, <2>2
<1>3. CASE ~decodes /\ conceal
  <2>1. /\ capped(1) \in 1 .. 1
        /\ ConcealedFor(concealGap(1, timestampOf(n), base, n + 1, "malformed"), capped(1),
                        timestampOf(n), base, n + 1, "malformed")
    <3>1. "malformed" \in {"missing", "malformed"} /\ base \in Int
      OBVIOUS
    <3> QED
      BY ONLY <1>0, <1>3, <3>1, Concealed, Zenon
  <2>2. PICK f : f = Heard(n, decodes, base)
    OBVIOUS
  <2>3. capped(1) = 1 /\ ConcealedFor(f, 1, timestampOf(n), base, n + 1, "malformed")
    <3>1. capped(1) = 1
      BY <2>1
    <3>2. f = concealGap(1, timestampOf(n), base, n + 1, "malformed")
      BY <1>3, <2>2 DEF Heard
    <3> QED
      BY ONLY <2>1, <3>1, <3>2, Zenon
  <2>4. /\ f \in Seq(Frame) /\ Len(f) = 1
        /\ \A j \in 1 .. 1 : f[j].n = n + 1 - (1 + 1 - j) /\ f[j].kind = "malformed"
    BY ONLY <2>3 DEF ConcealedFor
  <2>5. RunTo(f, n, base)
    BY <2>4 DEF RunTo
  <2> QED
    BY <2>2, <2>4, <2>5
<1> QED
  BY <1>1, <1>2, <1>3

\* What handle appends for a packet after a gap of g: one run up to the packet.
LEMMA FramesRun ==
    ASSUME NEW g \in Nat, NEW n \in Nat, NEW base \in Int, NEW decodes \in BOOLEAN, conceal \in BOOLEAN,
           NEW added, added = Filled(g, n, base) \o Heard(n, decodes, base)
    PROVE  /\ RunTo(added, n, base) /\ Len(added) <= g + 1
           /\ conceal => Len(added) > 0 /\ (g <= MaxConceal => Len(added) = g + 1)
<1>1. PICK p, q : p = Filled(g, n, base) /\ q = Heard(n, decodes, base)
  OBVIOUS
<1>2. /\ RunTo(p, n - 1, base)
      /\ conceal => Len(p) = capped(g)
      /\ ~conceal => p = <<>>
      /\ capped(g) \in 0 .. g /\ (g <= MaxConceal => capped(g) = g)
  BY <1>1, FilledRun
<1>3. RunTo(q, n, base) /\ Len(q) \in {0, 1} /\ (conceal => Len(q) = 1)
  BY <1>1, HeardRun
<1>4. p \in Seq(Frame) /\ q \in Seq(Frame) /\ added = p \o q
  BY <1>1, <1>2, <1>3 DEF RunTo
<1>5. /\ added \in Seq(Frame) /\ Len(added) = Len(p) + Len(q)
      /\ \A j \in 1 .. Len(added) : added[j] = IF j <= Len(p) THEN p[j] ELSE q[j - Len(p)]
  BY <1>4, ConcatProperties
<1>6. Len(p) \in Nat /\ Len(q) \in Nat /\ (~conceal => Len(p) = 0) /\ (Len(q) = 0 => Len(p) = 0)
  <2>1. Len(p) \in Nat /\ Len(q) \in Nat
    BY ONLY <1>4
  <2>2. p = <<>> => Len(p) = 0
    OBVIOUS
  <2>3. ~conceal => Len(p) = 0
    BY ONLY <1>2, <2>2, Zenon
  <2>4. Len(q) = 0 => ~conceal
    BY ONLY <1>3
  <2> QED
    BY ONLY <2>1, <2>3, <2>4, Zenon
<1>7. ASSUME NEW j \in 1 .. Len(added)
      PROVE  /\ added[j].n = n - Len(added) + j
             /\ added[j].kind # "malformed" => added[j].pts = ptsOf(timestampOf(added[j].n), base)
  <2>1. CASE j <= Len(p)
    <3>1. j \in 1 .. Len(p) /\ added[j] = p[j] /\ Len(q) = 1
      BY <1>3, <1>5, <1>6, <2>1
    <3>2. /\ p[j].n = n - 1 - Len(p) + j
          /\ p[j].kind # "malformed" => p[j].pts = ptsOf(timestampOf(p[j].n), base)
      BY <1>2, <3>1 DEF RunTo
    <3> QED
      BY <1>5, <1>6, <3>1, <3>2
  <2>2. CASE j > Len(p)
    <3>a. PICK a \in Nat, b \in Nat : a = Len(p) /\ b = Len(q)
      BY ONLY <1>6
    <3>b. j \in 1 .. a + b /\ j > a /\ Len(added) = a + b
      BY ONLY <1>5, <2>2, <3>a, j \in 1 .. Len(added)
    <3>c. j - a \in 1 .. b /\ ~(j <= a)
      BY ONLY <3>b, a \in Nat, b \in Nat
    <3>d. added[j] = IF j <= a THEN p[j] ELSE q[j - a]
      BY ONLY <1>5, <3>a, j \in 1 .. Len(added)
    <3>1. PICK i \in 1 .. Len(q) : i = j - Len(p) /\ added[j] = q[i]
      BY ONLY <3>a, <3>c, <3>d, Zenon
    <3>2. /\ q[i].n = n - Len(q) + i
          /\ q[i].kind # "malformed" => q[i].pts = ptsOf(timestampOf(q[i].n), base)
      BY <1>3, <3>1 DEF RunTo
    <3> QED
      BY <1>5, <1>6, <3>1, <3>2
  <2> QED
    BY <1>6, <2>1, <2>2
<1>8. RunTo(added, n, base)
  BY <1>5, <1>7 DEF RunTo
<1>9. Len(added) <= g + 1 /\ (conceal => Len(added) > 0 /\ (g <= MaxConceal => Len(added) = g + 1))
  <2>1. CASE conceal
    <3>1. Len(p) = capped(g) /\ Len(q) = 1 /\ Len(added) = Len(p) + Len(q)
      BY ONLY <1>2, <1>3, <1>5, <2>1, Zenon
    <3>2. PICK c \in 0 .. g : c = Len(p) /\ (g <= MaxConceal => c = g)
      BY ONLY <1>2, <3>1, Zenon
    <3>3. Len(added) = c + 1
      BY ONLY <3>1, <3>2
    <3> QED
      BY ONLY <3>2, <3>3, g \in Nat
  <2>2. CASE ~conceal
    BY ONLY <1>3, <1>5, <1>6, <2>2, g \in Nat
  <2> QED
    BY ONLY <2>1, <2>2, Zenon
<1> QED
  BY <1>8, <1>9

\* The network is less than half a round late.
InWindow ==
    \A n \in inFlight : /\ n \in Nat /\ n < startSeq + readSent
                        /\ startSeq + readSent < n + ReadSeqMod \div 2

\* e is the packet expected next: everything heard is before it, and with concealment
\* on the one before it was the last.
HeardUpTo(e) ==
    /\ e <= startSeq + readSent /\ expectedSeq = e % ReadSeqMod
    /\ \A i \in 1 .. Len(pcm) : pcm[i].n < e
    /\ conceal => Len(pcm) > 0 /\ pcm[Len(pcm)].n = e - 1

ReaderInv ==
    /\ startSeq \in Nat /\ readSent \in Nat /\ conceal \in BOOLEAN /\ haveSeq \in BOOLEAN
    /\ baseTimestamp \in Int /\ resets \in Nat /\ pcm \in Seq(Frame)
    /\ InWindow
    /\ haveSeq => haveBase /\ \E e \in Nat : HeardUpTo(e)
    /\ ~haveSeq => pcm = <<>>
    /\ AudioInOrder

\* Appending a run that starts after everything heard keeps the order, and leaves
\* at most one more hole, in front of it.
LEMMA RunAppended ==
    ASSUME ReaderInv, NEW n \in Nat, NEW added, pcm' = pcm \o added,
           RunTo(added, n, baseTimestamp'),
           \A i \in 1 .. Len(pcm) : pcm[i].n <= n - Len(added),
           pcm # <<>> => baseTimestamp' = baseTimestamp,
           conceal' = conceal, resets' \in {resets, resets + 1},
           conceal /\ pcm # <<>> /\ resets' = resets =>
               (n - Len(added) - pcm[Len(pcm)].n) % ReadSeqMod = 0
    PROVE  pcm' \in Seq(Frame) /\ AudioInOrder'
<1>1. /\ pcm \in Seq(Frame) /\ added \in Seq(Frame) /\ resets \in Nat
      /\ \A j \in 1 .. Len(added) : added[j].n = n - Len(added) + j
      /\ \A j \in 1 .. Len(added) : added[j].kind # "malformed" =>
           added[j].pts = ptsOf(timestampOf(added[j].n), baseTimestamp')
  BY DEF ReaderInv, RunTo
<1>2. PICK p \in Nat, l \in Nat : p = Len(pcm) /\ l = Len(added)
  BY ONLY <1>1, LenProperties
<1>3. /\ pcm' \in Seq(Frame) /\ Len(pcm') = p + l
      /\ \A i \in 1 .. p : pcm'[i] = pcm[i]
      /\ \A j \in 1 .. l : pcm'[p + j] = added[j]
  <2>1. /\ pcm' \in Seq(Frame) /\ Len(pcm') = p + l
        /\ \A i \in 1 .. p + l : pcm'[i] = IF i <= p THEN pcm[i] ELSE added[i - p]
    BY <1>1, <1>2, ConcatProperties
  <2>2. ASSUME NEW i \in 1 .. p PROVE pcm'[i] = pcm[i]
    BY ONLY <2>1
  <2>3. ASSUME NEW j \in 1 .. l PROVE pcm'[p + j] = added[j]
    <3>1. p + j \in 1 .. p + l /\ ~(p + j <= p) /\ p + j - p = j
      OBVIOUS
    <3> QED
      BY ONLY <2>1, <3>1
  <2> QED
    BY ONLY <2>1, <2>2, <2>3
<1>4. /\ \A i \in 1 .. p : pcm[i] \in Frame /\ pcm[i].n \in Int /\ pcm[i].n <= n - l
      /\ \A i \in 1 .. p : i > 1 => pcm[i - 1].n < pcm[i].n
      /\ \A i \in 1 .. p : pcm[i].kind # "malformed" => OnTime(pcm[i])
      /\ DOMAIN pcm = 1 .. p /\ DOMAIN pcm' = 1 .. p + l
  <2>1. DOMAIN pcm = 1 .. p /\ DOMAIN pcm' = 1 .. p + l
    BY <1>1, <1>2, <1>3
  <2>2. \A i \in 1 .. p : pcm[i] \in Frame /\ pcm[i].n \in Int /\ pcm[i].n <= n - l
    <3> SUFFICES ASSUME NEW i \in 1 .. p PROVE pcm[i] \in Frame /\ pcm[i].n \in Int /\ pcm[i].n <= n - l
      OBVIOUS
    <3>1. pcm[i] \in Frame
      BY ONLY <1>1, <1>2, ElementOfSeq
    <3>2. pcm[i].n \in Int
      BY ONLY <3>1 DEF Frame
    <3> QED
      BY <1>2, <3>1, <3>2
  <2> QED
    BY <2>1, <2>2 DEF ReaderInv, AudioInOrder
<1>5. p > 0 <=> pcm # <<>>
  BY <1>1, <1>2
<1>6. ASSUME NEW i \in 1 .. p + l, i > 1
      PROVE  /\ pcm'[i - 1].n < pcm'[i].n
             /\ i <= p => pcm'[i - 1] = pcm[i - 1] /\ pcm'[i] = pcm[i]
             /\ i = p + 1 => pcm'[i].n - pcm'[i - 1].n - 1 = n - l - pcm[p].n
             /\ i > p + 1 => pcm'[i].n - pcm'[i - 1].n - 1 = 0
  <2>1. CASE i <= p
    <3>1. i \in 1 .. p /\ i - 1 \in 1 .. p
      BY <1>6, <2>1
    <3>2. pcm'[i - 1] = pcm[i - 1] /\ pcm'[i] = pcm[i] /\ pcm[i - 1].n < pcm[i].n
      BY ONLY <1>3, <1>4, <1>6, <3>1
    <3> QED
      BY ONLY <2>1, <3>1, <3>2
  <2>2. CASE i = p + 1
    <3>1. p \in 1 .. p /\ 1 \in 1 .. l /\ i - 1 = p
      BY <1>6, <2>2
    <3>2. pcm'[i - 1] = pcm[p] /\ pcm'[i] = added[1] /\ added[1].n = n - l + 1
      BY ONLY <1>1, <1>2, <1>3, <2>2, <3>1
    <3>3. pcm[p].n \in Int /\ pcm[p].n <= n - l
      BY ONLY <1>4, <3>1
    <3>4. PICK x \in Int : x = pcm[p].n
      BY ONLY <3>3
    <3>5. pcm'[i - 1].n = x /\ pcm'[i].n = n - l + 1 /\ x <= n - l
      BY ONLY <3>2, <3>3, <3>4
    <3> QED
      BY ONLY <2>2, <3>4, <3>5, n \in Nat
  <2>3. CASE i > p + 1
    <3>a. PICK j \in Int : j = i - p
      BY ONLY i \in 1 .. p + l, p \in Nat
    <3>1. j \in 1 .. l /\ i = p + j /\ j > 1 /\ j - 1 \in 1 .. l
      BY ONLY <2>3, <3>a, i \in 1 .. p + l, p \in Nat, l \in Nat
    <3>2. pcm'[i] = added[j] /\ pcm'[i - 1] = added[j - 1]
      <4>1. i - 1 = p + (j - 1)
        BY ONLY <3>1
      <4> QED
        BY ONLY <1>3, <3>1, <4>1
    <3>3. pcm'[i].n = n - l + j /\ pcm'[i - 1].n = n - l + (j - 1)
      BY ONLY <1>1, <1>2, <3>1, <3>2
    <3> QED
      BY ONLY <2>3, <3>1, <3>3, n \in Nat
  <2>4. i <= p \/ i = p + 1 \/ i > p + 1
    OBVIOUS
  <2> QED
    BY ONLY <2>1, <2>2, <2>3, <2>4, Zenon
<1>7. ASSUME NEW i \in 1 .. p + l, pcm'[i].kind # "malformed"
      PROVE  pcm'[i].pts = ptsOf(timestampOf(pcm'[i].n), baseTimestamp')
  <2>1. CASE i <= p
    <3>1. i \in 1 .. p /\ pcm'[i] = pcm[i] /\ p > 0
      BY ONLY <1>3, <2>1
    <3>2. baseTimestamp' = baseTimestamp
      BY <1>5, <3>1
    <3> QED
      BY ONLY <1>4, <3>1, <3>2, <1>7 DEF OnTime
  <2>2. CASE i > p
    <3>1. PICK j \in 1 .. l : i = p + j
      BY ONLY <2>2
    <3>2. pcm'[i] = added[j]
      BY ONLY <1>3, <3>1
    <3> QED
      BY ONLY <1>1, <1>2, <3>1, <3>2, <1>7
  <2> QED
    BY ONLY <2>1, <2>2
<1>8. ASSUME conceal PROVE Cardinality(Holes') <= resets'
  <2>1. IsFiniteSet(Holes) /\ Cardinality(Holes) \in Nat /\ Cardinality(Holes) <= resets
    <3>1. IsFiniteSet(1 .. p)
      BY FS_Interval
    <3>2. Holes \subseteq 1 .. p
      BY <1>4 DEF Holes
    <3>3. IsFiniteSet(Holes)
      BY ONLY <3>1, <3>2, FS_Subset
    <3>4. Cardinality(Holes) \in Nat
      BY ONLY <3>3, FS_CardinalityType
    <3> QED
      BY <1>8, <3>3, <3>4 DEF ReaderInv, AudioInOrder
  <2>2. ASSUME NEW i \in Holes' PROVE i \in Holes \/ (i = p + 1 /\ resets' # resets)
    <3>1. i \in 1 .. p + l /\ i > 1 /\ (pcm'[i].n - pcm'[i - 1].n - 1) % ReadSeqMod # 0
      BY <1>4, <2>2 DEF Holes
    <3>2. CASE i <= p
      <4>1. i \in 1 .. p /\ pcm'[i - 1] = pcm[i - 1] /\ pcm'[i] = pcm[i]
        BY ONLY <1>6, <3>1, <3>2
      <4> QED
        BY ONLY <1>4, <3>1, <4>1 DEF Holes
    <3>3. CASE i = p + 1
      <4>1. pcm'[i].n - pcm'[i - 1].n - 1 = n - l - pcm[p].n
        BY ONLY <1>6, <3>1, <3>3
      <4>2. (n - l - pcm[p].n) % ReadSeqMod # 0
        BY ONLY <3>1, <4>1, Zenon
      <4>3. pcm # <<>>
        BY <1>5, <3>1, <3>3
      <4> QED
        BY <1>2, <1>8, <3>3, <4>2, <4>3
    <3>4. CASE i > p + 1
      <4>1. pcm'[i].n - pcm'[i - 1].n - 1 = 0
        BY ONLY <1>6, <3>1, <3>4
      <4>2. 0 % ReadSeqMod = 0
        BY AudioReaderAssumption
      <4> QED
        BY ONLY <3>1, <4>1, <4>2, Zenon
    <3> QED
      BY <3>1, <3>2, <3>3, <3>4
  <2>3. CASE resets' = resets
    <3>1. Holes' \subseteq Holes
      BY <2>2, <2>3
    <3>2. Cardinality(Holes') <= Cardinality(Holes) /\ Cardinality(Holes') \in Nat
      BY ONLY <2>1, <3>1, FS_Subset, FS_CardinalityType
    <3> QED
      BY ONLY <1>1, <2>1, <2>3, <3>2
  <2>4. CASE resets' = resets + 1
    <3>1. Holes' \subseteq Holes \cup {p + 1}
      BY <2>2
    <3>2. /\ IsFiniteSet(Holes \cup {p + 1})
          /\ Cardinality(Holes \cup {p + 1}) \in {Cardinality(Holes), Cardinality(Holes) + 1}
      BY ONLY <2>1, FS_AddElement
    <3>3. /\ Cardinality(Holes') <= Cardinality(Holes \cup {p + 1})
          /\ Cardinality(Holes') \in Nat
      BY ONLY <3>1, <3>2, FS_Subset, FS_CardinalityType
    <3> QED
      BY ONLY <1>1, <2>1, <2>4, <3>2, <3>3
  <2> QED
    BY <2>3, <2>4
<1> QED
  BY <1>3, <1>4, <1>6, <1>7, <1>8, Zenon DEF AudioInOrder, OnTime

\* handle drops a packet as late.
LEMMA LateKeeps ==
    ASSUME ReaderInv, haveSeq, UNCHANGED <<startSeq, readSent, conceal, expectedSeq, haveSeq, resets, pcm>>,
           baseTimestamp' = baseTimestamp, haveBase' = TRUE, InWindow'
    PROVE  ReaderInv'
<1>1. AudioInOrder'
  BY DEF ReaderInv, AudioInOrder, OnTime, Holes
<1>2. PICK e \in Nat : HeardUpTo(e)
  BY DEF ReaderInv
<1>3. HeardUpTo(e)'
  BY <1>2 DEF HeardUpTo
<1> QED
  BY <1>1, <1>3 DEF ReaderInv

\* handle takes packet n after a gap of g.
LEMMA TakenKeeps ==
    ASSUME ReaderInv, NEW n \in Nat, NEW g \in Nat, NEW decodes \in BOOLEAN,
           n < startSeq + readSent,
           haveSeq => \E e \in Nat : HeardUpTo(e) /\ g <= n - e /\ (n - e - g) % ReadSeqMod = 0,
           UNCHANGED <<startSeq, readSent, conceal>>, InWindow',
           baseTimestamp' = (IF haveBase THEN baseTimestamp ELSE timestampOf(n)), haveBase' = TRUE,
           expectedSeq' = (seqOf(n) + 1) % ReadSeqMod, haveSeq' = TRUE,
           resets' = (IF conceal /\ g > MaxConceal THEN resets + 1 ELSE resets),
           pcm' = pcm \o Filled(g, n, baseTimestamp') \o Heard(n, decodes, baseTimestamp')
    PROVE  ReaderInv'
<1>1. /\ startSeq \in Nat /\ readSent \in Nat /\ conceal \in BOOLEAN /\ haveSeq \in BOOLEAN
      /\ baseTimestamp \in Int /\ resets \in Nat /\ pcm \in Seq(Frame)
      /\ (pcm # <<>> => haveSeq /\ haveBase)
  BY DEF ReaderInv
<1>2. PICK base \in Int : base = baseTimestamp'
  <2>1. timestampOf(n) \in Int
    BY TimestampType
  <2> QED
    BY <1>1, <2>1
<1>3. PICK added : added = Filled(g, n, base) \o Heard(n, decodes, base)
  OBVIOUS
<1>4. /\ RunTo(added, n, base) /\ Len(added) <= g + 1
      /\ conceal => Len(added) > 0 /\ (g <= MaxConceal => Len(added) = g + 1)
  BY <1>1, <1>3, FramesRun
<1>5. added \in Seq(Frame) /\ Len(added) \in Nat /\ Len(pcm) \in Nat
  BY <1>1, <1>4 DEF RunTo
<1>6. pcm' = pcm \o added
  <2>1. Filled(g, n, base) \in Seq(Frame) /\ Heard(n, decodes, base) \in Seq(Frame)
    BY <1>1, FilledRun, HeardRun DEF RunTo
  <2>2. pcm' = (pcm \o Filled(g, n, base)) \o Heard(n, decodes, base)
    BY <1>2
  <2>3. PICK f \in Seq(Frame), h \in Seq(Frame) : f = Filled(g, n, base) /\ h = Heard(n, decodes, base)
    BY ONLY <2>1, Zenon
  <2>4. pcm \in Seq(Frame)
    BY ONLY <1>1
  <2>5. (pcm \o f) \o h = pcm \o (f \o h)
    BY ONLY <2>4, ConcatAssociative
  <2> QED
    BY ONLY <1>3, <2>2, <2>3, <2>5, Zenon
<1>7. \A i \in 1 .. Len(pcm) : pcm[i].n \in Int
  <2>1. \A i \in 1 .. Len(pcm) : pcm[i] \in Frame
    BY ONLY <1>1, ElementOfSeq
  <2> QED
    BY ONLY <2>1 DEF Frame
<1>8. ASSUME pcm # <<>>
      PROVE  /\ \A i \in 1 .. Len(pcm) : pcm[i].n <= n - Len(added)
             /\ conceal /\ resets' = resets => (n - Len(added) - pcm[Len(pcm)].n) % ReadSeqMod = 0
  <2>1. PICK e \in Nat : HeardUpTo(e) /\ g <= n - e /\ (n - e - g) % ReadSeqMod = 0
    BY <1>1, <1>8
  <2>2. \A i \in 1 .. Len(pcm) : pcm[i].n < e
    BY ONLY <2>1 DEF HeardUpTo
  <2>3. \A i \in 1 .. Len(pcm) : pcm[i].n <= n - Len(added)
    <3>1. Len(added) <= g + 1 /\ g <= n - e
      BY ONLY <1>4, <2>1
    <3>2. e <= n - Len(added) + 1
      BY ONLY <1>5, <3>1, n \in Nat, g \in Nat
    <3> QED
      BY ONLY <1>5, <1>7, <2>2, <3>2, n \in Nat
  <2>4. ASSUME conceal, resets' = resets
        PROVE  (n - Len(added) - pcm[Len(pcm)].n) % ReadSeqMod = 0
    <3>1. g <= MaxConceal
      BY <1>1, <2>4, AudioReaderAssumption
    <3>2. Len(added) = g + 1 /\ pcm[Len(pcm)].n = e - 1
      BY <1>4, <2>1, <2>4, <3>1 DEF HeardUpTo
    <3>3. n - Len(added) - pcm[Len(pcm)].n = n - e - g
      BY ONLY <3>2, n \in Nat, g \in Nat
    <3> QED
      BY ONLY <2>1, <3>3, Zenon
  <2> QED
    BY <2>3, <2>4
<1>9. pcm' \in Seq(Frame) /\ AudioInOrder'
  <2>1. \A i \in 1 .. Len(pcm) : pcm[i].n <= n - Len(added)
    <3>1. CASE pcm = <<>>
      BY <3>1
    <3> QED
      BY <1>8, <3>1
  <2>2. pcm # <<>> => baseTimestamp' = baseTimestamp
    BY <1>1
  <2>3. resets' \in {resets, resets + 1}
    OBVIOUS
  <2>4. conceal /\ pcm # <<>> /\ resets' = resets =>
            (n - Len(added) - pcm[Len(pcm)].n) % ReadSeqMod = 0
    BY <1>8
  <2>5. RunTo(added, n, baseTimestamp') /\ conceal' = conceal
    BY <1>2, <1>4
  <2> QED
    BY <1>6, <2>1, <2>2, <2>3, <2>4, <2>5, RunAppended
<1>10. PICK e \in Nat : e = n + 1
  OBVIOUS
<1>11. HeardUpTo(e)'
  <2>1. expectedSeq' = (n + 1) % ReadSeqMod
    BY NextSeq
  <2>2. PICK p \in Nat, l \in Nat : p = Len(pcm) /\ l = Len(added)
    BY ONLY <1>5
  <2>3. /\ Len(pcm') = p + l
        /\ \A i \in 1 .. p + l : pcm'[i] = IF i <= p THEN pcm[i] ELSE added[i - p]
    BY ONLY <1>1, <1>5, <1>6, <2>2, ConcatProperties
  <2>4. \A j \in 1 .. l : added[j].n = n - l + j
    BY ONLY <1>4, <2>2 DEF RunTo
  <2>5. ASSUME NEW i \in 1 .. p + l PROVE pcm'[i].n < n + 1
    <3>1. CASE i <= p
      <4>1. i \in 1 .. p /\ pcm'[i] = pcm[i]
        BY ONLY <2>3, <3>1
      <4>2. pcm # <<>>
        BY <2>2, <4>1
      <4>3. pcm[i].n <= n - l /\ pcm[i].n \in Int
        BY <1>7, <1>8, <2>2, <4>1, <4>2
      <4> QED
        BY ONLY <4>1, <4>3, n \in Nat
    <3>2. CASE i > p
      <4>1. PICK j \in 1 .. l : j = i - p /\ pcm'[i] = added[j]
        BY ONLY <2>3, <3>2
      <4> QED
        BY ONLY <2>4, <4>1, n \in Nat
    <3> QED
      BY ONLY <3>1, <3>2
  <2>6. ASSUME conceal PROVE Len(pcm') > 0 /\ pcm'[Len(pcm')].n = n
    <3>1. l > 0
      BY <1>4, <2>2, <2>6
    <3>2. p + l \in 1 .. p + l /\ l \in 1 .. l /\ p + l - p = l /\ ~(p + l <= p)
      BY ONLY <3>1
    <3>3. pcm'[p + l] = added[l]
      BY ONLY <2>3, <3>2
    <3> QED
      BY ONLY <2>3, <2>4, <3>2, <3>3, n \in Nat
  <2>7. e <= startSeq' + readSent' /\ expectedSeq' = e % ReadSeqMod
    BY <1>1, <1>10, <2>1
  <2>8. conceal' => Len(pcm') > 0 /\ pcm'[Len(pcm')].n = e - 1
    <3>1. e - 1 = n
      BY <1>10
    <3> QED
      BY <2>6, <3>1
  <2>9. \A i \in 1 .. Len(pcm') : pcm'[i].n < e
    BY ONLY <1>10, <2>3, <2>5, Zenon
  <2> QED
    BY ONLY <2>7, <2>8, <2>9, Zenon DEF HeardUpTo
<1>12. resets' \in Nat /\ baseTimestamp' \in Int
  BY <1>1, <1>2
<1> QED
  BY <1>1, <1>9, <1>11, <1>12, Zenon DEF ReaderInv

LEMMA ReaderInvInit == ReaderInit => ReaderInv
<1> SUFFICES ASSUME ReaderInit PROVE ReaderInv
  OBVIOUS
<1>1. /\ startSeq \in Nat /\ readSent = 0 /\ inFlight = {} /\ conceal \in BOOLEAN
      /\ haveSeq = FALSE /\ baseTimestamp = 0 /\ resets = 0 /\ pcm = <<>>
  BY AudioReaderAssumption DEF ReaderInit
<1>2. DOMAIN pcm = {} /\ Holes = {} /\ pcm \in Seq(Frame)
  BY <1>1 DEF Holes
<1>3. Cardinality(Holes) = 0
  BY <1>2, FS_EmptySet
<1>4. AudioInOrder
  BY <1>1, <1>2, <1>3 DEF AudioInOrder
<1>5. InWindow
  BY <1>1 DEF InWindow
<1>6. readSent \in Nat /\ resets \in Nat /\ baseTimestamp \in Int
  <2>1. readSent = 0 /\ resets = 0 /\ baseTimestamp = 0
    BY ONLY <1>1, Zenon
  <2> QED
    BY ONLY <2>1
<1>7. haveSeq \in BOOLEAN
  BY ONLY <1>1, Zenon
<1> QED
  BY ONLY <1>1, <1>2, <1>4, <1>5, <1>6, <1>7, Zenon DEF ReaderInv

LEMMA ReaderInvStep == ReaderInv /\ [ReaderNext]_readerVars => ReaderInv'
<1> SUFFICES ASSUME ReaderInv, [ReaderNext]_readerVars PROVE ReaderInv'
  OBVIOUS
<1>0. /\ startSeq \in Nat /\ readSent \in Nat /\ conceal \in BOOLEAN /\ haveSeq \in BOOLEAN
      /\ baseTimestamp \in Int /\ resets \in Nat
  BY DEF ReaderInv
<1>1. ASSUME UNCHANGED <<startSeq, conceal, expectedSeq, haveSeq, baseTimestamp, haveBase, resets, pcm>>,
             readSent' \in Nat, readSent' >= readSent, InWindow'
      PROVE  ReaderInv'
  <2>1. AudioInOrder'
    BY <1>1 DEF ReaderInv, AudioInOrder, OnTime, Holes
  <2>2. ASSUME NEW e \in Nat, HeardUpTo(e) PROVE HeardUpTo(e)'
    BY <1>0, <1>1, <2>2 DEF HeardUpTo
  <2> QED
    BY <1>1, <2>1, <2>2, Zenon DEF ReaderInv
<1>2. CASE SendPacket
  <2>1. InWindow'
    <3> SUFFICES ASSUME NEW m \in inFlight'
                 PROVE  /\ m \in Nat /\ m < startSeq' + readSent'
                        /\ startSeq' + readSent' < m + ReadSeqMod \div 2
      BY DEF InWindow
    <3>1. /\ startSeq' = startSeq /\ readSent' = readSent + 1
          /\ m \in inFlight \cup {startSeq + readSent}
          /\ m + ReadSeqMod \div 2 > startSeq + readSent + 1
      BY <1>2 DEF SendPacket, fixedVars
    <3>2. m \in Nat /\ m <= startSeq + readSent
      BY <1>0, <3>1 DEF ReaderInv, InWindow
    <3> QED
      BY <1>0, <3>1, <3>2, AudioReaderAssumption
  <2> QED
    BY <1>0, <1>1, <1>2, <2>1 DEF SendPacket, fixedVars
<1>3. ASSUME NEW n \in inFlight, NEW decodes \in BOOLEAN, ReadPacket(n, decodes) PROVE ReaderInv'
  <2>1. /\ n \in Nat /\ n < startSeq + readSent
        /\ startSeq + readSent < n + ReadSeqMod \div 2
    BY DEF ReaderInv, InWindow
  <2>2. UNCHANGED <<startSeq, readSent, conceal>> /\ handle(n, decodes) /\ inFlight' \subseteq inFlight
    BY <1>3 DEF ReadPacket, fixedVars
  <2>3. InWindow'
    BY <2>2 DEF ReaderInv, InWindow
  <2>4. PICK g : g = IF haveSeq THEN gapOf(seqOf(n)) ELSE 0
    OBVIOUS
  <2>5. PICK base : base = IF haveBase THEN baseTimestamp ELSE timestampOf(n)
    OBVIOUS
  <2>6. /\ baseTimestamp' = base /\ haveBase' = TRUE
        /\ IF haveSeq /\ tooLate(g)
           THEN UNCHANGED <<expectedSeq, haveSeq, resets, pcm>>
           ELSE /\ expectedSeq' = (seqOf(n) + 1) % ReadSeqMod /\ haveSeq' = TRUE
                /\ resets' = IF conceal /\ g > MaxConceal THEN resets + 1 ELSE resets
                /\ pcm' = pcm \o Filled(g, n, base) \o Heard(n, decodes, base)
    BY ONLY <2>2, <2>4, <2>5, Zenon DEF handle, Filled, Heard
  <2>7. CASE haveSeq /\ tooLate(g)
    <3>1. baseTimestamp' = baseTimestamp
      BY <2>5, <2>6, <2>7 DEF ReaderInv
    <3> QED
      BY <2>2, <2>3, <2>6, <2>7, <3>1, LateKeeps
  <2>8. CASE ~(haveSeq /\ tooLate(g))
    <3>1. /\ g \in Nat
          /\ haveSeq => \E e \in Nat : HeardUpTo(e) /\ g <= n - e /\ (n - e - g) % ReadSeqMod = 0
      <4>1. CASE ~haveSeq
        BY <2>4, <4>1
      <4>2. CASE haveSeq
        <5>1. PICK e \in Nat : HeardUpTo(e)
          BY <4>2 DEF ReaderInv
        <5>2. g = (n - e) % ReadSeqMod
          BY <2>1, <2>4, <4>2, <5>1, GapOf DEF HeardUpTo
        <5>3. /\ g \in Nat
              /\ n < e /\ e < n + ReadSeqMod \div 2 => tooLate(g)
              /\ n >= e => g <= n - e /\ (n - e - g) % ReadSeqMod = 0
          BY ONLY <2>1, <5>2, GapSize, Zenon
        <5>4. ~tooLate(g)
          BY <2>8, <4>2
        <5>5. e <= startSeq + readSent
          BY <5>1 DEF HeardUpTo
        <5>6. ReadSeqMod \div 2 \in Nat
          BY AudioReaderAssumption
        <5>7. e < n + ReadSeqMod \div 2
          BY ONLY <1>0, <2>1, <5>5, <5>6
        <5>8. n >= e
          BY ONLY <2>1, <5>3, <5>4, <5>7
        <5> QED
          BY <5>1, <5>3, <5>8
      <4> QED
        BY <4>1, <4>2
    <3> QED
      BY <2>1, <2>2, <2>3, <2>5, <2>6, <2>8, <3>1, TakenKeeps
  <2> QED
    BY ONLY <2>7, <2>8, Zenon
<1>4. CASE UNCHANGED readerVars
  <2>1. InWindow'
    BY <1>4 DEF readerVars, ReaderInv, InWindow
  <2> QED
    BY <1>0, <1>1, <1>4, <2>1 DEF readerVars
<1> QED
  BY <1>2, <1>3, <1>4 DEF ReaderNext

\* TrackReader.handle and concealGap: whatever the widths of the sequence numbers and
\* timestamps, however many packets are sent, and whichever of them are lost, delayed,
\* repeated or malformed, the application hears them in order, each with its own time,
\* and without a gap the numbers show unless the decoder was reset.
THEOREM AudioInOrderCorrect == ReaderSpec => []AudioInOrder
<1>1. ReaderInv => AudioInOrder
  BY DEF ReaderInv
<1> QED
  BY <1>1, ReaderInvInit, ReaderInvStep, PTL DEF ReaderSpec

(***************************************************************************)
(* RtcStats.                                                               *)
(***************************************************************************)

\* A function defined by steps along 0 .. n exists.
StepsAlong(n, S, base, F) ==
    \E g \in [0 .. n -> S] : g[0] = base /\ \A i \in 1 .. n : g[i] = F[<<i, g[i - 1]>>]

LEMMA StepsExist ==
    ASSUME NEW n \in Nat, NEW S, NEW base \in S, NEW F \in [(1 .. n) \X S -> S]
    PROVE  StepsAlong(n, S, base, F)
<1> DEFINE P(m) == \E g \in [0 .. m -> S] : g[0] = base /\ \A i \in 1 .. m : g[i] = F[<<i, g[i - 1]>>]
<1> DEFINE Off == {m \in Nat : m <= n /\ ~P(m)}
<1> SUFFICES ASSUME ~P(n) PROVE FALSE
  BY DEF StepsAlong
<1>1. PICK m \in Off : \A k \in Off : m <= k
  <2>1. Off \in SUBSET Nat /\ n \in Off
    OBVIOUS
  <2> HIDE DEF Off
  <2> QED
    BY <2>1, LeastOf
<1>2. m \in Nat /\ m <= n /\ ~P(m)
  OBVIOUS
<1>3. P(0)
  <2>1. PICK g : g = [i \in 0 .. 0 |-> base]
    OBVIOUS
  <2>2. g \in [0 .. 0 -> S] /\ g[0] = base /\ \A i \in 1 .. 0 : FALSE
    BY <2>1
  <2> QED
    BY <2>2
<1>4. PICK k \in Nat : k + 1 = m
  <2>1. m # 0
    BY <1>2, <1>3
  <2>2. m - 1 \in Nat /\ (m - 1) + 1 = m
    BY <1>2, <2>1
  <2> QED
    BY <2>2
<1>5. PICK g \in [0 .. k -> S] : g[0] = base /\ \A i \in 1 .. k : g[i] = F[<<i, g[i - 1]>>]
  <2>1. k \notin Off
    BY <1>1, <1>4
  <2> QED
    BY <1>2, <1>4, <2>1
<1>6. PICK h : h = [i \in 0 .. m |-> IF i = m THEN F[<<m, g[k]>>] ELSE g[i]]
  OBVIOUS
<1>7. h \in [0 .. m -> S]
  <2>1. \A i \in 0 .. m : i = m \/ i \in 0 .. k
    BY <1>2, <1>4
  <2>2. k \in 0 .. k /\ m \in 1 .. n
    BY <1>2, <1>4
  <2>3. F[<<m, g[k]>>] \in S
    BY <2>2
  <2> QED
    BY <1>6, <2>1, <2>3
<1>8. h[0] = base
  <2>1. 0 \in 0 .. m /\ 0 # m
    BY <1>4
  <2> QED
    BY <1>5, <1>6, <2>1
<1>9. ASSUME NEW i \in 1 .. m PROVE h[i] = F[<<i, h[i - 1]>>]
  <2>1. i - 1 \in 0 .. k /\ i - 1 # m /\ i - 1 \in 0 .. m /\ i \in 0 .. m
    BY <1>4
  <2>2. h[i - 1] = g[i - 1]
    BY <1>6, <2>1
  <2>3. CASE i = m
    <3>1. i - 1 = k
      BY <1>4, <2>3
    <3>2. h[m] = F[<<m, g[k]>>]
      BY <1>6, <2>1, <2>3
    <3> QED
      BY <2>2, <2>3, <3>1, <3>2
  <2>4. CASE i # m
    <3>1. i \in 1 .. k
      BY <1>4, <2>4
    <3>2. h[i] = g[i]
      BY <1>6, <2>1, <2>4
    <3> QED
      BY <1>5, <2>2, <3>1, <3>2
  <2> QED
    BY <2>3, <2>4
<1> QED
  BY <1>2, <1>7, <1>8, <1>9

Stats == UNION {[S -> [v : Nat, ts : Nat \ {0}]] : S \in SUBSET ReportId}

LEMMA StatsParts ==
    ASSUME NEW f \in Stats
    PROVE  /\ DOMAIN f \in SUBSET ReportId /\ f \in [DOMAIN f -> [v : Nat, ts : Nat \ {0}]]
           /\ f = [r \in DOMAIN f |-> f[r]]
BY DEF Stats

\* A receiver that has the baseline gets the new stats.
LEMMA RoundTrip ==
    ASSUME NEW old \in Stats, NEW new \in Stats
    PROVE  applied(old, compressed(old, new), maxTimestamp(new)) = new
<1>1. PICK m : m = maxTimestamp(new)
  OBVIOUS
<1>2. PICK d : d = compressed(old, new)
  OBVIOUS
<1>3. DOMAIN d = DOMAIN new
  BY <1>2 DEF compressed
<1>4. PICK a : a = applied(old, d, m)
  OBVIOUS
<1>5. DOMAIN a = DOMAIN new /\ a = [r \in DOMAIN new |-> a[r]]
  BY <1>3, <1>4 DEF applied
<1>6. ASSUME NEW r \in DOMAIN new PROVE a[r] = new[r]
  <2>1. PICK v \in Nat, t \in Nat \ {0} : new[r] = [v |-> v, ts |-> t]
    BY StatsParts
  <2>2. d[r] = [v |-> IF r \in DOMAIN old /\ old[r].v = new[r].v THEN Absent ELSE new[r].v,
                ts |-> IF r \in DOMAIN old /\ old[r].ts = new[r].ts THEN Absent
                       ELSE IF new[r].ts = m THEN 0 ELSE new[r].ts]
    BY <1>1, <1>2 DEF compressed
  <2>3. a[r] = [v |-> IF d[r].v = Absent THEN (IF r \in DOMAIN old THEN old[r].v ELSE Absent) ELSE d[r].v,
                ts |-> IF d[r].ts = Absent THEN (IF r \in DOMAIN old THEN old[r].ts ELSE Absent)
                       ELSE IF d[r].ts = 0 THEN m ELSE d[r].ts]
    BY <1>3, <1>4 DEF applied
  <2>4. new[r].v = v /\ new[r].ts = t
    BY <2>1
  <2>5. /\ d[r].v = IF r \in DOMAIN old /\ old[r].v = v THEN Absent ELSE v
        /\ d[r].ts = IF r \in DOMAIN old /\ old[r].ts = t THEN Absent ELSE IF t = m THEN 0 ELSE t
    BY <2>2, <2>4
  <2>6. a[r].v = v /\ a[r].ts = t /\ a[r] = [v |-> a[r].v, ts |-> a[r].ts]
    BY <2>3, <2>5 DEF Absent
  <2> QED
    BY <2>1, <2>6
<1>7. new = [r \in DOMAIN new |-> new[r]]
  BY StatsParts
<1> QED
  BY <1>1, <1>2, <1>4, <1>5, <1>6, <1>7

\* r is l with e at place k.
Spliced(r, l, k, e) ==
    /\ Len(r) = Len(l) + 1
    /\ \A i \in 1 .. Len(l) + 1 : r[i] = IF i < k THEN l[i] ELSE IF i = k THEN e ELSE l[i - 1]

LEMMA InsertAtParts ==
    ASSUME NEW S, NEW s \in Seq(S), NEW e \in S, NEW k \in 1 .. Len(s) + 1, NEW r, r = InsertAt(s, k, e)
    PROVE  r \in Seq(S) /\ Spliced(r, s, k, e)
<1>1. PICK n \in Nat : n = Len(s)
  BY LenProperties
<1>2. \A i \in 1 .. n : s[i] \in S
  BY <1>1, ElementOfSeq
<1>3. PICK a : a = SubSeq(s, 1, k - 1)
  OBVIOUS
<1>4. PICK b : b = SubSeq(s, k, n)
  OBVIOUS
<1>5. a \in Seq(S) /\ Len(a) = k - 1 /\ \A i \in 1 .. k - 1 : a[i] = s[i]
  <2>1. 1 \in Int /\ k - 1 \in Int /\ \A i \in 1 .. k - 1 : s[i] \in S
    BY <1>1, <1>2
  <2>2. /\ SubSeq(s, 1, k - 1) \in Seq(S)
        /\ Len(SubSeq(s, 1, k - 1)) = IF 1 <= k - 1 THEN (k - 1) - 1 + 1 ELSE 0
        /\ \A i \in 1 .. (k - 1) - 1 + 1 : SubSeq(s, 1, k - 1)[i] = s[1 + i - 1]
    BY ONLY <2>1, SubSeqProperties
  <2> QED
    BY ONLY <1>1, <1>3, <2>2, k \in 1 .. Len(s) + 1
<1>6. b \in Seq(S) /\ Len(b) = (n - k) + 1 /\ \A i \in 1 .. (n - k) + 1 : b[i] = s[(k + i) - 1]
  <2>1. k \in Int /\ n \in Int /\ \A i \in k .. n : s[i] \in S
    BY <1>1, <1>2
  <2>2. /\ SubSeq(s, k, n) \in Seq(S)
        /\ Len(SubSeq(s, k, n)) = IF k <= n THEN n - k + 1 ELSE 0
        /\ \A i \in 1 .. n - k + 1 : SubSeq(s, k, n)[i] = s[k + i - 1]
    BY ONLY <2>1, SubSeqProperties
  <2> QED
    BY ONLY <1>1, <1>4, <2>2, k \in 1 .. Len(s) + 1
<1>7. <<e>> \in Seq(S) /\ Len(<<e>>) = 1 /\ <<e>>[1] = e
  OBVIOUS
<1>8. PICK c : c = a \o <<e>>
  OBVIOUS
<1>9. /\ c \in Seq(S) /\ Len(c) = (k - 1) + 1
      /\ \A i \in 1 .. (k - 1) + 1 : c[i] = IF i <= k - 1 THEN a[i] ELSE <<e>>[i - (k - 1)]
  BY ONLY <1>5, <1>7, <1>8, ConcatProperties
<1>10. r = c \o b
  BY ONLY <1>1, <1>3, <1>4, <1>8, r = InsertAt(s, k, e) DEF InsertAt
<1>11. /\ r \in Seq(S) /\ Len(r) = Len(c) + Len(b)
       /\ \A i \in 1 .. Len(c) + Len(b) : r[i] = IF i <= Len(c) THEN c[i] ELSE b[i - Len(c)]
  BY ONLY <1>6, <1>9, <1>10, ConcatProperties
<1>12. Len(c) = k /\ Len(r) = n + 1 /\ k \in Nat
  BY ONLY <1>1, <1>6, <1>9, <1>11, k \in 1 .. Len(s) + 1
<1>13. ASSUME NEW i \in 1 .. n + 1
       PROVE  r[i] = IF i < k THEN s[i] ELSE IF i = k THEN e ELSE s[i - 1]
  <2>0. i \in 1 .. Len(c) + Len(b)
    BY ONLY <1>6, <1>12, i \in 1 .. n + 1, n \in Nat, k \in Nat
  <2>1. r[i] = IF i <= k THEN c[i] ELSE b[i - k]
    BY ONLY <1>11, <1>12, <2>0
  <2>2. CASE i < k
    <3>1. c[i] = a[i] /\ a[i] = s[i]
      BY ONLY <1>5, <1>9, <1>12, <2>2, i \in 1 .. n + 1, n \in Nat
    <3> QED
      BY <2>1, <2>2, <3>1
  <2>3. CASE i = k
    <3>1. c[i] = <<e>>[i - (k - 1)] /\ i - (k - 1) = 1
      BY ONLY <1>9, <1>12, <2>3, i \in 1 .. n + 1, n \in Nat
    <3> QED
      BY <1>7, <2>1, <2>3, <3>1
  <2>4. CASE i > k
    <3>1. i - k \in 1 .. (n - k) + 1 /\ (k + (i - k)) - 1 = i - 1
      BY ONLY <1>12, <2>4, i \in 1 .. n + 1, n \in Nat
    <3>2. b[i - k] = s[i - 1]
      BY ONLY <1>6, <3>1
    <3> QED
      BY <1>12, <2>1, <2>4, <3>2
  <2> QED
    BY <1>12, <2>2, <2>3, <2>4
<1> QED
  BY ONLY <1>1, <1>11, <1>12, <1>13 DEF Spliced

\* Lines, in the order of their times.
Delta == UNION {[S -> [v : Int, ts : Int]] : S \in SUBSET ReportId}
Line == [ts : Nat, delta : {<<>>} \union (Delta \X Int)]
InOrder(l) == \A i \in 1 .. Len(l) : i > 1 => l[i - 1].ts <= l[i].ts

\* Where a line goes.
Place(l, x, k) ==
    /\ inserted(l, x) = InsertAt(l, k, x)
    /\ \A i \in 1 .. Len(l) : i < k => l[i].ts <= x.ts
    /\ k <= Len(l) => l[k].ts > x.ts

LEMMA InsertedWhere ==
    ASSUME NEW l \in Seq(Line), NEW x \in Line
    PROVE  \E k \in 1 .. Len(l) + 1 : Place(l, x, k)
<1>1. PICK n \in Nat : n = Len(l)
  BY LenProperties
<1>2. \A i \in 1 .. n : l[i].ts \in Nat
  <2>1. \A i \in 1 .. n : l[i] \in Line
    BY <1>1, ElementOfSeq
  <2> QED
    BY <2>1 DEF Line
<1>3. x.ts \in Nat
  BY DEF Line
<1> DEFINE I == {i \in 1 .. n : l[i].ts > x.ts}
<1>4. PICK w : w = IF I # {} THEN Min(I) ELSE 0
  OBVIOUS
<1>5. inserted(l, x) = InsertAt(l, IF w = 0 THEN n + 1 ELSE w, x)
  <2>1. SelectInSeq(l, LAMBDA a : a.ts > x.ts) = w
    <3>1. PICK J : J = {i \in 1 .. Len(l) : l[i].ts > x.ts}
      OBVIOUS
    <3>2. J = I
      BY <1>1, <3>1
    <3>3. SelectInSeq(l, LAMBDA a : a.ts > x.ts) = IF J # {} THEN Min(J) ELSE 0
      BY <3>1 DEF SelectInSeq
    <3> HIDE DEF I
    <3> QED
      BY <1>4, <3>2, <3>3
  <2>2. inserted(l, x) = InsertAt(l, IF SelectInSeq(l, LAMBDA a : a.ts > x.ts) = 0 THEN Len(l) + 1
                                     ELSE SelectInSeq(l, LAMBDA a : a.ts > x.ts), x)
    BY DEF inserted
  <2> QED
    BY ONLY <1>1, <2>1, <2>2, Zenon
<1>6. CASE I = {}
  <2>1. w = 0
    BY <1>4, <1>6
  <2>2. inserted(l, x) = InsertAt(l, n + 1, x)
    BY <1>5, <2>1
  <2>3. \A i \in 1 .. n : l[i].ts <= x.ts
    BY <1>2, <1>3, <1>6
  <2>4. n + 1 \in 1 .. n + 1 /\ ~(n + 1 <= n)
    OBVIOUS
  <2> QED
    BY ONLY <1>1, <2>2, <2>3, <2>4 DEF Place
<1>7. CASE I # {}
  <2>1. PICK k \in I : \A j \in I : k <= j
    <3>1. I \in SUBSET Nat
      OBVIOUS
    <3> HIDE DEF I
    <3> QED
      BY <1>7, <3>1, LeastOf
  <2>2. w \in I /\ \A j \in I : w <= j
    <3>1. w = CHOOSE y \in I : \A j \in I : y <= j
      BY <1>4, <1>7 DEF Min
    <3> HIDE DEF I
    <3> QED
      BY <2>1, <3>1
  <2>3. w \in 1 .. n /\ l[w].ts > x.ts /\ w # 0
    BY <2>2
  <2>4. inserted(l, x) = InsertAt(l, w, x)
    BY <1>5, <2>3
  <2>5. ASSUME NEW i \in 1 .. n, i < w PROVE l[i].ts <= x.ts
    <3>1. i \notin I
      BY <2>2, <2>3, <2>5
    <3> QED
      BY <1>2, <1>3, <3>1
  <2>6. w \in 1 .. n + 1
    BY <2>3
  <2> QED
    BY ONLY <1>1, <2>3, <2>4, <2>5, <2>6 DEF Place
<1> QED
  BY <1>6, <1>7

(***************************************************************************)
(* Reports that follow one another: c[i] is what a receiver has after the  *)
(* first i lines.                                                          *)
(***************************************************************************)
Links(l, c) ==
    \A i \in 1 .. Len(l) : IF isReport(l[i])
                           THEN l[i].delta = <<compressed(c[i - 1], c[i]), maxTimestamp(c[i])>>
                           ELSE c[i] = c[i - 1]
Chain(l, a, b) == \E c \in [0 .. Len(l) -> Stats] : c[0] = a /\ c[Len(l)] = b /\ Links(l, c)

\* The receiver's fold, as the equation that defines it.
Receives(g, a, l) ==
    g = [n \in 0 .. Len(l) |->
           IF n = 0 THEN a
           ELSE IF isReport(l[n]) THEN applied(g[n - 1], l[n].delta[1], l[n].delta[2])
           ELSE g[n - 1]]

StepByStep(g, a, l) ==
    /\ g[0] = a
    /\ \A n \in 1 .. Len(l) : g[n] = IF isReport(l[n]) THEN applied(g[n - 1], l[n].delta[1], l[n].delta[2])
                                      ELSE g[n - 1]

LEMMA ReceivesSteps ==
    ASSUME NEW a, NEW l \in Seq(Line), NEW g, Receives(g, a, l)
    PROVE  StepByStep(g, a, l)
<1>1. \A n \in 0 .. Len(l) : g[n] = IF n = 0 THEN a
                                    ELSE IF isReport(l[n]) THEN applied(g[n - 1], l[n].delta[1], l[n].delta[2])
                                    ELSE g[n - 1]
  BY Zenon DEF Receives
<1>2. Len(l) \in Nat
  BY LenProperties
<1>3. 0 \in 0 .. Len(l) /\ \A n \in 1 .. Len(l) : n \in 0 .. Len(l) /\ n # 0
  BY <1>2
<1> QED
  BY ONLY <1>1, <1>3, Zenon DEF StepByStep

LEMMA ChainApplies ==
    ASSUME NEW l \in Seq(Line), NEW a, NEW b, Chain(l, a, b)
    PROVE  appliedAll(a, l) = b
<1>1. PICK m \in Nat : m = Len(l)
  BY LenProperties
<1>2. PICK c \in [0 .. m -> Stats] : c[0] = a /\ c[m] = b /\ Links(l, c)
  BY <1>1 DEF Chain
<1>3. ASSUME NEW i \in 1 .. m
      PROVE  c[i] = IF isReport(l[i]) THEN applied(c[i - 1], l[i].delta[1], l[i].delta[2]) ELSE c[i - 1]
  <2>1. c[i] \in Stats /\ c[i - 1] \in Stats
    BY <1>2
  <2>2. CASE isReport(l[i])
    <3>1. l[i].delta = <<compressed(c[i - 1], c[i]), maxTimestamp(c[i])>>
      BY <1>1, <1>2, <2>2 DEF Links
    <3>2. l[i].delta[1] = compressed(c[i - 1], c[i]) /\ l[i].delta[2] = maxTimestamp(c[i])
      BY <3>1
    <3>3. applied(c[i - 1], l[i].delta[1], l[i].delta[2]) = c[i]
      BY <2>1, <3>2, RoundTrip
    <3> QED
      BY <2>2, <3>3
  <2>3. CASE ~isReport(l[i])
    BY <1>1, <1>2, <2>3 DEF Links
  <2> QED
    BY <2>2, <2>3
<1>4. Receives(c, a, l)
  <2>1. \A n \in 0 .. m : c[n] = IF n = 0 THEN a
                                 ELSE IF isReport(l[n]) THEN applied(c[n - 1], l[n].delta[1], l[n].delta[2])
                                 ELSE c[n - 1]
    <3> SUFFICES ASSUME NEW n \in 0 .. m
                 PROVE  c[n] = IF n = 0 THEN a
                               ELSE IF isReport(l[n]) THEN applied(c[n - 1], l[n].delta[1], l[n].delta[2])
                               ELSE c[n - 1]
      OBVIOUS
    <3>1. n = 0 \/ n \in 1 .. m
      OBVIOUS
    <3> QED
      BY ONLY <1>2, <1>3, <3>1, Zenon
  <2>2. c = [n \in 0 .. m |-> c[n]]
    OBVIOUS
  <2> QED
    BY ONLY <1>1, <2>1, <2>2, Zenon DEF Receives
<1>5. PICK g : g = CHOOSE f : Receives(f, a, l)
  OBVIOUS
<1>6. Receives(g, a, l)
  BY <1>4, <1>5
<1>7. appliedAll(a, l) = g[m]
  BY <1>1, <1>5 DEF appliedAll, Receives
<1>8. g[0] = a /\ \A n \in 1 .. m : g[n] = IF isReport(l[n]) THEN applied(g[n - 1], l[n].delta[1], l[n].delta[2])
                                           ELSE g[n - 1]
  <2>1. StepByStep(g, a, l)
    BY ONLY <1>6, ReceivesSteps, l \in Seq(Line)
  <2> QED
    BY ONLY <1>1, <2>1, Zenon DEF StepByStep
<1> DEFINE Off == {i \in Nat : i <= m /\ g[i] # c[i]}
<1>9. Off = {}
  <2> SUFFICES ASSUME Off # {} PROVE FALSE
    OBVIOUS
  <2>1. PICK i \in Off : \A j \in Off : i <= j
    <3>1. Off \in SUBSET Nat
      OBVIOUS
    <3> HIDE DEF Off
    <3> QED
      BY <3>1, LeastOf
  <2>2. i \in Nat /\ i <= m /\ g[i] # c[i] /\ i # 0
    BY <1>2, <1>8
  <2>3. i \in 1 .. m /\ i - 1 \in Nat /\ i - 1 <= m /\ ~(i <= i - 1)
    BY <2>2
  <2>4. g[i - 1] = c[i - 1]
    BY <2>1, <2>3
  <2>5. g[i] = c[i]
    BY ONLY <1>3, <1>8, <2>3, <2>4, Zenon
  <2> QED
    BY <2>2, <2>5
<1> QED
  BY <1>2, <1>7, <1>9

LEMMA ChainQuiet ==
    ASSUME NEW l \in Seq(Line), NEW a, NEW b, Chain(l, a, b), \A i \in 1 .. Len(l) : ~isReport(l[i])
    PROVE  a = b
<1>1. PICK m \in Nat : m = Len(l)
  BY LenProperties
<1>2. PICK c \in [0 .. m -> Stats] : c[0] = a /\ c[m] = b /\ Links(l, c)
  BY <1>1 DEF Chain
<1>3. \A i \in 1 .. m : c[i] = c[i - 1]
  BY <1>1, <1>2 DEF Links
<1> DEFINE Off == {i \in Nat : i <= m /\ c[i] # c[0]}
<1>4. Off = {}
  <2> SUFFICES ASSUME Off # {} PROVE FALSE
    OBVIOUS
  <2>1. PICK i \in Off : \A j \in Off : i <= j
    <3>1. Off \in SUBSET Nat
      OBVIOUS
    <3> HIDE DEF Off
    <3> QED
      BY <3>1, LeastOf
  <2>2. i \in 1 .. m /\ i - 1 \in Nat /\ i - 1 <= m /\ ~(i <= i - 1) /\ c[i] # c[0]
    BY <2>1
  <2>3. c[i - 1] = c[0]
    BY <2>1, <2>2
  <2> QED
    BY <1>3, <2>2, <2>3
<1> QED
  BY <1>2, <1>4

\* A line that is no report changes nothing wherever it goes.
LEMMA ChainTakesLine ==
    ASSUME NEW l \in Seq(Line), NEW a, NEW b, Chain(l, a, b), NEW x, ~isReport(x), NEW k \in 1 .. Len(l) + 1,
           NEW r, Spliced(r, l, k, x)
    PROVE  Chain(r, a, b)
<1>1. PICK m \in Nat : m = Len(l)
  BY LenProperties
<1> USE DEF Spliced
<1>2. PICK c \in [0 .. m -> Stats] : c[0] = a /\ c[m] = b /\ Links(l, c)
  BY <1>1 DEF Chain
<1>3. PICK d : d = [i \in 0 .. m + 1 |-> IF i < k THEN c[i] ELSE c[i - 1]]
  OBVIOUS
<1>4. d \in [0 .. m + 1 -> Stats] /\ d[0] = a /\ d[m + 1] = b
  <2>1. ASSUME NEW i \in 0 .. m + 1 PROVE (IF i < k THEN c[i] ELSE c[i - 1]) \in Stats
    <3>1. CASE i < k
      <4>1. i \in 0 .. m
        BY <1>1, <3>1
      <4> QED
        BY <3>1, <4>1
    <3>2. CASE ~(i < k)
      <4>1. i - 1 \in 0 .. m
        BY <1>1, <3>2
      <4> QED
        BY <3>2, <4>1
    <3> QED
      BY <3>1, <3>2
  <2>2. 0 < k /\ ~(m + 1 < k) /\ 0 \in 0 .. m + 1 /\ m + 1 \in 0 .. m + 1 /\ (m + 1) - 1 = m
    BY <1>1
  <2>3. d[0] = a /\ d[m + 1] = b
    BY <1>2, <1>3, <2>2
  <2> QED
    BY <1>3, <2>1, <2>3
<1>5. ASSUME NEW i \in 1 .. m + 1
      PROVE  IF isReport(r[i]) THEN r[i].delta = <<compressed(d[i - 1], d[i]), maxTimestamp(d[i])>>
             ELSE d[i] = d[i - 1]
  <2>0. i \in 0 .. m + 1 /\ i - 1 \in 0 .. m + 1
    OBVIOUS
  <2>1. CASE i < k
    <3>1. r[i] = l[i] /\ d[i] = c[i] /\ d[i - 1] = c[i - 1] /\ i \in 1 .. m
      <4>1. i - 1 < k /\ i \in 1 .. m
        BY <1>1, <2>1
      <4> QED
        BY <1>1, <1>3, <2>0, <2>1, <4>1
    <3> QED
      BY <1>1, <1>2, <3>1 DEF Links
  <2>2. CASE i = k
    <3>1. r[i] = x /\ i - 1 < k /\ ~(i < k)
      BY <1>1, <2>2
    <3>2. d[i] = c[i - 1] /\ d[i - 1] = c[i - 1]
      BY <1>3, <2>0, <3>1
    <3> QED
      BY <3>1, <3>2
  <2>3. CASE i > k
    <3>1. PICK j \in 1 .. m : j = i - 1
      <4>1. i - 1 \in 1 .. m
        BY <1>1, <2>3
      <4> QED
        BY <4>1
    <3>2. ~(i < k) /\ i # k /\ ~(j < k)
      BY <1>1, <2>3, <3>1
    <3>3. r[i] = l[j] /\ d[i] = c[j] /\ d[j] = c[j - 1]
      BY <1>1, <1>3, <2>0, <3>1, <3>2
    <3> QED
      BY <1>1, <1>2, <3>1, <3>3 DEF Links
  <2> QED
    BY <1>1, <2>1, <2>2, <2>3
<1>6. Links(r, d) /\ Len(r) = m + 1
  BY <1>1, <1>5 DEF Links
<1> QED
  BY <1>4, <1>6 DEF Chain

\* A report behind all the others takes the receiver one step on.
LEMMA ChainTakesReport ==
    ASSUME NEW l \in Seq(Line), NEW a, NEW b, NEW e \in Stats, Chain(l, a, b), NEW x,
           x.delta = <<compressed(b, e), maxTimestamp(e)>>,
           NEW r, Spliced(r, l, Len(l) + 1, x)
    PROVE  Chain(r, a, e)
<1>1. PICK m \in Nat : m = Len(l)
  BY LenProperties
<1>a. Len(r) = m + 1 /\ r[m + 1] = x /\ \A i \in 1 .. m : r[i] = l[i]
  BY <1>1 DEF Spliced
<1>2. PICK c \in [0 .. m -> Stats] : c[0] = a /\ c[m] = b /\ Links(l, c)
  BY <1>1 DEF Chain
<1>3. PICK d : d = [i \in 0 .. m + 1 |-> IF i = m + 1 THEN e ELSE c[i]]
  OBVIOUS
<1>4. d \in [0 .. m + 1 -> Stats] /\ d[0] = a /\ d[m + 1] = e /\ d[m] = b
  BY <1>2, <1>3
<1>5. \A i \in 0 .. m : d[i] = c[i]
  BY <1>3
<1>6. ASSUME NEW i \in 1 .. m + 1
      PROVE  IF isReport(r[i]) THEN r[i].delta = <<compressed(d[i - 1], d[i]), maxTimestamp(d[i])>>
             ELSE d[i] = d[i - 1]
  <2>1. CASE i = m + 1
    <3>1. r[i] = x /\ i - 1 = m /\ isReport(x)
      BY <1>a, <2>1 DEF isReport
    <3> QED
      BY <1>4, <2>1, <3>1
  <2>2. CASE i # m + 1
    <3>1. i \in 1 .. m /\ i \in 0 .. m /\ i - 1 \in 0 .. m
      BY <2>2
    <3>2. r[i] = l[i] /\ d[i] = c[i] /\ d[i - 1] = c[i - 1]
      BY <1>a, <1>5, <3>1
    <3> QED
      BY <1>1, <1>2, <3>1, <3>2 DEF Links
  <2> QED
    BY <2>1, <2>2
<1>7. Links(r, d) /\ Len(r) = m + 1
  BY <1>a, <1>6 DEF Links
<1> QED
  BY <1>4, <1>7 DEF Chain

\* The insertion sort, as the equation that defines it.
Sorts(g, l) == g = [n \in 0 .. Len(l) |-> IF n = 0 THEN <<>> ELSE inserted(g[n - 1], l[n])]

LEMMA InsertedType ==
    ASSUME NEW l \in Seq(Line), NEW x \in Line
    PROVE  inserted(l, x) \in Seq(Line)
<1>1. PICK k \in 1 .. Len(l) + 1 : inserted(l, x) = InsertAt(l, k, x)
  BY InsertedWhere DEF Place
<1> QED
  BY <1>1, InsertAtParts

LEMMA SortsExists ==
    ASSUME NEW l \in Seq(Line)
    PROVE  \E g : Sorts(g, l)
<1>1. PICK m \in Nat : m = Len(l)
  BY LenProperties
<1>2. \A i \in 1 .. m : l[i] \in Line
  BY <1>1, ElementOfSeq
<1>3. PICK F : F = [p \in (1 .. m) \X Seq(Line) |-> inserted(p[2], l[p[1]])]
  OBVIOUS
<1>4. F \in [(1 .. m) \X Seq(Line) -> Seq(Line)]
  <2>1. \A p \in (1 .. m) \X Seq(Line) : inserted(p[2], l[p[1]]) \in Seq(Line)
    BY <1>2, InsertedType
  <2> QED
    BY <1>3, <2>1
<1>5. <<>> \in Seq(Line)
  OBVIOUS
<1>6. PICK g \in [0 .. m -> Seq(Line)] : g[0] = <<>> /\ \A i \in 1 .. m : g[i] = F[<<i, g[i - 1]>>]
  <2>1. PICK Q : Q = Seq(Line)
    OBVIOUS
  <2>2. <<>> \in Q /\ F \in [(1 .. m) \X Q -> Q]
    BY ONLY <1>4, <1>5, <2>1
  <2>3. StepsAlong(m, Q, <<>>, F)
    BY ONLY <2>2, StepsExist, m \in Nat
  <2> QED
    BY ONLY <2>1, <2>3, Zenon DEF StepsAlong
<1>7. ASSUME NEW i \in 1 .. m PROVE g[i] = inserted(g[i - 1], l[i])
  <2>1. PICK h \in Seq(Line) : h = g[i - 1]
    <3>1. i - 1 \in 0 .. m
      OBVIOUS
    <3> QED
      BY <3>1
  <2>2. <<i, h>> \in (1 .. m) \X Seq(Line) /\ <<i, h>>[1] = i /\ <<i, h>>[2] = h
    OBVIOUS
  <2>3. F[<<i, h>>] = inserted(h, l[i])
    BY ONLY <1>3, <2>2
  <2> QED
    BY ONLY <1>6, <2>1, <2>3, i \in 1 .. m
<1>8. g = [n \in 0 .. m |-> IF n = 0 THEN <<>> ELSE inserted(g[n - 1], l[n])]
  <2>1. \A n \in 0 .. m : g[n] = IF n = 0 THEN <<>> ELSE inserted(g[n - 1], l[n])
    <3> SUFFICES ASSUME NEW n \in 0 .. m PROVE g[n] = IF n = 0 THEN <<>> ELSE inserted(g[n - 1], l[n])
      OBVIOUS
    <3>1. n = 0 \/ n \in 1 .. m
      OBVIOUS
    <3> QED
      BY ONLY <1>6, <1>7, <3>1, Zenon
  <2>2. g = [n \in 0 .. m |-> g[n]]
    OBVIOUS
  <2> QED
    BY ONLY <2>1, <2>2, Zenon
<1>9. Sorts(g, l)
  BY ONLY <1>1, <1>8, Zenon DEF Sorts
<1> QED
  BY <1>9

\* A report is behind the lines that are not later.
ReportsLast(l) == \A i, j \in 1 .. Len(l) : i < j /\ isReport(l[j]) => l[i].ts <= l[j].ts

\* What the first n lines have become: sorted, made of them, and the same chain.
SortedUpTo(g, l, c, n) ==
    /\ g[n] \in Seq(Line) /\ Len(g[n]) = n /\ InOrder(g[n])
    /\ \A i \in 1 .. n : \E j \in 1 .. n : g[n][i] = l[j]
    /\ Links(l, c) => Chain(g[n], c[0], c[n])

LEMMA InsertKeepsOrder ==
    ASSUME NEW l \in Seq(Line), InOrder(l), NEW x \in Line, NEW k \in 1 .. Len(l) + 1,
           Place(l, x, k), NEW r, Spliced(r, l, k, x)
    PROVE  InOrder(r)
<1>1. PICK m \in Nat : m = Len(l)
  BY LenProperties
<1> USE DEF Spliced, Place
<1>2. \A i \in 1 .. m : l[i].ts \in Nat
  <2>1. \A i \in 1 .. m : l[i] \in Line
    BY <1>1, ElementOfSeq
  <2> QED
    BY <2>1 DEF Line
<1>3. x.ts \in Nat
  BY DEF Line
<1>4. ASSUME NEW i \in 1 .. m + 1, i > 1 PROVE r[i - 1].ts <= r[i].ts
  <2>1. PICK j \in 1 .. m : j = i - 1
    <3>1. i - 1 \in 1 .. m
      BY <1>4
    <3> QED
      BY <3>1
  <2>2. j \in 1 .. m + 1 /\ i - 1 = j
    BY <2>1
  <2>3. CASE i < k
    <3>1. r[i] = l[i] /\ r[j] = l[j] /\ i \in 1 .. m
      BY <1>1, <2>1, <2>2, <2>3
    <3> QED
      BY <1>1, <1>4, <2>2, <3>1 DEF InOrder
  <2>4. CASE i = k
    <3>1. r[i] = x /\ r[j] = l[j] /\ j < k
      BY <1>1, <2>1, <2>2, <2>4
    <3> QED
      BY <1>1, <2>2, <3>1
  <2>5. CASE i > k
    <3>1. r[i] = l[j] /\ k \in 1 .. m
      BY <1>1, <2>1, <2>5
    <3>2. CASE j = k
      <4>1. r[j] = x /\ l[k].ts > x.ts
        BY <1>1, <2>2, <3>1, <3>2
      <4> QED
        BY <1>2, <1>3, <2>2, <3>1, <3>2, <4>1
    <3>3. CASE j > k
      <4>1. r[j] = l[j - 1] /\ j > 1
        BY <1>1, <2>2, <3>1, <3>3
      <4>2. l[j - 1].ts <= l[j].ts
        BY <1>1, <4>1 DEF InOrder
      <4> QED
        BY <2>2, <3>1, <4>1, <4>2
    <3> QED
      BY <2>1, <2>5, <3>1, <3>2, <3>3
  <2> QED
    BY <1>1, <2>3, <2>4, <2>5
<1> QED
  BY <1>1, <1>4 DEF InOrder

LEMMA SortedStep ==
    ASSUME NEW l \in Seq(Line), ReportsLast(l), NEW c \in [0 .. Len(l) -> Stats],
           NEW g, NEW n \in 1 .. Len(l), g[n] = inserted(g[n - 1], l[n]), SortedUpTo(g, l, c, n - 1)
    PROVE  SortedUpTo(g, l, c, n)
<1>1. PICK m \in Nat : m = Len(l) /\ n \in 1 .. m
  BY LenProperties
<1>2. PICK p \in Nat : p = n - 1 /\ p + 1 = n
  <2>1. n - 1 \in Nat /\ (n - 1) + 1 = n
    BY <1>1
  <2> QED
    BY <2>1
<1>3. PICK q \in Seq(Line) : q = g[n - 1] /\ Len(q) = p /\ InOrder(q)
                             /\ (\A i \in 1 .. p : \E j \in 1 .. p : q[i] = l[j])
                             /\ (Links(l, c) => Chain(q, c[0], c[p]))
  BY <1>2 DEF SortedUpTo
<1>4. PICK x \in Line : x = l[n]
  BY <1>1, ElementOfSeq
<1>a. PICK k \in 1 .. Len(q) + 1 : Place(q, x, k)
  BY ONLY InsertedWhere, q \in Seq(Line), x \in Line
<1>5. /\ inserted(q, x) = InsertAt(q, k, x)
      /\ \A i \in 1 .. Len(q) : i < k => q[i].ts <= x.ts
      /\ k <= Len(q) => q[k].ts > x.ts
  BY ONLY <1>a, Zenon DEF Place
<1>b. g[n] = inserted(q, x)
  BY ONLY <1>3, <1>4, g[n] = inserted(g[n - 1], l[n])
<1>6. PICK r : r = g[n] /\ r = InsertAt(q, k, x)
  BY ONLY <1>5, <1>b
<1>c. r \in Seq(Line) /\ Spliced(r, q, k, x)
  BY ONLY <1>6, InsertAtParts, q \in Seq(Line), x \in Line, k \in 1 .. Len(q) + 1
<1>7. /\ r \in Seq(Line) /\ Len(r) = Len(q) + 1
      /\ \A i \in 1 .. Len(q) + 1 : r[i] = IF i < k THEN q[i] ELSE IF i = k THEN x ELSE q[i - 1]
  BY ONLY <1>c, Zenon DEF Spliced
<1>8. InOrder(r)
  BY ONLY <1>3, <1>a, <1>c, InsertKeepsOrder, q \in Seq(Line), x \in Line, k \in 1 .. Len(q) + 1
<1>9. Len(r) = n
  BY <1>2, <1>3, <1>7
<1>10. ASSUME NEW i \in 1 .. n PROVE \E j \in 1 .. n : r[i] = l[j]
  <2>1. i \in 1 .. Len(q) + 1 /\ n \in 1 .. n /\ \A j \in 1 .. p : j \in 1 .. n
    BY <1>1, <1>2, <1>3
  <2>a. k \in 1 .. p + 1 /\ i \in 1 .. p + 1
    BY ONLY <1>2, <1>3, k \in 1 .. Len(q) + 1, i \in 1 .. n, p \in Nat
  <2>2. r[i] = IF i < k THEN q[i] ELSE IF i = k THEN x ELSE q[i - 1]
    BY <1>7, <2>1
  <2>3. CASE i < k
    <3>1. i \in 1 .. p
      BY ONLY <2>a, <2>3, p \in Nat
    <3>2. PICK j \in 1 .. p : q[i] = l[j]
      BY <1>3, <3>1
    <3> QED
      BY <2>1, <2>2, <2>3, <3>2
  <2>4. CASE i = k
    <3>1. r[i] = l[n]
      BY <1>4, <2>2, <2>4
    <3> QED
      BY <2>1, <3>1
  <2>5. CASE i > k
    <3>1. i - 1 \in 1 .. p /\ ~(i < k) /\ i # k
      BY ONLY <2>a, <2>5, p \in Nat
    <3>2. PICK j \in 1 .. p : q[i - 1] = l[j]
      BY <1>3, <3>1
    <3> QED
      BY <2>1, <2>2, <3>1, <3>2
  <2> QED
    BY <1>1, <1>3, <2>3, <2>4, <2>5
<1>11. ASSUME Links(l, c) PROVE Chain(r, c[0], c[n])
  <2>1. n \in 0 .. m /\ c[n] \in Stats /\ Chain(q, c[0], c[p])
    BY <1>1, <1>3, <1>11
  <2>2. CASE ~isReport(x)
    <3>1. c[n] = c[p]
      BY <1>1, <1>2, <1>4, <1>11, <2>2 DEF Links
    <3>2. Chain(r, c[0], c[p])
      BY ONLY <1>c, <2>1, <2>2, ChainTakesLine, q \in Seq(Line), k \in 1 .. Len(q) + 1
    <3> QED
      BY <3>1, <3>2
  <2>3. CASE isReport(x)
    <3>1. x.delta = <<compressed(c[p], c[n]), maxTimestamp(c[n])>>
      BY <1>1, <1>2, <1>4, <1>11, <2>3 DEF Links
    <3>2. \A i \in 1 .. p : q[i].ts <= x.ts
      <4> SUFFICES ASSUME NEW i \in 1 .. p PROVE q[i].ts <= x.ts
        OBVIOUS
      <4>1. PICK j \in 1 .. p : q[i] = l[j]
        BY <1>3
      <4>2. j \in 1 .. m /\ n \in 1 .. m /\ j < n
        BY <1>1, <1>2
      <4>3. l[j].ts <= l[n].ts
        BY <1>1, <1>4, <2>3, <4>2 DEF ReportsLast
      <4> QED
        BY <1>4, <4>1, <4>3
    <3>3. k = Len(q) + 1
      <4>1. \A i \in 1 .. p : q[i].ts \in Nat
        <5>1. \A i \in 1 .. p : q[i] \in Line
          BY <1>3, ElementOfSeq
        <5> QED
          BY <5>1 DEF Line
      <4>2. x.ts \in Nat
        BY DEF Line
      <4>3. ~(k <= Len(q))
        <5> SUFFICES ASSUME k <= Len(q) PROVE FALSE
          OBVIOUS
        <5>1. k \in 1 .. p
          BY ONLY <1>3, k <= Len(q), k \in 1 .. Len(q) + 1, p \in Nat
        <5>2. q[k].ts > x.ts
          BY ONLY <1>5, k <= Len(q), Zenon
        <5>3. q[k].ts <= x.ts /\ q[k].ts \in Nat
          BY ONLY <3>2, <4>1, <5>1, Zenon
        <5> QED
          BY ONLY <4>2, <5>2, <5>3
      <4> QED
        BY ONLY <1>3, <4>3, p \in Nat, k \in 1 .. Len(q) + 1
    <3>4. Spliced(r, q, Len(q) + 1, x)
      BY ONLY <1>c, <3>3
    <3> QED
      BY ONLY <2>1, <3>1, <3>4, ChainTakesReport, q \in Seq(Line)
  <2> QED
    BY <2>2, <2>3
<1>12. \A i \in 1 .. n : \E j \in 1 .. n : r[i] = l[j]
  BY ONLY <1>10
<1>13. Links(l, c) => Chain(r, c[0], c[n])
  BY ONLY <1>11
<1> QED
  BY ONLY <1>6, <1>c, <1>8, <1>9, <1>12, <1>13 DEF SortedUpTo

\* The batch is in the order of its times, and makes the same of a receiver as
\* the queue it was sorted from.
LEMMA SortedKeeps ==
    ASSUME NEW l \in Seq(Line), ReportsLast(l)
    PROVE  /\ sorted(l) \in Seq(Line) /\ InOrder(sorted(l))
           /\ \A a, b : Chain(l, a, b) => Chain(sorted(l), a, b)
<1>1. PICK m \in Nat : m = Len(l)
  BY LenProperties
<1>2. PICK g : g = CHOOSE f : Sorts(f, l)
  OBVIOUS
<1>3. Sorts(g, l)
  BY <1>2, SortsExists
<1>4. sorted(l) = g[m]
  BY <1>1, <1>2 DEF sorted, Sorts
<1>5. \A n \in 0 .. m : g[n] = IF n = 0 THEN <<>> ELSE inserted(g[n - 1], l[n])
  BY <1>1, <1>3, Zenon DEF Sorts
<1>6. ASSUME NEW c \in [0 .. m -> Stats] PROVE SortedUpTo(g, l, c, m)
  <2> DEFINE Off == {n \in Nat : n <= m /\ ~SortedUpTo(g, l, c, n)}
  <2> SUFFICES ASSUME m \in Off PROVE FALSE
    OBVIOUS
  <2>1. PICK n \in Off : \A j \in Off : n <= j
    <3>1. Off \in SUBSET Nat
      OBVIOUS
    <3> HIDE DEF Off
    <3> QED
      BY <3>1, LeastOf
  <2>2. SortedUpTo(g, l, c, 0)
    <3>1. g[0] = <<>>
      BY <1>5
    <3>2. <<>> \in Seq(Line) /\ Len(<<>>) = 0 /\ InOrder(<<>>)
      BY DEF InOrder
    <3>3. Chain(<<>>, c[0], c[0])
      <4>1. PICK d : d = [i \in 0 .. 0 |-> c[0]]
        OBVIOUS
      <4>2. c[0] \in Stats
        BY <1>6
      <4>3. d \in [0 .. Len(<<>>) -> Stats] /\ d[0] = c[0] /\ d[Len(<<>>)] = c[0] /\ Links(<<>>, d)
        BY <4>1, <4>2 DEF Links
      <4> QED
        BY <4>3 DEF Chain
    <3>4. \A i \in 1 .. 0 : FALSE
      OBVIOUS
    <3> QED
      BY <3>1, <3>2, <3>3, <3>4 DEF SortedUpTo
  <2>3. n \in 1 .. m /\ n - 1 \in Nat /\ n - 1 <= m /\ ~(n <= n - 1) /\ ~SortedUpTo(g, l, c, n)
    <3>1. n # 0
      BY <2>1, <2>2
    <3> QED
      BY <2>1, <3>1
  <2>4. SortedUpTo(g, l, c, n - 1)
    BY <2>1, <2>3
  <2>5. g[n] = inserted(g[n - 1], l[n])
    <3>1. n \in 0 .. m /\ n # 0
      BY <2>3
    <3> QED
      BY ONLY <1>5, <3>1, Zenon
  <2>6. SortedUpTo(g, l, c, n)
    BY ONLY <1>1, <1>6, <2>3, <2>4, <2>5, SortedStep, l \in Seq(Line), ReportsLast(l)
  <2> QED
    BY <2>3, <2>6
<1>7. ASSUME NEW a, NEW b, Chain(l, a, b)
      PROVE  Chain(sorted(l), a, b) /\ sorted(l) \in Seq(Line) /\ InOrder(sorted(l))
  <2>1. PICK c \in [0 .. m -> Stats] : c[0] = a /\ c[m] = b /\ Links(l, c)
    BY <1>1, <1>7 DEF Chain
  <2>2. SortedUpTo(g, l, c, m)
    BY <1>6, <2>1
  <2> QED
    BY <1>4, <2>1, <2>2 DEF SortedUpTo
<1>8. sorted(l) \in Seq(Line) /\ InOrder(sorted(l))
  <2>1. PICK c : c = [i \in 0 .. m |-> [r \in {} |-> [v |-> 0, ts |-> 1]]]
    OBVIOUS
  <2>2. [r \in {} |-> [v |-> 0, ts |-> 1]] \in [{} -> [v : Nat, ts : Nat \ {0}]]
    OBVIOUS
  <2>3. [r \in {} |-> [v |-> 0, ts |-> 1]] \in Stats
    BY ONLY <2>2 DEF Stats
  <2>4. c \in [0 .. m -> Stats]
    BY <2>1, <2>3
  <2> QED
    BY <1>4, <1>6, <2>4 DEF SortedUpTo
<1> QED
  BY <1>7, <1>8

\* Lines up to a time.
LinesUpTo(l, t) == \A i \in 1 .. Len(l) : l[i].ts <= t

LEMMA Queued ==
    ASSUME NEW l \in Seq(Line), NEW x \in Line, NEW r, r = Append(l, x)
    PROVE  r \in Seq(Line) /\ Spliced(r, l, Len(l) + 1, x) /\ Len(l) + 1 \in 1 .. Len(l) + 1
<1>1. PICK n \in Nat : n = Len(l)
  BY LenProperties
<1>2. r \in Seq(Line) /\ Len(r) = Len(l) + 1 /\ (\A i \in 1 .. Len(l) : r[i] = l[i]) /\ r[Len(l) + 1] = x
  BY AppendProperties
<1> QED
  BY <1>1, <1>2 DEF Spliced

LEMMA QueuedPast ==
    ASSUME NEW l \in Seq(Line), NEW x \in Line, NEW r, Spliced(r, l, Len(l) + 1, x), NEW t \in Nat,
           LinesUpTo(l, t), ReportsLast(l), x.ts <= t, isReport(x) => x.ts = t
    PROVE  LinesUpTo(r, t) /\ ReportsLast(r)
<1>1. PICK n \in Nat : n = Len(l)
  BY LenProperties
<1>2. Len(r) = n + 1 /\ r[n + 1] = x /\ \A i \in 1 .. n : r[i] = l[i]
  BY <1>1 DEF Spliced
<1>3. \A i \in 1 .. n + 1 : i \in 1 .. n \/ i = n + 1
  OBVIOUS
<1>4. \A i \in 1 .. n : l[i].ts <= t
  BY <1>1 DEF LinesUpTo
<1>5. ASSUME NEW i \in 1 .. n + 1 PROVE r[i].ts <= t
  <2>1. CASE i \in 1 .. n
    BY <1>2, <1>4, <2>1
  <2>2. CASE i = n + 1
    BY <1>2, <2>2
  <2> QED
    BY <1>3, <2>1, <2>2
<1>6. ASSUME NEW i \in 1 .. n + 1, NEW j \in 1 .. n + 1, i < j, isReport(r[j]) PROVE r[i].ts <= r[j].ts
  <2>1. i \in 1 .. n
    BY <1>6
  <2>2. CASE j \in 1 .. n
    <3>1. r[i] = l[i] /\ r[j] = l[j]
      BY <1>2, <2>1, <2>2
    <3>2. isReport(l[j])
      BY <1>6, <3>1
    <3>3. l[i].ts <= l[j].ts
      BY <1>1, <1>6, <2>1, <2>2, <3>2 DEF ReportsLast
    <3> QED
      BY <3>1, <3>3
  <2>3. CASE j = n + 1
    <3>1. r[j] = x
      BY <1>2, <2>3
    <3>2. x.ts = t
      BY <1>6, <3>1
    <3> QED
      BY <1>5, <3>1, <3>2
  <2> QED
    BY <1>3, <2>2, <2>3
<1> QED
  BY <1>2, <1>5, <1>6 DEF LinesUpTo, ReportsLast

LEMMA ChainEmpty ==
    ASSUME NEW a \in Stats
    PROVE  Chain(<<>>, a, a)
<1>1. PICK d : d = [i \in 0 .. 0 |-> a]
  OBVIOUS
<1>2. d \in [0 .. Len(<<>>) -> Stats] /\ d[0] = a /\ d[Len(<<>>)] = a /\ Links(<<>>, d)
  BY <1>1 DEF Links
<1> QED
  BY <1>2 DEF Chain

LEMMA EmptyStatsType == emptyStats \in Stats
<1>1. emptyStats \in [{} -> [v : Nat, ts : Nat \ {0}]]
  BY DEF emptyStats
<1> QED
  BY ONLY <1>1 DEF Stats

\* The stats of a tick, their largest time and their report.
LEMMA StatsNowType ==
    ASSUME now \in Nat, now >= 2, NEW stats \in statsNow
    PROVE  stats \in Stats /\ maxTimestamp(stats) \in Int
<1>1. PICK S \in SUBSET ReportId : stats \in [S -> [v : FieldValue, ts : {now - 1, now}]]
  BY DEF statsNow, recordsOf
<1>2. now - 1 \in Nat \ {0} /\ now \in Nat \ {0} /\ now - 1 <= now
  OBVIOUS
<1>3. \A r \in S : stats[r] \in [v : Nat, ts : Nat \ {0}] /\ (stats[r].ts = now \/ stats[r].ts = now - 1)
  BY <1>1, <1>2, RtcStatsAssumption
<1>4. stats \in [S -> [v : Nat, ts : Nat \ {0}]]
  BY <1>1, <1>3
<1>5. DOMAIN stats = S
  BY <1>1
<1>6. ASSUME NEW s0 \in S PROVE maxTimestamp(stats) \in Int
  <2> DEFINE T == {stats[r].ts : r \in DOMAIN stats}
  <2>1. PICK ts \in T : \A r \in DOMAIN stats : stats[r].ts <= ts
    <3>1. CASE \E r \in S : stats[r].ts = now
      <4>1. now \in T
        BY <1>5, <3>1
      <4>2. \A r \in DOMAIN stats : stats[r].ts <= now
        BY <1>2, <1>3, <1>5
      <4> HIDE DEF T
      <4> QED
        BY <4>1, <4>2
    <3>2. CASE ~\E r \in S : stats[r].ts = now
      <4>1. stats[s0].ts \in T /\ stats[s0].ts = now - 1
        BY <1>3, <1>5, <3>2
      <4>2. \A r \in DOMAIN stats : stats[r].ts <= now - 1
        BY <1>2, <1>3, <1>5, <3>2
      <4> HIDE DEF T
      <4> QED
        BY <4>1, <4>2
    <3> QED
      BY <3>1, <3>2
  <2>2. \A t \in T : t \in Int
    BY <1>2, <1>3, <1>5
  <2>3. maxTimestamp(stats) = CHOOSE t \in T : \A r \in DOMAIN stats : stats[r].ts <= t
    BY <1>5 DEF maxTimestamp
  <2> HIDE DEF T
  <2>4. maxTimestamp(stats) \in T
    BY <2>1, <2>3
  <2> QED
    BY <2>2, <2>4
<1>7. ASSUME S = {} PROVE maxTimestamp(stats) \in Int
  BY <1>5, <1>7 DEF maxTimestamp
<1>8. stats \in Stats
  BY <1>4 DEF Stats
<1> QED
  BY <1>6, <1>7, <1>8

LEMMA ReportType ==
    ASSUME now \in Nat, NEW old, NEW stats \in Stats, maxTimestamp(stats) \in Int
    PROVE  [ts |-> now, delta |-> <<compressed(old, stats), maxTimestamp(stats)>>] \in Line
<1>1. PICK d : d = compressed(old, stats)
  OBVIOUS
<1>2. PICK S \in SUBSET ReportId : S = DOMAIN stats /\ stats \in [S -> [v : Nat, ts : Nat \ {0}]]
  BY StatsParts
<1>3. ASSUME NEW r \in S PROVE d[r] \in [v : Int, ts : Int]
  <2>1. PICK v \in Nat, t \in Nat \ {0} : stats[r] = [v |-> v, ts |-> t]
    BY <1>2
  <2>2. stats[r].v = v /\ stats[r].ts = t
    BY <2>1
  <2>3. d[r] = [v |-> IF r \in DOMAIN old /\ old[r].v = stats[r].v THEN Absent ELSE stats[r].v,
                ts |-> IF r \in DOMAIN old /\ old[r].ts = stats[r].ts THEN Absent
                       ELSE IF stats[r].ts = maxTimestamp(stats) THEN 0 ELSE stats[r].ts]
    BY <1>1, <1>2 DEF compressed
  <2> QED
    BY <2>2, <2>3 DEF Absent
<1>4. d = [r \in S |-> d[r]]
  BY <1>1, <1>2 DEF compressed
<1>5. d \in [S -> [v : Int, ts : Int]]
  BY <1>3, <1>4
<1>6. d \in Delta
  BY ONLY <1>5, S \in SUBSET ReportId DEF Delta
<1>7. <<d, maxTimestamp(stats)>> \in Delta \X Int
  BY <1>6
<1> QED
  BY <1>1, <1>7 DEF Line

(***************************************************************************)
(* The inductive invariant.  A queue holds lines up to now, a report behind *)
(* those that were stamped before it, and what the SFU has been sent, what  *)
(* is on its way and what is queued lead, report by report, to the baseline.*)
(***************************************************************************)
StatsTypes ==
    /\ now \in Nat /\ now >= 2
    /\ statsPeer \in 1 .. MaxStatsPeers
    /\ traceBuf \in [1 .. MaxStatsPeers -> Seq(Line)]
    /\ tracing \in [Tracer -> [state : {"idle", "stamped", "done"}, ts : Nat, peer : Nat]]
    /\ batch \in Seq(Line)
    /\ prevRtcStats \in Stats /\ snapshot = prevRtcStats
    /\ reportLost \in BOOLEAN
StampsPast ==
    \A t \in Tracer : tracing[t].state = "stamped" => tracing[t].ts <= now /\ tracing[t].peer \in 1 .. statsPeer
QueuePast(q) == LinesUpTo(q, now) /\ ReportsLast(q)
QueuesPast ==
    \A p \in 1 .. MaxStatsPeers : QueuePast(traceBuf[p]) /\ (p > statsPeer => traceBuf[p] = <<>>)
BatchesInOrder ==
    InOrder(batch) /\ \A i \in DOMAIN received : i > 1 => received[i - 1] <= received[i]
Leads(q) ==
    IF worker = "sending" THEN \E b \in Stats : Chain(batch, rebuilt, b) /\ Chain(q, b, prevRtcStats)
    ELSE Chain(q, rebuilt, prevRtcStats)
Owed == ~reportLost => Leads(traceBuf[statsPeer])
StatsInv == StatsTypes /\ StampsPast /\ QueuesPast /\ BatchesInOrder /\ Owed

LEMMA NoLines == <<>> \in Seq(Line) /\ InOrder(<<>>) /\ ReportsLast(<<>>)
BY DEF InOrder, ReportsLast

LEMMA StatsInvInit == RtcStatsInit => StatsInv
<1> SUFFICES ASSUME RtcStatsInit PROVE StatsInv
  OBVIOUS
<1> USE DEF RtcStatsInit
<1>1. 1 \in 1 .. MaxStatsPeers
  BY RtcStatsAssumption
<1>2. traceBuf \in [1 .. MaxStatsPeers -> Seq(Line)] /\ \A p \in 1 .. MaxStatsPeers : traceBuf[p] = <<>>
  BY NoLines
<1>3. StatsTypes
  <2>1. NotTracing \in [state : {"idle", "stamped", "done"}, ts : Nat, peer : Nat]
    BY DEF NotTracing
  <2>2. tracing \in [Tracer -> [state : {"idle", "stamped", "done"}, ts : Nat, peer : Nat]]
    BY <2>1
  <2>3. now \in Nat /\ now >= 2
    OBVIOUS
  <2>4. statsPeer \in 1 .. MaxStatsPeers /\ reportLost \in BOOLEAN /\ snapshot = prevRtcStats
    BY <1>1
  <2>5. batch \in Seq(Line) /\ prevRtcStats \in Stats
    BY NoLines, EmptyStatsType
  <2> QED
    BY ONLY <1>2, <2>2, <2>3, <2>4, <2>5 DEF StatsTypes
<1>4. StampsPast
  BY DEF StampsPast, NotTracing
<1>5. QueuesPast
  <2>1. LinesUpTo(<<>>, now) /\ ReportsLast(<<>>)
    BY DEF LinesUpTo, ReportsLast
  <2> QED
    BY <1>2, <2>1 DEF QueuesPast, QueuePast
<1>6. BatchesInOrder
  BY NoLines DEF BatchesInOrder
<1>7. Owed
  <2>1. traceBuf[statsPeer] = <<>>
    BY <1>1, <1>2
  <2>2. Chain(<<>>, emptyStats, emptyStats)
    BY ChainEmpty, EmptyStatsType
  <2> QED
    BY <2>1, <2>2 DEF Owed, Leads
<1> QED
  BY <1>3, <1>4, <1>5, <1>6, <1>7 DEF StatsInv

\* Time passing leaves the queues behind it.
LEMMA QueuesWait ==
    ASSUME StatsTypes, QueuesPast, StampsPast, now' = now + 1, UNCHANGED <<statsPeer, traceBuf, tracing>>
    PROVE  QueuesPast' /\ StampsPast' /\ now' \in Nat /\ now' >= 2
<1>1. now' \in Nat /\ now' >= 2
  BY DEF StatsTypes
<1>2. ASSUME NEW p \in 1 .. MaxStatsPeers PROVE LinesUpTo(traceBuf[p], now + 1)
  <2>1. PICK l \in Seq(Line) : l = traceBuf[p]
    BY DEF StatsTypes
  <2>2. \A i \in 1 .. Len(l) : l[i] \in Line
    BY ElementOfSeq
  <2>3. \A i \in 1 .. Len(l) : l[i].ts \in Nat
    BY <2>2 DEF Line
  <2>4. \A i \in 1 .. Len(l) : l[i].ts <= now
    BY <2>1 DEF QueuesPast, QueuePast, LinesUpTo
  <2>5. \A i \in 1 .. Len(l) : l[i].ts <= now + 1
    BY <2>3, <2>4 DEF StatsTypes
  <2> QED
    BY <2>1, <2>5 DEF LinesUpTo
<1>3. QueuesPast'
  BY <1>2 DEF QueuesPast, QueuePast
<1>4. StampsPast'
  BY DEF StampsPast, StatsTypes
<1> QED
  BY <1>1, <1>3, <1>4

LEMMA EmitStampsKeeps ==
    ASSUME StatsInv, NEW t \in Tracer, EmitStamps(t)
    PROVE  StatsInv'
<1> USE DEF StatsInv
<1>1. UNCHANGED <<now, worker, statsPeer, traceBuf, prevRtcStats, snapshot, batch, received, rebuilt, reportLost>>
  BY DEF EmitStamps
<1>2. tracing' = [tracing EXCEPT ![t] = [state |-> "stamped", ts |-> now, peer |-> statsPeer]]
  BY DEF EmitStamps
<1>3. StatsTypes'
  <2>1. statsPeer \in Nat
    BY RtcStatsAssumption DEF StatsTypes
  <2>2. tracing' \in [Tracer -> [state : {"idle", "stamped", "done"}, ts : Nat, peer : Nat]]
    BY <1>2, <2>1 DEF StatsTypes
  <2> QED
    BY <1>1, <2>2 DEF StatsTypes
<1>4. StampsPast'
  <2>1. \A u \in Tracer : tracing'[u] = IF u = t THEN [state |-> "stamped", ts |-> now, peer |-> statsPeer] ELSE tracing[u]
    BY <1>2 DEF StatsTypes
  <2>2. now <= now /\ statsPeer \in 1 .. statsPeer
    BY RtcStatsAssumption DEF StatsTypes
  <2> QED
    BY <1>1, <2>1, <2>2 DEF StampsPast
<1>5. QueuesPast' /\ BatchesInOrder' /\ Owed'
  BY <1>1 DEF QueuesPast, QueuePast, BatchesInOrder, Owed, Leads
<1> QED
  BY <1>3, <1>4, <1>5

LEMMA EmitQueuesKeeps ==
    ASSUME StatsInv, NEW t \in Tracer, EmitQueues(t)
    PROVE  StatsInv'
<1> USE DEF StatsInv
<1>1. UNCHANGED <<now, worker, statsPeer, prevRtcStats, snapshot, batch, received, rebuilt, reportLost>>
  BY DEF EmitQueues
<1>2. PICK p : p = tracing[t].peer
  OBVIOUS
<1>3. PICK x : x = traceLine(tracing[t].ts)
  OBVIOUS
<1>4. p \in 1 .. statsPeer /\ p \in 1 .. MaxStatsPeers /\ ~(p > statsPeer)
  <2>1. p \in 1 .. statsPeer
    BY <1>2 DEF EmitQueues, StampsPast
  <2> QED
    BY <2>1, RtcStatsAssumption DEF StatsTypes
<1>5. x \in Line /\ x.ts <= now /\ ~isReport(x)
  <2>1. tracing[t].ts \in Nat /\ tracing[t].ts <= now
    BY DEF EmitQueues, StampsPast, StatsTypes
  <2>2. x = [ts |-> tracing[t].ts, delta |-> <<>>]
    BY <1>3 DEF traceLine
  <2> QED
    BY <2>1, <2>2 DEF Line, isReport
<1>6. PICK l \in Seq(Line) : l = traceBuf[p]
  BY <1>4 DEF StatsTypes
<1>7. PICK r : r = Append(l, x)
  OBVIOUS
<1>8. r \in Seq(Line) /\ Spliced(r, l, Len(l) + 1, x) /\ Len(l) + 1 \in 1 .. Len(l) + 1
  BY ONLY <1>5, <1>6, <1>7, Queued
<1>9. traceBuf' = [traceBuf EXCEPT ![p] = r]
  BY <1>2, <1>3, <1>6, <1>7 DEF EmitQueues
<1>10. \A q \in 1 .. MaxStatsPeers : traceBuf'[q] = IF q = p THEN r ELSE traceBuf[q]
  BY <1>9 DEF StatsTypes
<1>11. tracing' = [tracing EXCEPT ![t].state = "done"]
  BY DEF EmitQueues
<1>12. StatsTypes'
  <2>1. traceBuf' \in [1 .. MaxStatsPeers -> Seq(Line)]
    BY <1>8, <1>9 DEF StatsTypes
  <2>2. tracing' \in [Tracer -> [state : {"idle", "stamped", "done"}, ts : Nat, peer : Nat]]
    BY <1>11 DEF StatsTypes
  <2> QED
    BY <1>1, <2>1, <2>2 DEF StatsTypes
<1>13. StampsPast'
  <2>1. \A u \in Tracer : tracing'[u] = tracing[u] \/ tracing'[u].state = "done"
    BY <1>11 DEF StatsTypes
  <2> QED
    BY <1>1, <2>1 DEF StampsPast
<1>14. QueuePast(r)
  <2>1. LinesUpTo(l, now) /\ ReportsLast(l) /\ now \in Nat
    BY <1>4, <1>6 DEF QueuesPast, QueuePast, StatsTypes
  <2>2. LinesUpTo(r, now) /\ ReportsLast(r)
    BY ONLY <1>5, <1>8, <2>1, QueuedPast, l \in Seq(Line)
  <2> QED
    BY <2>2 DEF QueuePast
<1>15. QueuesPast'
  BY <1>1, <1>4, <1>10, <1>14 DEF QueuesPast, QueuePast
<1>16. BatchesInOrder'
  BY <1>1 DEF BatchesInOrder
<1>17. Owed'
  <2> SUFFICES ASSUME ~reportLost PROVE Leads(traceBuf[statsPeer])'
    BY <1>1 DEF Owed
  <2>1. Leads(traceBuf[statsPeer])
    BY DEF Owed
  <2>2. statsPeer \in 1 .. MaxStatsPeers
    BY DEF StatsTypes
  <2>3. \A a, b : Chain(l, a, b) => Chain(r, a, b)
    BY ONLY <1>5, <1>8, ChainTakesLine, l \in Seq(Line)
  <2>4. CASE p = statsPeer
    <3>1. traceBuf'[statsPeer] = r
      BY <1>10, <2>2, <2>4
    <3>2. \A a, b : Chain(traceBuf[statsPeer], a, b) => Chain(traceBuf'[statsPeer], a, b)
      BY <1>6, <2>3, <2>4, <3>1
    <3> QED
      BY <1>1, <2>1, <3>2 DEF Leads
  <2>5. CASE p # statsPeer
    <3>1. traceBuf'[statsPeer] = traceBuf[statsPeer]
      BY <1>10, <2>2, <2>5
    <3> QED
      BY <1>1, <2>1, <3>1 DEF Leads
  <2> QED
    BY <2>4, <2>5
<1> QED
  BY <1>12, <1>13, <1>15, <1>16, <1>17

\* A queue without reports.
LEMMA NothingQueued ==
    ASSUME StatsTypes, ~reportQueued, NEW a, NEW b, Chain(traceBuf[statsPeer], a, b)
    PROVE  a = b
<1>1. PICK l \in Seq(Line) : l = traceBuf[statsPeer]
  BY DEF StatsTypes
<1>2. DOMAIN l = 1 .. Len(l)
  BY LenProperties
<1>3. \A i \in 1 .. Len(l) : ~isReport(l[i])
  BY <1>1, <1>2 DEF reportQueued
<1> QED
  BY ONLY <1>1, <1>3, ChainQuiet, Chain(traceBuf[statsPeer], a, b)

LEMMA NewStatsPeerKeeps ==
    ASSUME StatsInv, NewStatsPeer
    PROVE  StatsInv'
<1> USE DEF StatsInv
<1>1. UNCHANGED <<now, worker, traceBuf, tracing, prevRtcStats, snapshot, batch, received, rebuilt>>
  BY DEF NewStatsPeer
<1>2. statsPeer \in Nat /\ statsPeer' = statsPeer + 1 /\ statsPeer' \in 1 .. MaxStatsPeers
  BY RtcStatsAssumption DEF NewStatsPeer, StatsTypes
<1>3. reportLost' = (reportLost \/ reportQueued) /\ reportLost' \in BOOLEAN
  BY DEF NewStatsPeer
<1>4. StatsTypes'
  BY <1>1, <1>2, <1>3 DEF StatsTypes
<1>5. StampsPast'
  <2>1. \A p \in 1 .. statsPeer : p \in 1 .. statsPeer'
    BY <1>2
  <2> QED
    BY <1>1, <2>1 DEF StampsPast
<1>6. QueuesPast'
  <2>1. \A p \in 1 .. MaxStatsPeers : p > statsPeer' => p > statsPeer
    BY <1>2, RtcStatsAssumption
  <2> QED
    BY <1>1, <2>1 DEF QueuesPast, QueuePast
<1>7. BatchesInOrder'
  BY <1>1 DEF BatchesInOrder
<1>8. Owed'
  <2> SUFFICES ASSUME ~reportLost' PROVE Leads(traceBuf[statsPeer])'
    BY DEF Owed
  <2>1. ~reportLost /\ ~reportQueued
    BY <1>3
  <2>2. Leads(traceBuf[statsPeer])
    BY <2>1 DEF Owed
  <2>3. traceBuf'[statsPeer'] = <<>>
    <3>1. statsPeer' > statsPeer
      BY <1>2
    <3> QED
      BY <1>1, <1>2, <3>1 DEF QueuesPast
  <2>4. prevRtcStats \in Stats
    BY DEF StatsTypes
  <2>5. Chain(<<>>, prevRtcStats, prevRtcStats)
    BY <2>4, ChainEmpty
  <2>6. CASE worker = "sending"
    <3>1. PICK b \in Stats : Chain(batch, rebuilt, b) /\ Chain(traceBuf[statsPeer], b, prevRtcStats)
      BY <2>2, <2>6 DEF Leads
    <3>2. b = prevRtcStats
      BY ONLY <2>1, <3>1, NothingQueued, StatsTypes
    <3>3. Chain(batch, rebuilt, prevRtcStats)
      BY <3>1, <3>2
    <3> QED
      BY <1>1, <2>3, <2>4, <2>5, <2>6, <3>3 DEF Leads
  <2>7. CASE worker # "sending"
    <3>1. Chain(traceBuf[statsPeer], rebuilt, prevRtcStats)
      BY <2>2, <2>7 DEF Leads
    <3>2. rebuilt = prevRtcStats
      BY ONLY <2>1, <3>1, NothingQueued, StatsTypes
    <3> QED
      BY <1>1, <2>3, <2>5, <2>7, <3>2 DEF Leads
  <2> QED
    BY <2>6, <2>7
<1> QED
  BY <1>4, <1>5, <1>6, <1>7, <1>8

\* The ticks that send nothing.
LEMMA SkippedKeeps ==
    ASSUME StatsInv, SkipTick \/ StopStats \/ OtherPeerFails
    PROVE  StatsInv'
<1> USE DEF StatsInv
<1>1. UNCHANGED <<statsPeer, traceBuf, tracing, prevRtcStats, snapshot, batch, received, rebuilt, reportLost>>
  BY DEF SkipTick, StopStats, OtherPeerFails
<1>2. now' \in {now, now + 1} /\ worker # "sending" /\ worker' # "sending"
  BY DEF SkipTick, StopStats, OtherPeerFails
<1>3. QueuesPast' /\ StampsPast' /\ now' \in Nat /\ now' >= 2
  <2>1. CASE now' = now + 1
    BY <1>1, <2>1, QueuesWait
  <2>2. CASE now' = now
    BY <1>1, <2>2 DEF QueuesPast, QueuePast, StampsPast, StatsTypes
  <2> QED
    BY <1>2, <2>1, <2>2
<1>4. StatsTypes'
  BY <1>1, <1>3 DEF StatsTypes
<1>5. BatchesInOrder' /\ Owed'
  BY <1>1, <1>2 DEF BatchesInOrder, Owed, Leads
<1> QED
  BY <1>3, <1>4, <1>5

LEMMA CollectStatsKeeps ==
    ASSUME StatsInv, NEW stats \in statsNow, CollectRtcStats(stats)
    PROVE  StatsInv'
<1> USE DEF StatsInv
<1>1. UNCHANGED <<now, statsPeer, tracing, batch, received, rebuilt, reportLost>>
  BY DEF CollectRtcStats
<1>2. worker # "sending" /\ worker' # "sending"
  BY DEF CollectRtcStats
<1>3. snapshot' = stats /\ prevRtcStats' = stats
  BY DEF CollectRtcStats, nextBaseline
<1>4. PICK x : x = [ts |-> now, delta |-> <<compressed(prevRtcStats, stats), maxTimestamp(stats)>>]
  OBVIOUS
<1>5. stats \in Stats /\ maxTimestamp(stats) \in Int
  BY StatsNowType DEF StatsTypes
<1>6. x \in Line
  BY <1>4, <1>5, ReportType DEF StatsTypes
<1>7. x.ts = now /\ now <= now /\ x.delta = <<compressed(prevRtcStats, stats), maxTimestamp(stats)>>
  BY <1>4 DEF StatsTypes
<1>8. PICK l \in Seq(Line) : l = traceBuf[statsPeer] /\ statsPeer \in 1 .. MaxStatsPeers /\ ~(statsPeer > statsPeer)
  BY RtcStatsAssumption DEF StatsTypes
<1>9. PICK r : r = Append(l, x)
  OBVIOUS
<1>10. r \in Seq(Line) /\ Spliced(r, l, Len(l) + 1, x) /\ Len(l) + 1 \in 1 .. Len(l) + 1
  BY ONLY <1>6, <1>8, <1>9, Queued
<1>11. traceBuf' = [traceBuf EXCEPT ![statsPeer] = r]
  BY <1>4, <1>8, <1>9 DEF CollectRtcStats
<1>12. \A q \in 1 .. MaxStatsPeers : traceBuf'[q] = IF q = statsPeer THEN r ELSE traceBuf[q]
  BY <1>11 DEF StatsTypes
<1>13. StatsTypes'
  <2>1. traceBuf' \in [1 .. MaxStatsPeers -> Seq(Line)]
    BY <1>10, <1>11 DEF StatsTypes
  <2> QED
    BY <1>1, <1>3, <1>5, <2>1 DEF StatsTypes
<1>14. QueuePast(r)
  <2>1. LinesUpTo(l, now) /\ ReportsLast(l) /\ now \in Nat
    BY <1>8 DEF QueuesPast, QueuePast, StatsTypes
  <2>2. LinesUpTo(r, now) /\ ReportsLast(r)
    BY ONLY <1>6, <1>7, <1>10, <2>1, QueuedPast, l \in Seq(Line)
  <2> QED
    BY <2>2 DEF QueuePast
<1>15. QueuesPast'
  BY <1>1, <1>8, <1>12, <1>14 DEF QueuesPast, QueuePast
<1>16. StampsPast' /\ BatchesInOrder'
  BY <1>1 DEF BatchesInOrder, StampsPast
<1>17. Owed'
  <2> SUFFICES ASSUME ~reportLost PROVE Leads(traceBuf[statsPeer])'
    BY <1>1 DEF Owed
  <2>1. Chain(l, rebuilt, prevRtcStats)
    BY <1>2, <1>8 DEF Owed, Leads
  <2>2. Chain(r, rebuilt, stats)
    BY ONLY <1>5, <1>7, <1>10, <2>1, ChainTakesReport, l \in Seq(Line)
  <2>3. traceBuf'[statsPeer'] = r
    BY <1>1, <1>8, <1>12
  <2> QED
    BY <1>1, <1>2, <1>3, <2>2, <2>3 DEF Leads
<1> QED
  BY <1>13, <1>15, <1>16, <1>17

LEMMA CollectTracingKeeps ==
    ASSUME StatsInv, collectTracing
    PROVE  StatsInv'
<1> USE DEF StatsInv
<1>1. UNCHANGED <<now, statsPeer, tracing, prevRtcStats, snapshot, received, rebuilt, reportLost>>
  BY DEF collectTracing
<1>2. worker # "sending" /\ worker' = "sending"
  BY DEF collectTracing
<1>3. PICK l \in Seq(Line) : l = traceBuf[statsPeer] /\ statsPeer \in 1 .. MaxStatsPeers
  BY DEF StatsTypes
<1>4. ReportsLast(l)
  BY <1>3 DEF QueuesPast, QueuePast
<1>5. PICK s : s = sorted(l)
  OBVIOUS
<1>6. s \in Seq(Line) /\ InOrder(s) /\ \A a, b : Chain(l, a, b) => Chain(s, a, b)
  BY ONLY <1>4, <1>5, SortedKeeps, l \in Seq(Line)
<1>7. batch' = s
  BY <1>3, <1>5 DEF collectTracing
<1>8. traceBuf' = [traceBuf EXCEPT ![statsPeer] = <<>>]
  BY DEF collectTracing
<1>9. \A q \in 1 .. MaxStatsPeers : traceBuf'[q] = IF q = statsPeer THEN <<>> ELSE traceBuf[q]
  BY <1>8 DEF StatsTypes
<1>10. StatsTypes'
  <2>1. traceBuf' \in [1 .. MaxStatsPeers -> Seq(Line)]
    BY <1>8, NoLines DEF StatsTypes
  <2> QED
    BY <1>1, <1>6, <1>7, <2>1 DEF StatsTypes
<1>11. StampsPast'
  BY <1>1 DEF StampsPast
<1>12. QueuesPast'
  <2>1. LinesUpTo(<<>>, now) /\ ReportsLast(<<>>)
    BY DEF LinesUpTo, ReportsLast
  <2> QED
    BY <1>1, <1>9, <2>1 DEF QueuesPast, QueuePast
<1>13. BatchesInOrder'
  BY <1>1, <1>6, <1>7 DEF BatchesInOrder
<1>14. Owed'
  <2> SUFFICES ASSUME ~reportLost PROVE Leads(traceBuf[statsPeer])'
    BY <1>1 DEF Owed
  <2>1. Chain(l, rebuilt, prevRtcStats)
    BY <1>2, <1>3 DEF Owed, Leads
  <2>2. Chain(s, rebuilt, prevRtcStats)
    BY <1>6, <2>1
  <2>3. prevRtcStats \in Stats
    BY DEF StatsTypes
  <2>4. Chain(<<>>, prevRtcStats, prevRtcStats)
    BY <2>3, ChainEmpty
  <2>5. traceBuf'[statsPeer'] = <<>>
    BY <1>1, <1>3, <1>9
  <2> QED
    BY <1>1, <1>2, <1>7, <2>2, <2>3, <2>4, <2>5 DEF Leads
<1> QED
  BY <1>10, <1>11, <1>12, <1>13, <1>14

LEMMA SendStatsKeeps ==
    ASSUME StatsInv, NEW arrives \in BOOLEAN, SendStats(arrives)
    PROVE  StatsInv'
<1> USE DEF StatsInv
<1>1. UNCHANGED <<statsPeer, traceBuf, tracing, prevRtcStats, snapshot>> /\ now' = now + 1 /\ batch' = <<>>
  BY DEF SendStats
<1>2. worker = "sending" /\ worker' # "sending"
  BY DEF SendStats
<1>3. QueuesPast' /\ StampsPast' /\ now' \in Nat /\ now' >= 2
  BY <1>1, QueuesWait
<1>4. reportLost' = (reportLost \/ (~arrives /\ \E i \in DOMAIN batch : isReport(batch[i]))) /\ reportLost' \in BOOLEAN
  BY DEF SendStats
<1>5. StatsTypes'
  BY <1>1, <1>3, <1>4, NoLines DEF StatsTypes
<1>6. BatchesInOrder'
  <2>1. PICK l \in Seq(Line) : l = batch /\ DOMAIN l = 1 .. Len(l) /\ Len(l) \in Nat
    BY LenProperties DEF StatsTypes
  <2>2. CASE arrives
    <3>1. received' = [i \in 1 .. Len(l) |-> l[i].ts]
      BY <2>1, <2>2 DEF SendStats, timesOf
    <3>2. \A i \in 1 .. Len(l) : i > 1 => l[i - 1].ts <= l[i].ts
      BY <2>1 DEF BatchesInOrder, InOrder
    <3>3. \A i \in 1 .. Len(l) : i > 1 => i - 1 \in 1 .. Len(l)
      BY <2>1
    <3>4. \A i \in DOMAIN received' : i > 1 => received'[i - 1] <= received'[i]
      BY <3>1, <3>2, <3>3
    <3> QED
      BY <1>1, <3>4, NoLines DEF BatchesInOrder
  <2>3. CASE ~arrives
    <3>1. received' = received
      BY <2>3 DEF SendStats
    <3> QED
      BY <1>1, <3>1, NoLines DEF BatchesInOrder
  <2> QED
    BY <2>2, <2>3
<1>7. Owed'
  <2> SUFFICES ASSUME ~reportLost' PROVE Leads(traceBuf[statsPeer])'
    BY DEF Owed
  <2>1. ~reportLost /\ (arrives \/ \A i \in DOMAIN batch : ~isReport(batch[i]))
    BY <1>4
  <2>2. PICK b \in Stats : Chain(batch, rebuilt, b) /\ Chain(traceBuf[statsPeer], b, prevRtcStats)
    BY <1>2, <2>1 DEF Owed, Leads
  <2>3. PICK l \in Seq(Line) : l = batch /\ DOMAIN l = 1 .. Len(l)
    BY LenProperties DEF StatsTypes
  <2>4. CASE arrives
    <3>1. rebuilt' = appliedAll(rebuilt, l)
      BY <2>1, <2>3, <2>4 DEF SendStats
    <3>2. appliedAll(rebuilt, l) = b
      BY ONLY <2>2, <2>3, ChainApplies
    <3> QED
      BY <1>1, <1>2, <2>2, <3>1, <3>2 DEF Leads
  <2>5. CASE ~arrives
    <3>1. rebuilt' = rebuilt
      BY <2>5 DEF SendStats
    <3>2. \A i \in 1 .. Len(l) : ~isReport(l[i])
      BY <2>1, <2>3, <2>5
    <3>3. rebuilt = b
      BY ONLY <2>2, <2>3, <3>2, ChainQuiet
    <3> QED
      BY <1>1, <1>2, <2>2, <3>1, <3>3 DEF Leads
  <2> QED
    BY <2>4, <2>5
<1> QED
  BY <1>3, <1>5, <1>6, <1>7

LEMMA StatsInductive == StatsInv /\ [RtcStatsNext]_statsVars => StatsInv'
<1> SUFFICES ASSUME StatsInv, [RtcStatsNext]_statsVars PROVE StatsInv'
  OBVIOUS
<1>1. CASE \E t \in Tracer : EmitStamps(t) \/ EmitQueues(t)
  BY <1>1, EmitStampsKeeps, EmitQueuesKeeps
<1>2. CASE NewStatsPeer
  BY <1>2, NewStatsPeerKeeps
<1>3. CASE SkipTick \/ StopStats \/ OtherPeerFails
  BY <1>3, SkippedKeeps
<1>4. CASE \E stats \in statsNow : CollectRtcStats(stats)
  BY <1>4, CollectStatsKeeps
<1>5. CASE collectTracing
  BY <1>5, CollectTracingKeeps
<1>6. CASE \E arrives \in BOOLEAN : SendStats(arrives)
  BY <1>6, SendStatsKeeps
<1>7. CASE UNCHANGED statsVars
  BY <1>7 DEF statsVars, StatsInv, StatsTypes, StampsPast, QueuesPast, QueuePast, BatchesInOrder, Owed, Leads
<1> QED
  BY <1>1, <1>2, <1>3, <1>4, <1>5, <1>6, <1>7 DEF RtcStatsNext

\* As long as no report is lost, an SFU that applies the compressed reports (DeltaCompressionRtcStats)
\* in the order it gets them has rebuilt the stats last collected, and the lines of a batch are in
\* the order of their times: for every set of streams and counters, any number of goroutines that
\* race to queue trace lines, and any number of ticks and of changes of peers.
THEOREM StatsRebuiltCorrect == RtcStatsSpec => []StatsRebuilt
<1>1. StatsInv => StatsRebuilt
  <2> SUFFICES ASSUME StatsInv PROVE StatsRebuilt
    OBVIOUS
  <2>1. ASSUME ~reportLost, worker # "sending", ~reportQueued PROVE rebuilt = snapshot
    <3>1. Chain(traceBuf[statsPeer], rebuilt, prevRtcStats) /\ StatsTypes
      BY <2>1 DEF StatsInv, Owed, Leads
    <3>2. rebuilt = prevRtcStats
      BY ONLY <2>1, <3>1, NothingQueued
    <3> QED
      BY <3>1, <3>2 DEF StatsTypes
  <2> QED
    BY <2>1 DEF StatsRebuilt, StatsInv, BatchesInOrder
<1> QED
  BY <1>1, StatsInvInit, StatsInductive, PTL DEF RtcStatsSpec
=============================================================================
