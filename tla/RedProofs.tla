------------------------------ MODULE RedProofs ------------------------------
(***************************************************************************)
(* Proofs about the RED encoder and decoder.                               *)
(***************************************************************************)
EXTENDS MediaProofs, Red

\* Distances of wrapped numbers.
LEMMA WrapDiff ==
    ASSUME NEW a \in Int, NEW b \in Int, NEW d \in Nat \ {0}
    PROVE  ((a % d) - (b % d)) % d = (a - b) % d
<1>1. PICK r \in 0 .. d - 1 : r = a % d
  BY Remainder
<1>2. PICK q \in Int : a = q * d + r
  BY <1>1, Remainder
<1>3. PICK s \in 0 .. d - 1 : s = b % d
  BY Remainder
<1>4. PICK p \in Int : b = p * d + s
  BY <1>3, Remainder
<1>5. PICK k \in Int, y \in Int : k = q - p /\ y = r - s
  OBVIOUS
<1>6. k * d = q * d - p * d /\ k * d \in Int /\ q * d \in Int /\ p * d \in Int
  BY ONLY <1>5, d \in Nat, q \in Int, p \in Int
<1>7. a - b = y + k * d
  BY ONLY <1>2, <1>4, <1>5, <1>6, r \in 0 .. d - 1, s \in 0 .. d - 1, d \in Nat
<1>8. (y + k * d) % d = y % d
  BY ONLY RemainderSame, y \in Int, k \in Int, d \in Nat \ {0}
<1> QED
  BY ONLY <1>1, <1>3, <1>5, <1>7, <1>8

LEMMA WrapBack ==
    ASSUME NEW p \in Int, NEW d \in Nat \ {0}, NEW x \in 0 .. d - 1
    PROVE  (p - ((p - x) % d)) % d = x
<1>1. PICK y \in Int : y = p - x
  OBVIOUS
<1>2. PICK r \in 0 .. d - 1 : r = y % d
  BY Remainder
<1>3. PICK q \in Int : y = q * d + r
  BY <1>2, Remainder
<1>4. q * d \in Int /\ x \in Int /\ r \in Int
  OBVIOUS
<1>5. p - r = x + q * d
  BY ONLY <1>1, <1>3, <1>4, p \in Int
<1>6. (x + q * d) % d = x % d
  BY ONLY <1>4, RemainderSame, q \in Int, d \in Nat \ {0}
<1>7. x = 0 * d + x /\ 0 \in Int
  BY ONLY <1>4, d \in Nat \ {0}
<1>8. x % d = x
  BY ONLY <1>4, <1>7, RemainderUnique, x \in 0 .. d - 1, d \in Nat \ {0}
<1> QED
  BY ONLY <1>1, <1>2, <1>5, <1>6, <1>8

-----------------------------------------------------------------------------
(***************************************************************************)
(* The wire: what was put together is taken apart again.                   *)
(***************************************************************************)

\* s stands in w behind a elements.
StandsAt(w, s, a) == a + Len(s) <= Len(w) /\ \A x \in 1 .. Len(s) : w[a + x] = s[x]

LEMMA SubSeqIs ==
    ASSUME NEW S, NEW w \in Seq(S), NEW s \in Seq(S), NEW a \in Nat, StandsAt(w, s, a)
    PROVE  SubSeq(w, a + 1, a + Len(s)) = s
<1>1. PICK n \in Nat, l \in Nat : n = Len(s) /\ l = Len(w)
  BY LenProperties
<1>2. a + n <= l /\ \A x \in 1 .. n : w[a + x] = s[x]
  BY <1>1 DEF StandsAt
<1>3. PICK u : u = SubSeq(w, a + 1, a + n)
  OBVIOUS
<1>4. /\ u \in Seq(S) /\ Len(u) = IF a + 1 <= a + n THEN (a + n) - (a + 1) + 1 ELSE 0
      /\ \A i \in 1 .. (a + n) - (a + 1) + 1 : u[i] = w[(a + 1) + i - 1]
  <2>1. a + 1 \in Int /\ a + n \in Int /\ \A i \in a + 1 .. a + n : w[i] \in S
    <3>1. \A i \in a + 1 .. a + n : i \in 1 .. l
      BY <1>2
    <3> QED
      BY <1>1, <3>1, ElementOfSeq
  <2> QED
    BY ONLY <1>3, <2>1, SubSeqProperties
<1>5. Len(u) = n /\ \A i \in 1 .. n : u[i] = s[i]
  <2>1. Len(u) = n
    BY ONLY <1>4, a \in Nat, n \in Nat
  <2>2. \A i \in 1 .. n : i \in 1 .. (a + n) - (a + 1) + 1 /\ (a + 1) + i - 1 = a + i
    OBVIOUS
  <2> QED
    BY ONLY <1>2, <1>4, <2>1, <2>2
<1>6. u = s
  BY ONLY <1>1, <1>4, <1>5, SeqEqual, s \in Seq(S)
<1> QED
  BY <1>1, <1>3, <1>6

\* The flattening of sequences, as the equation that defines it.
Flattens(f, seqs) ==
    f = [i \in 1 .. Len(seqs) |-> IF i = 1 THEN seqs[i] ELSE f[i - 1] \o seqs[i]]

LEMMA FlattensExists ==
    ASSUME NEW S, NEW seqs \in Seq(Seq(S))
    PROVE  \E f : Flattens(f, seqs)
<1>1. PICK m \in Nat : m = Len(seqs)
  BY LenProperties
<1>2. \A i \in 1 .. m : seqs[i] \in Seq(S)
  BY <1>1, ElementOfSeq
<1>3. PICK Q : Q = Seq(S)
  OBVIOUS
<1>4. PICK F : F = [p \in (1 .. m) \X Q |-> p[2] \o seqs[p[1]]]
  OBVIOUS
<1>5. F \in [(1 .. m) \X Q -> Q] /\ <<>> \in Q
  <2>1. \A p \in (1 .. m) \X Q : p[2] \o seqs[p[1]] \in Q
    BY <1>2, <1>3, ConcatProperties
  <2> QED
    BY <1>3, <1>4, <2>1
<1>6. StepsAlong(m, Q, <<>>, F)
  BY ONLY <1>5, StepsExist, m \in Nat
<1>7. PICK g \in [0 .. m -> Q] : g[0] = <<>> /\ \A i \in 1 .. m : g[i] = F[<<i, g[i - 1]>>]
  BY <1>6, Zenon DEF StepsAlong
<1>8. ASSUME NEW i \in 1 .. m PROVE g[i] = g[i - 1] \o seqs[i] /\ (i = 1 => g[i] = seqs[i])
  <2>1. PICK h \in Q : h = g[i - 1]
    <3>1. i - 1 \in 0 .. m
      OBVIOUS
    <3> QED
      BY <3>1
  <2>2. <<i, h>> \in (1 .. m) \X Q /\ <<i, h>>[1] = i /\ <<i, h>>[2] = h
    OBVIOUS
  <2>3. F[<<i, h>>] = h \o seqs[i]
    BY ONLY <1>4, <2>2
  <2>4. g[i] = h \o seqs[i]
    BY ONLY <1>7, <2>1, <2>3, i \in 1 .. m
  <2>5. ASSUME i = 1 PROVE g[i] = seqs[i]
    <3>1. h = <<>>
      BY <1>7, <2>1, <2>5
    <3>2. seqs[i] \in Seq(S)
      BY <1>2
    <3>3. <<>> \o seqs[i] = seqs[i]
      BY <3>2, ConcatEmptySeq
    <3> QED
      BY <2>4, <3>1, <3>3
  <2> QED
    BY <2>1, <2>4, <2>5
<1>9. PICK f : f = [i \in 1 .. m |-> g[i]]
  OBVIOUS
<1>10. ASSUME NEW i \in 1 .. m PROVE f[i] = IF i = 1 THEN seqs[i] ELSE f[i - 1] \o seqs[i]
  <2>1. f[i] = g[i]
    BY <1>9
  <2>2. i # 1 => f[i - 1] = g[i - 1]
    <3>1. i # 1 => i - 1 \in 1 .. m
      OBVIOUS
    <3> QED
      BY <1>9, <3>1
  <2> QED
    BY ONLY <1>8, <2>1, <2>2, i \in 1 .. m
<1>11. f = [i \in 1 .. m |-> f[i]]
  BY <1>9
<1>12. f = [i \in 1 .. m |-> IF i = 1 THEN seqs[i] ELSE f[i - 1] \o seqs[i]]
  BY ONLY <1>10, <1>11, Zenon
<1> QED
  BY ONLY <1>1, <1>12, Zenon DEF Flattens

\* r is w with t behind it.
Joined(S, w, t, r) ==
    /\ r \in Seq(S) /\ Len(r) = Len(w) + Len(t) /\ StandsAt(r, t, Len(w))
    /\ \A s \in Seq(S), a \in Nat : StandsAt(w, s, a) => StandsAt(r, s, a)

LEMMA StandsOn ==
    ASSUME NEW S, NEW w \in Seq(S), NEW t \in Seq(S)
    PROVE  Joined(S, w, t, w \o t)
<1>0. PICK r : r = w \o t
  OBVIOUS
<1>1. PICK n \in Nat, l \in Nat : n = Len(t) /\ l = Len(w)
  BY LenProperties
<1>2. r \in Seq(S) /\ Len(r) = l + n /\ \A i \in 1 .. l + n : r[i] = IF i <= l THEN w[i] ELSE t[i - l]
  BY <1>0, <1>1, ConcatProperties
<1>3. StandsAt(r, t, l)
  <2>1. \A x \in 1 .. n : l + x \in 1 .. l + n /\ ~(l + x <= l) /\ (l + x) - l = x
    OBVIOUS
  <2>2. \A x \in 1 .. n : r[l + x] = t[x]
    BY ONLY <1>2, <2>1
  <2>3. l + n <= Len(r)
    BY ONLY <1>1, <1>2
  <2> QED
    BY ONLY <1>1, <2>2, <2>3 DEF StandsAt
<1>4. ASSUME NEW s \in Seq(S), NEW a \in Nat, StandsAt(w, s, a) PROVE StandsAt(r, s, a)
  <2>1. PICK k \in Nat : k = Len(s)
    BY LenProperties
  <2>2. a + k <= l /\ \A x \in 1 .. k : w[a + x] = s[x]
    BY <1>1, <1>4, <2>1 DEF StandsAt
  <2>3. a + k <= l + n /\ \A x \in 1 .. k : a + x \in 1 .. l + n /\ a + x <= l
    BY ONLY <2>2, a \in Nat, k \in Nat, l \in Nat, n \in Nat
  <2>4. \A x \in 1 .. k : r[a + x] = s[x]
    BY ONLY <1>2, <2>2, <2>3
  <2> QED
    BY ONLY <1>2, <2>1, <2>3, <2>4 DEF StandsAt
<1> QED
  BY ONLY <1>0, <1>1, <1>2, <1>3, <1>4 DEF Joined

\* Where each of the sequences ends.
Offsets(e, seqs) ==
    /\ e \in [0 .. Len(seqs) -> Nat] /\ e[0] = 0
    /\ \A i \in 1 .. Len(seqs) : e[i] = e[i - 1] + Len(seqs[i])

Flat(S, w, seqs, e, n) ==
    w \in Seq(S) /\ Len(w) = e[n] /\ \A j \in 1 .. n : StandsAt(w, seqs[j], e[j - 1])

LEMMA FlatStep ==
    ASSUME NEW S, NEW seqs \in Seq(Seq(S)), NEW e, Offsets(e, seqs), NEW i \in 1 .. Len(seqs),
           NEW w, Flat(S, w, seqs, e, i - 1)
    PROVE  Flat(S, w \o seqs[i], seqs, e, i)
<1>1. PICK m \in Nat : m = Len(seqs)
  BY LenProperties
<1>2. \A j \in 1 .. m : seqs[j] \in Seq(S) /\ e[j - 1] \in Nat
  <2>1. \A j \in 1 .. m : seqs[j] \in Seq(S)
    BY <1>1, ElementOfSeq
  <2>2. \A j \in 1 .. m : j - 1 \in 0 .. m
    OBVIOUS
  <2> QED
    BY <1>1, <2>1, <2>2 DEF Offsets
<1>a. PICK t \in Seq(S) : t = seqs[i]
  BY <1>1, <1>2
<1>3. PICK r : t = seqs[i] /\ r = w \o t
  BY <1>a
<1>4. w \in Seq(S) /\ Len(w) = e[i - 1] /\ \A j \in 1 .. i - 1 : StandsAt(w, seqs[j], e[j - 1])
  BY DEF Flat
<1>b. Joined(S, w, t, r)
  BY ONLY <1>3, <1>4, StandsOn, t \in Seq(S)
<1>5. /\ r \in Seq(S) /\ Len(r) = Len(w) + Len(t) /\ StandsAt(r, t, Len(w))
      /\ \A s \in Seq(S), a \in Nat : StandsAt(w, s, a) => StandsAt(r, s, a)
  BY ONLY <1>b DEF Joined
<1>6. Len(r) = e[i]
  BY <1>3, <1>4, <1>5 DEF Offsets
<1>7. ASSUME NEW j \in 1 .. i PROVE StandsAt(r, seqs[j], e[j - 1])
  <2>1. CASE j = i
    BY <1>3, <1>4, <1>5, <2>1
  <2>2. CASE j # i
    <3>1. j \in 1 .. i - 1 /\ j \in 1 .. m
      BY <1>1, <2>2
    <3> QED
      BY ONLY <1>2, <1>4, <1>5, <3>1
  <2> QED
    BY <2>1, <2>2
<1> QED
  BY ONLY <1>3, <1>5, <1>6, <1>7 DEF Flat

LEMMA FlattenIsFlat ==
    ASSUME NEW S, NEW seqs \in Seq(Seq(S)), NEW e, Offsets(e, seqs)
    PROVE  Flat(S, FlattenSeq(seqs), seqs, e, Len(seqs))
<1>1. PICK m \in Nat : m = Len(seqs)
  BY LenProperties
<1>2. Flat(S, <<>>, seqs, e, 0)
  BY DEF Flat, Offsets
<1>3. CASE m = 0
  <2>1. seqs = <<>>
    BY <1>1, <1>3, EmptySeq
  <2>2. FlattenSeq(seqs) = seqs
    BY <1>1, <1>3 DEF FlattenSeq
  <2> QED
    BY <1>1, <1>2, <1>3, <2>1, <2>2
<1>4. CASE m # 0
  <2>1. PICK f : f = CHOOSE g : Flattens(g, seqs)
    OBVIOUS
  <2>2. Flattens(f, seqs)
    BY ONLY <2>1, FlattensExists, seqs \in Seq(Seq(S))
  <2>3. FlattenSeq(seqs) = f[m]
    BY <1>1, <1>4, <2>1 DEF FlattenSeq, Flattens
  <2>4. \A i \in 1 .. m : f[i] = IF i = 1 THEN seqs[i] ELSE f[i - 1] \o seqs[i]
    BY ONLY <1>1, <2>2, Zenon DEF Flattens
  <2> DEFINE Off == {i \in Nat : i \in 1 .. m /\ ~Flat(S, f[i], seqs, e, i)}
  <2>5. Off = {}
    <3> SUFFICES ASSUME Off # {} PROVE FALSE
      OBVIOUS
    <3>1. PICK i \in Off : \A j \in Off : i <= j
      <4>1. Off \in SUBSET Nat
        OBVIOUS
      <4> HIDE DEF Off
      <4> QED
        BY <4>1, LeastOf
    <3>2. i \in 1 .. m /\ ~Flat(S, f[i], seqs, e, i)
      OBVIOUS
    <3>3. CASE i = 1
      <4>1. seqs[1] \in Seq(S) /\ 1 \in 1 .. Len(seqs) /\ 1 - 1 = 0
        BY <1>1, <3>2, <3>3, ElementOfSeq
      <4>2. <<>> \o seqs[1] = seqs[1]
        BY ONLY <4>1, ConcatEmptySeq
      <4>3. Flat(S, <<>> \o seqs[1], seqs, e, 1)
        BY ONLY <1>2, <4>1, FlatStep, seqs \in Seq(Seq(S)), Offsets(e, seqs)
      <4>4. f[1] = seqs[1]
        BY <2>4, <3>2, <3>3
      <4> QED
        BY ONLY <3>2, <3>3, <4>2, <4>3, <4>4
    <3>4. CASE i # 1
      <4>1. i - 1 \in 1 .. m /\ i - 1 \in Nat /\ ~(i <= i - 1)
        BY <3>2, <3>4
      <4>2. Flat(S, f[i - 1], seqs, e, i - 1)
        BY <3>1, <4>1
      <4>3. Flat(S, f[i - 1] \o seqs[i], seqs, e, i)
        BY ONLY <1>1, <3>2, <4>2, FlatStep, seqs \in Seq(Seq(S)), Offsets(e, seqs)
      <4>4. f[i] = f[i - 1] \o seqs[i]
        BY <2>4, <3>2, <3>4
      <4> QED
        BY ONLY <3>2, <4>3, <4>4
    <3> QED
      BY <3>3, <3>4
  <2>6. m \in Nat /\ m \in 1 .. m
    BY <1>4
  <2> QED
    BY <1>1, <2>3, <2>5, <2>6
<1> QED
  BY <1>3, <1>4

Header == [off : Nat, len : Nat]

\* Where the blocks end: the numbers, and parse's recursive function.
HeaderEnds(e, h) ==
    /\ e \in [0 .. Len(h) -> Nat] /\ e[0] = 0
    /\ \A i \in 1 .. Len(h) : e[i] = e[i - 1] + h[i].len
Ends(f, h) == f = [i \in 0 .. Len(h) |-> IF i = 0 THEN 0 ELSE f[i - 1] + h[i].len]

LEMMA HeaderEndsExist ==
    ASSUME NEW h \in Seq(Header)
    PROVE  \E e : HeaderEnds(e, h)
<1>1. PICK m \in Nat : m = Len(h)
  BY LenProperties
<1>2. \A i \in 1 .. m : h[i].len \in Nat
  <2>1. \A i \in 1 .. m : h[i] \in Header
    BY <1>1, ElementOfSeq
  <2> QED
    BY <2>1 DEF Header
<1>3. PICK F : F = [p \in (1 .. m) \X Nat |-> p[2] + h[p[1]].len]
  OBVIOUS
<1>4. F \in [(1 .. m) \X Nat -> Nat] /\ 0 \in Nat
  <2>1. \A p \in (1 .. m) \X Nat : p[2] + h[p[1]].len \in Nat
    BY <1>2
  <2> QED
    BY <1>3, <2>1
<1>5. StepsAlong(m, Nat, 0, F)
  BY ONLY <1>4, StepsExist, m \in Nat
<1>6. PICK g \in [0 .. m -> Nat] : g[0] = 0 /\ \A i \in 1 .. m : g[i] = F[<<i, g[i - 1]>>]
  BY <1>5, Zenon DEF StepsAlong
<1>7. ASSUME NEW i \in 1 .. m PROVE g[i] = g[i - 1] + h[i].len
  <2>1. PICK v \in Nat : v = g[i - 1]
    <3>1. i - 1 \in 0 .. m
      OBVIOUS
    <3> QED
      BY <3>1
  <2>2. <<i, v>> \in (1 .. m) \X Nat /\ <<i, v>>[1] = i /\ <<i, v>>[2] = v
    OBVIOUS
  <2>3. F[<<i, v>>] = v + h[i].len
    BY ONLY <1>3, <2>2
  <2> QED
    BY ONLY <1>6, <2>1, <2>3, i \in 1 .. m
<1> QED
  BY ONLY <1>1, <1>6, <1>7 DEF HeaderEnds

LEMMA EndsAre ==
    ASSUME NEW h \in Seq(Header), NEW e, HeaderEnds(e, h), NEW f, f = CHOOSE g : Ends(g, h)
    PROVE  \A i \in 0 .. Len(h) : f[i] = e[i]
<1>1. PICK m \in Nat : m = Len(h)
  BY LenProperties
<1>2. e \in [0 .. m -> Nat] /\ e[0] = 0 /\ \A i \in 1 .. m : e[i] = e[i - 1] + h[i].len
  BY <1>1 DEF HeaderEnds
<1>3. Ends(e, h)
  <2>1. \A i \in 0 .. m : e[i] = IF i = 0 THEN 0 ELSE e[i - 1] + h[i].len
    <3> SUFFICES ASSUME NEW i \in 0 .. m PROVE e[i] = IF i = 0 THEN 0 ELSE e[i - 1] + h[i].len
      OBVIOUS
    <3>1. i = 0 \/ i \in 1 .. m
      OBVIOUS
    <3> QED
      BY ONLY <1>2, <3>1, Zenon
  <2>2. e = [i \in 0 .. m |-> e[i]]
    BY <1>2
  <2> QED
    BY ONLY <1>1, <2>1, <2>2, Zenon DEF Ends
<1>4. Ends(f, h)
  BY ONLY <1>3, f = CHOOSE g : Ends(g, h), Zenon
<1>5. \A i \in 0 .. m : f[i] = IF i = 0 THEN 0 ELSE f[i - 1] + h[i].len
  BY ONLY <1>1, <1>4, Zenon DEF Ends
<1> DEFINE Off == {i \in Nat : i <= m /\ f[i] # e[i]}
<1>6. Off = {}
  <2> SUFFICES ASSUME Off # {} PROVE FALSE
    OBVIOUS
  <2>1. PICK i \in Off : \A j \in Off : i <= j
    <3>1. Off \in SUBSET Nat
      OBVIOUS
    <3> HIDE DEF Off
    <3> QED
      BY <3>1, LeastOf
  <2>2. i \in 0 .. m /\ f[i] # e[i]
    OBVIOUS
  <2>3. i # 0
    BY <1>2, <1>5, <2>2
  <2>4. i \in 1 .. m /\ i - 1 \in Nat /\ i - 1 <= m /\ ~(i <= i - 1)
    BY <2>2, <2>3
  <2>5. f[i - 1] = e[i - 1]
    BY <2>1, <2>4
  <2>6. f[i] = f[i - 1] + h[i].len /\ e[i] = e[i - 1] + h[i].len
    BY ONLY <1>2, <1>5, <2>2, <2>3, <2>4
  <2> QED
    BY ONLY <2>2, <2>5, <2>6
<1> QED
  BY <1>1, <1>6

\* p, its m headers h and its bytes, taken apart.
Parsed(p, h, bytes, e, m) ==
    /\ parse(p).primary = SubSeq(bytes, e[m] + 1, Len(bytes))
    /\ parse(p).redundant = [i \in 1 .. m |->
         [off |-> h[i].off, payload |-> SubSeq(bytes, e[i - 1] + 1, e[i])]]

LEMMA ParseIs ==
    ASSUME NEW p, NEW h \in Seq(Header), h = p.headers, NEW e, HeaderEnds(e, h)
    PROVE  Parsed(p, h, p.bytes, e, Len(h))
<1>1. PICK f : f = CHOOSE g : Ends(g, h)
  OBVIOUS
<1>2. \A i \in 0 .. Len(h) : f[i] = e[i]
  BY ONLY <1>1, EndsAre, h \in Seq(Header), HeaderEnds(e, h)
<1>3. /\ parse(p).primary = SubSeq(p.bytes, f[Len(h)] + 1, Len(p.bytes))
      /\ parse(p).redundant = [i \in 1 .. Len(h) |->
           [off |-> h[i].off, payload |-> SubSeq(p.bytes, f[i - 1] + 1, f[i])]]
  <2>1. PICK r : r = [i \in 1 .. Len(h) |-> [off |-> h[i].off, payload |-> SubSeq(p.bytes, f[i - 1] + 1, f[i])]]
    OBVIOUS
  <2>2. PICK l : l = SubSeq(p.bytes, f[Len(h)] + 1, Len(p.bytes))
    OBVIOUS
  <2>3. f = CHOOSE g : Ends(g, p.headers)
    BY <1>1
  <2>4. parse(p) = [redundant |-> [i \in 1 .. Len(p.headers) |->
                       [off |-> p.headers[i].off, payload |-> SubSeq(p.bytes, f[i - 1] + 1, f[i])]],
                     primary |-> SubSeq(p.bytes, f[Len(p.headers)] + 1, Len(p.bytes))]
    BY ONLY <2>3 DEF parse, Ends
  <2>5. parse(p) = [redundant |-> r, primary |-> l]
    BY ONLY <2>1, <2>2, <2>4, h = p.headers
  <2>6. parse(p).primary = l /\ parse(p).redundant = r
    BY ONLY <2>5
  <2> QED
    BY ONLY <2>1, <2>2, <2>6, Zenon
<1>4. Len(h) \in Nat
  BY LenProperties
<1>5. f[Len(h)] = e[Len(h)] /\ \A i \in 1 .. Len(h) : f[i - 1] = e[i - 1] /\ f[i] = e[i]
  BY <1>2, <1>4
<1>6. \A i \in 1 .. Len(h) : [off |-> h[i].off, payload |-> SubSeq(p.bytes, f[i - 1] + 1, f[i])]
                             = [off |-> h[i].off, payload |-> SubSeq(p.bytes, e[i - 1] + 1, e[i])]
  BY ONLY <1>5, Zenon
<1> QED
  BY ONLY <1>3, <1>5, <1>6, Zenon DEF Parsed

RedPacket == [seq : 0 .. 2^RedWidth - 1, ts : 0 .. 2^TsWidth - 1, payload : Seq(Nat \X Nat)]

LEMMA RedPacketParts ==
    ASSUME NEW f \in RedPacket
    PROVE  /\ f.seq \in 0 .. 2^RedWidth - 1 /\ f.ts \in 0 .. 2^TsWidth - 1 /\ f.payload \in Seq(Nat \X Nat)
           /\ f = [seq |-> f.seq, ts |-> f.ts, payload |-> f.payload] /\ Len(f.payload) \in Nat
<1>1. /\ f.seq \in 0 .. 2^RedWidth - 1 /\ f.ts \in 0 .. 2^TsWidth - 1 /\ f.payload \in Seq(Nat \X Nat)
      /\ f = [seq |-> f.seq, ts |-> f.ts, payload |-> f.payload]
  BY DEF RedPacket
<1> QED
  BY <1>1, LenProperties

\* A number that fits a field is not changed by it.
LEMMA FitsField ==
    ASSUME NEW a \in Nat, NEW b \in Nat, a <= b
    PROVE  a % (b + 1) = a
<1>1. PICK d \in Nat \ {0} : d = b + 1
  OBVIOUS
<1>2. a \in 0 .. d - 1 /\ a = 0 * d + a /\ 0 \in Int /\ a \in Int
  BY <1>1
<1>3. a % d = a
  BY ONLY <1>2, RemainderUnique, d \in Nat \ {0}
<1> QED
  BY <1>1, <1>3

\* What Encode makes of the frames it repeats.
WireOf(fs, pkt) ==
    [headers |-> [i \in 1 .. Len(fs) |->
                    [off |-> tsDiff(pkt.ts, fs[i].ts) % (MaxOffset + 1),
                     len |-> Len(fs[i].payload) % (MaxBlock + 1)]],
     bytes |-> FlattenSeq([i \in 1 .. Len(fs) |-> fs[i].payload]) \o pkt.payload]

Unwraps(w, fs, pkt) ==
    /\ Len(w.headers) = Len(fs)
    /\ parse(w).primary = pkt.payload
    /\ parse(w).redundant = [i \in 1 .. Len(fs) |->
         [off |-> tsDiff(pkt.ts, fs[i].ts), payload |-> fs[i].payload]]

LEMMA WireParses ==
    ASSUME NEW fs \in Seq(RedPacket), NEW pkt \in RedPacket, \A i \in 1 .. Len(fs) : fitsHeader(pkt, fs[i]),
           NEW w, w = WireOf(fs, pkt)
    PROVE  Unwraps(w, fs, pkt)
<1>1. PICK m \in Nat : m = Len(fs)
  BY LenProperties
<1>2. \A i \in 1 .. m : fs[i] \in RedPacket
  BY <1>1, ElementOfSeq
<1>3. PICK B : B = Nat \X Nat
  OBVIOUS
<1>4. \A i \in 1 .. m : fs[i].payload \in Seq(B) /\ Len(fs[i].payload) \in Nat /\ fs[i].ts \in Int
  BY <1>2, <1>3, RedPacketParts, RedPowers
<1>5. pkt.payload \in Seq(B) /\ pkt.ts \in Int
  BY <1>3, RedPacketParts, RedPowers
<1>6. PICK h : h = [i \in 1 .. m |-> [off |-> tsDiff(pkt.ts, fs[i].ts) % (MaxOffset + 1),
                                      len |-> Len(fs[i].payload) % (MaxBlock + 1)]]
  OBVIOUS
<1>7. PICK seqs : seqs = [i \in 1 .. m |-> fs[i].payload]
  OBVIOUS
<1>8. PICK bytes : bytes = FlattenSeq(seqs) \o pkt.payload
  OBVIOUS
<1>9. w = [headers |-> h, bytes |-> bytes]
  BY ONLY <1>1, <1>6, <1>7, <1>8, w = WireOf(fs, pkt) DEF WireOf
<1>10. w.headers = h /\ w.bytes = bytes
  BY ONLY <1>9
<1>11. ASSUME NEW i \in 1 .. m
       PROVE  h[i] \in Header /\ h[i].off = tsDiff(pkt.ts, fs[i].ts) /\ h[i].len = Len(fs[i].payload)
  <2>1. PICK t \in Nat : t = tsDiff(pkt.ts, fs[i].ts)
    <3>1. PICK y \in Int : y = pkt.ts - fs[i].ts
      BY <1>4, <1>5
    <3>2. y % 2^TsWidth \in 0 .. 2^TsWidth - 1
      BY ONLY RedPowers, Remainder, y \in Int
    <3>3. y % 2^TsWidth \in Nat
      BY ONLY <3>2, RedPowers
    <3> QED
      BY <3>1, <3>3 DEF tsDiff
  <2>2. PICK l \in Nat : l = Len(fs[i].payload)
    BY <1>4
  <2>3. t <= MaxOffset /\ l <= MaxBlock
    BY <1>1, <2>1, <2>2 DEF fitsHeader
  <2>4. t % (MaxOffset + 1) = t /\ l % (MaxBlock + 1) = l
    BY ONLY <2>3, FitsField, RedAssumption, t \in Nat, l \in Nat
  <2>5. h[i] = [off |-> t, len |-> l]
    BY ONLY <1>6, <2>1, <2>2, <2>4, i \in 1 .. m
  <2> QED
    BY ONLY <2>1, <2>2, <2>5, t \in Nat, l \in Nat DEF Header
<1>12. h \in Seq(Header) /\ Len(h) = m
  <2>1. h = [i \in 1 .. m |-> h[i]]
    BY ONLY <1>6
  <2>2. h \in [1 .. m -> Header]
    BY ONLY <1>11, <2>1
  <2> QED
    BY ONLY <2>2, m \in Nat
<1>13. seqs \in Seq(Seq(B)) /\ Len(seqs) = m /\ \A i \in 1 .. m : seqs[i] = fs[i].payload
  <2>1. seqs \in [1 .. m -> Seq(B)]
    BY ONLY <1>4, <1>7
  <2>2. seqs \in Seq(Seq(B)) /\ Len(seqs) = m
    BY ONLY <2>1, m \in Nat
  <2> QED
    BY ONLY <1>7, <2>2
<1>14. PICK e : HeaderEnds(e, h)
  BY ONLY <1>12, HeaderEndsExist
<1>15. e \in [0 .. m -> Nat] /\ e[0] = 0 /\ \A i \in 1 .. m : e[i] = e[i - 1] + Len(seqs[i])
  BY ONLY <1>11, <1>12, <1>13, <1>14 DEF HeaderEnds
<1>16. Offsets(e, seqs)
  BY ONLY <1>13, <1>15 DEF Offsets
<1>17. PICK flat : flat = FlattenSeq(seqs)
  OBVIOUS
<1>18. Flat(B, flat, seqs, e, m)
  BY ONLY <1>13, <1>16, <1>17, FlattenIsFlat
<1>19. flat \in Seq(B) /\ Len(flat) = e[m] /\ \A j \in 1 .. m : StandsAt(flat, seqs[j], e[j - 1])
  BY ONLY <1>18 DEF Flat
<1>20. Joined(B, flat, pkt.payload, bytes)
  BY ONLY <1>5, <1>8, <1>17, <1>19, StandsOn
<1>21. /\ bytes \in Seq(B) /\ Len(bytes) = e[m] + Len(pkt.payload) /\ StandsAt(bytes, pkt.payload, e[m])
       /\ \A s \in Seq(B), a \in Nat : StandsAt(flat, s, a) => StandsAt(bytes, s, a)
  BY ONLY <1>19, <1>20 DEF Joined
<1>22. m \in 0 .. m /\ e[m] \in Nat /\ \A i \in 1 .. m : i - 1 \in 0 .. m /\ e[i - 1] \in Nat
  <2>1. m \in 0 .. m /\ \A i \in 1 .. m : i - 1 \in 0 .. m
    OBVIOUS
  <2> QED
    BY ONLY <1>15, <2>1
<1>23. SubSeq(bytes, e[m] + 1, e[m] + Len(pkt.payload)) = pkt.payload
  BY ONLY <1>5, <1>21, <1>22, SubSeqIs
<1>24. ASSUME NEW i \in 1 .. m PROVE SubSeq(bytes, e[i - 1] + 1, e[i]) = fs[i].payload
  <2>1. PICK s \in Seq(B) : s = seqs[i] /\ s = fs[i].payload
    BY ONLY <1>4, <1>13, i \in 1 .. m
  <2>2. PICK a \in Nat : a = e[i - 1]
    BY ONLY <1>22, i \in 1 .. m
  <2>3. StandsAt(flat, s, a)
    BY ONLY <1>19, <2>1, <2>2, i \in 1 .. m
  <2>4. StandsAt(bytes, s, a)
    BY ONLY <1>21, <2>3, s \in Seq(B), a \in Nat
  <2>5. SubSeq(bytes, a + 1, a + Len(s)) = s
    BY ONLY <1>21, <2>4, SubSeqIs, s \in Seq(B), a \in Nat
  <2>6. e[i] = a + Len(s)
    BY ONLY <1>15, <2>1, <2>2, i \in 1 .. m
  <2> QED
    BY ONLY <2>1, <2>2, <2>5, <2>6
<1>25. /\ parse(w).primary = SubSeq(bytes, e[m] + 1, Len(bytes))
       /\ parse(w).redundant = [i \in 1 .. m |->
            [off |-> h[i].off, payload |-> SubSeq(bytes, e[i - 1] + 1, e[i])]]
  <2>1. Parsed(w, h, w.bytes, e, Len(h))
    BY ONLY <1>10, <1>12, <1>14, ParseIs
  <2>2. Parsed(w, h, bytes, e, m)
    BY ONLY <1>10, <1>12, <2>1, Zenon
  <2> QED
    BY ONLY <2>2, Zenon DEF Parsed
<1>26. \A i \in 1 .. m : [off |-> h[i].off, payload |-> SubSeq(bytes, e[i - 1] + 1, e[i])]
                         = [off |-> tsDiff(pkt.ts, fs[i].ts), payload |-> fs[i].payload]
  BY ONLY <1>11, <1>24, Zenon
<1>27. parse(w).redundant = [i \in 1 .. m |-> [off |-> tsDiff(pkt.ts, fs[i].ts), payload |-> fs[i].payload]]
  BY ONLY <1>25, <1>26, Zenon
<1>28. parse(w).primary = pkt.payload /\ Len(w.headers) = m
  BY ONLY <1>10, <1>12, <1>21, <1>23, <1>25
<1> QED
  BY ONLY <1>1, <1>27, <1>28, Zenon DEF Unwraps

-----------------------------------------------------------------------------
(***************************************************************************)
(* What a packet repeats.                                                  *)
(***************************************************************************)

\* The frames from i on directly precede pkt and fit.
InRun(hist, pkt, i) ==
    \A j \in i .. Len(hist) :
        /\ Len(hist) - j + 1 <= Distance
        /\ redDiff(pkt.seq, hist[j].seq) = Len(hist) - j + 1
        /\ fitsHeader(pkt, hist[j])

LEMMA RunBegins ==
    ASSUME NEW hist \in Seq(RedPacket), NEW pkt, NEW from, from = precedingRun(hist, pkt)
    PROVE  from \in 0 .. Len(hist) /\ (from # 0 => InRun(hist, pkt, from))
<1>1. PICK m \in Nat : m = Len(hist)
  BY LenProperties
<1>2. PICK I : I = {i \in 1 .. m : InRun(hist, pkt, i)}
  OBVIOUS
<1>3. from = IF I # {} THEN Min(I) ELSE 0
  <2>1. PICK b : b = [i \in 1 .. m |-> InRun(hist, pkt, i)]
    OBVIOUS
  <2>2. b \in Seq(BOOLEAN) /\ Len(b) = m
    <3>1. \A i \in 1 .. m : InRun(hist, pkt, i) \in BOOLEAN
      BY Zenon DEF InRun
    <3>2. b \in [1 .. m -> BOOLEAN]
      BY ONLY <2>1, <3>1, Zenon
    <3> QED
      BY ONLY <3>2, m \in Nat
  <2>3. {i \in 1 .. m : b[i]} = I
    BY ONLY <1>2, <2>1, Zenon
  <2>4. from = SelectInSeq(b, LAMBDA x : x)
    BY ONLY <1>1, <2>1, from = precedingRun(hist, pkt), Zenon DEF precedingRun, InRun
  <2>5. from = IF {i \in 1 .. Len(b) : b[i]} # {} THEN Min({i \in 1 .. Len(b) : b[i]}) ELSE 0
    BY ONLY <2>4, Zenon DEF SelectInSeq
  <2> QED
    BY ONLY <2>2, <2>3, <2>5, Zenon
<1>4. CASE I = {}
  BY <1>1, <1>3, <1>4
<1>5. CASE I # {}
  <2>1. I \in SUBSET Nat
    BY <1>2
  <2>2. \E i \in I : \A j \in I : i <= j
    BY ONLY <1>5, <2>1, LeastOf
  <2>3. Min(I) \in I
    BY ONLY <2>2, Zenon DEF Min
  <2>4. from \in I
    BY ONLY <1>3, <1>5, <2>3
  <2>5. from \in 1 .. m /\ InRun(hist, pkt, from)
    BY ONLY <1>2, <2>4
  <2> QED
    BY <1>1, <2>5
<1> QED
  BY <1>4, <1>5

\* fs are frames of hist that directly precede pkt and fit, the last one last.
Repeats(fs, hist, pkt) ==
    /\ fs \in Seq(RedPacket)
    /\ \A i \in 1 .. Len(fs) :
          /\ fitsHeader(pkt, fs[i])
          /\ redDiff(pkt.seq, fs[i].seq) = Len(fs) - i + 1
          /\ \E j \in 1 .. Len(hist) : fs[i] = hist[j]

LEMMA SuffixRepeats ==
    ASSUME NEW hist \in Seq(RedPacket), NEW pkt, NEW c \in 1 .. Len(hist) + 1,
           c <= Len(hist) => InRun(hist, pkt, c)
    PROVE  Repeats(SubSeq(hist, c, Len(hist)), hist, pkt)
<1>1. PICK m \in Nat : m = Len(hist)
  BY LenProperties
<1>2. PICK fs : fs = SubSeq(hist, c, m)
  OBVIOUS
<1>3. \A j \in c .. m : j \in 1 .. m /\ hist[j] \in RedPacket
  <2>1. \A j \in c .. m : j \in 1 .. m
    BY <1>1
  <2> QED
    BY <1>1, <2>1, ElementOfSeq
<1>4. c \in Int /\ m \in Int /\ c <= m + 1
  BY <1>1
<1>5. /\ fs \in Seq(RedPacket) /\ Len(fs) = IF c <= m THEN m - c + 1 ELSE 0
      /\ \A i \in 1 .. m - c + 1 : fs[i] = hist[c + i - 1]
  BY ONLY <1>2, <1>3, <1>4, SubSeqProperties
<1>6. Len(fs) = m - c + 1
  BY ONLY <1>4, <1>5
<1>7. ASSUME NEW i \in 1 .. Len(fs)
      PROVE  /\ fitsHeader(pkt, fs[i])
             /\ redDiff(pkt.seq, fs[i].seq) = Len(fs) - i + 1
             /\ \E j \in 1 .. m : fs[i] = hist[j]
  <2>1. PICK j \in c .. m : j = c + i - 1 /\ m - j + 1 = Len(fs) - i + 1 /\ c <= m
    BY ONLY <1>4, <1>6, i \in 1 .. Len(fs)
  <2>2. fs[i] = hist[j]
    BY ONLY <1>5, <1>6, <2>1, i \in 1 .. Len(fs)
  <2>3. redDiff(pkt.seq, hist[j].seq) = m - j + 1 /\ fitsHeader(pkt, hist[j])
    BY <1>1, <2>1 DEF InRun
  <2> QED
    BY ONLY <1>3, <2>1, <2>2, <2>3, j \in c .. m
<1> QED
  BY ONLY <1>1, <1>2, <1>5, <1>7 DEF Repeats

LEMMA RepeatedAre ==
    ASSUME NEW hist \in Seq(RedPacket), NEW pkt
    PROVE  Repeats(repeated(hist, pkt), hist, pkt)
<1>1. PICK m \in Nat : m = Len(hist)
  BY LenProperties
<1>2. PICK from \in 0 .. m : from = precedingRun(hist, pkt) /\ (from # 0 => InRun(hist, pkt, from))
  BY <1>1, RunBegins
<1>3. PICK run : run = IF from = 0 THEN <<>> ELSE SubSeq(hist, from, m)
  OBVIOUS
<1>4. PICK cuts : cuts = {n \in 0 .. Len(run) : n = Len(run) \/ sizeOf(pkt, SubSeq(run, n + 1, Len(run))) <= MaxSize}
  OBVIOUS
<1>5. PICK n : n = CHOOSE x \in cuts : \A y \in cuts : x <= y
  OBVIOUS
<1>6. repeated(hist, pkt) = SubSeq(run, 1 + n, Len(run))
  BY ONLY <1>1, <1>2, <1>3, <1>4, <1>5 DEF repeated
<1>7. CASE from = 0
  <2>1. run = <<>> /\ Len(run) = 0
    BY <1>3, <1>7
  <2>2. \A x \in cuts : x = 0
    BY <1>4, <2>1
  <2>3. 0 \in cuts
    BY ONLY <1>4, <2>1
  <2>4. n = 0
    BY ONLY <1>5, <2>2, <2>3
  <2>5. SubSeq(run, 1 + n, Len(run)) = <<>>
    BY ONLY <2>1, <2>4
  <2>6. PICK fs : fs = <<>>
    OBVIOUS
  <2>7. Repeats(fs, hist, pkt)
    <3>1. fs \in Seq(RedPacket) /\ Len(fs) = 0
      BY ONLY <2>6
    <3>2. \A i \in 1 .. Len(fs) : FALSE
      BY ONLY <3>1
    <3> QED
      BY ONLY <3>1, <3>2, Zenon DEF Repeats
  <2> QED
    BY ONLY <1>6, <2>5, <2>6, <2>7
<1>8. CASE from # 0
  <2>1. \A j \in from .. m : j \in 1 .. m /\ hist[j] \in RedPacket
    <3>1. \A j \in from .. m : j \in 1 .. m
      BY <1>8
    <3> QED
      BY <1>1, <3>1, ElementOfSeq
  <2>2. run = SubSeq(hist, from, m)
    BY <1>3, <1>8
  <2>3. /\ run \in Seq(RedPacket) /\ Len(run) = IF from <= m THEN m - from + 1 ELSE 0
        /\ \A i \in 1 .. m - from + 1 : run[i] = hist[from + i - 1]
    BY ONLY <2>1, <2>2, SubSeqProperties, from \in 0 .. m, m \in Nat
  <2>4. PICK l \in Nat : l = Len(run) /\ l = m - from + 1
    BY ONLY <2>3, from \in 0 .. m, m \in Nat
  <2>5. cuts \in SUBSET Nat /\ l \in cuts /\ cuts \subseteq 0 .. l
    BY ONLY <1>4, <2>4, l \in Nat
  <2>6. \E x \in cuts : \A y \in cuts : x <= y
    BY ONLY <2>5, LeastOf
  <2>7. n \in cuts
    BY ONLY <1>5, <2>6, Zenon
  <2>8. n \in 0 .. l
    BY ONLY <2>5, <2>7
  <2>9. PICK c \in 1 .. m + 1 : c = from + n
    BY ONLY <2>4, <2>8, <1>8, from \in 0 .. m, m \in Nat
  <2>10. c <= m => InRun(hist, pkt, c)
    <3>1. \A j \in c .. m : j \in from .. m
      BY ONLY <2>8, <2>9, from \in 0 .. m, m \in Nat, l \in Nat
    <3> QED
      BY <1>1, <1>2, <1>8, <3>1 DEF InRun
  <2>11. Repeats(SubSeq(hist, c, m), hist, pkt)
    BY ONLY <1>1, <2>10, SuffixRepeats, hist \in Seq(RedPacket), c \in 1 .. m + 1
  <2>12. SubSeq(run, 1 + n, l) = SubSeq(hist, c, m)
    <3>1. PICK u, v : u = SubSeq(run, 1 + n, l) /\ v = SubSeq(hist, c, m)
      OBVIOUS
    <3>2. \A i \in 1 + n .. l : run[i] \in RedPacket
      <4>1. \A i \in 1 + n .. l : i \in 1 .. l
        BY ONLY <2>8, l \in Nat
      <4> QED
        BY ONLY <2>3, <2>4, <4>1, ElementOfSeq
    <3>3. 1 + n \in Int /\ l \in Int /\ c \in Int /\ m \in Int
      BY ONLY <2>8, l \in Nat, m \in Nat, c \in 1 .. m + 1
    <3>4. /\ u \in Seq(RedPacket) /\ Len(u) = IF 1 + n <= l THEN l - (1 + n) + 1 ELSE 0
          /\ \A i \in 1 .. l - (1 + n) + 1 : u[i] = run[(1 + n) + i - 1]
      BY ONLY <3>1, <3>2, <3>3, SubSeqProperties
    <3>5. \A j \in c .. m : hist[j] \in RedPacket
      <4>1. \A j \in c .. m : j \in from .. m
        BY ONLY <2>8, <2>9, from \in 0 .. m, m \in Nat, l \in Nat
      <4> QED
        BY ONLY <2>1, <4>1
    <3>6. /\ v \in Seq(RedPacket) /\ Len(v) = IF c <= m THEN m - c + 1 ELSE 0
          /\ \A i \in 1 .. m - c + 1 : v[i] = hist[c + i - 1]
      BY ONLY <3>1, <3>3, <3>5, SubSeqProperties
    <3>7. Len(u) = l - n /\ Len(v) = l - n
      BY ONLY <2>4, <2>8, <2>9, <3>3, <3>4, <3>6, from \in 0 .. m
    <3>8. ASSUME NEW i \in 1 .. l - n PROVE u[i] = v[i]
      <4>1. /\ i \in 1 .. l - (1 + n) + 1 /\ i \in 1 .. m - c + 1 /\ n + i \in 1 .. m - from + 1
            /\ (1 + n) + i - 1 = n + i /\ from + (n + i) - 1 = c + i - 1
        BY ONLY <2>4, <2>8, <2>9, from \in 0 .. m, m \in Nat, l \in Nat, i \in 1 .. l - n
      <4> QED
        BY ONLY <2>3, <3>4, <3>6, <4>1
    <3> QED
      BY ONLY <3>1, <3>4, <3>6, <3>7, <3>8, SeqEqual
  <2> QED
    BY ONLY <1>6, <2>4, <2>11, <2>12
<1> QED
  BY <1>7, <1>8

\* The packet of its own that red carries.
PrimaryOf(red) == [seq |-> red.seq, ts |-> red.ts, payload |-> parse(red.wire).primary]

\* red gives back fs and pkt.
Carries(red, fs, pkt) == recovered(red) = fs /\ PrimaryOf(red) = pkt /\ Len(red.wire.headers) = Len(fs)

LEMMA RecoveredAre ==
    ASSUME NEW fs, NEW hist, NEW pkt \in RedPacket, Repeats(fs, hist, pkt),
           NEW red, red.seq = pkt.seq, red.ts = pkt.ts, red.wire = WireOf(fs, pkt)
    PROVE  Carries(red, fs, pkt)
<1>1. fs \in Seq(RedPacket)
  BY DEF Repeats
<1>2. PICK m \in Nat : m = Len(fs)
  BY <1>1, LenProperties
<1>3. \A i \in 1 .. m : /\ fs[i] \in RedPacket /\ fitsHeader(pkt, fs[i])
                        /\ redDiff(pkt.seq, fs[i].seq) = m - i + 1
  BY <1>1, <1>2, ElementOfSeq DEF Repeats
<1>4. PICK w : w = red.wire
  OBVIOUS
<1>5. Unwraps(w, fs, pkt)
  <2>1. \A i \in 1 .. Len(fs) : fitsHeader(pkt, fs[i])
    BY ONLY <1>2, <1>3
  <2> QED
    BY ONLY <1>1, <1>4, <2>1, WireParses, pkt \in RedPacket, red.wire = WireOf(fs, pkt)
<1>6. /\ Len(w.headers) = m /\ parse(w).primary = pkt.payload
      /\ parse(w).redundant = [i \in 1 .. m |-> [off |-> tsDiff(pkt.ts, fs[i].ts), payload |-> fs[i].payload]]
  BY ONLY <1>2, <1>5, Zenon DEF Unwraps
<1>7. PICK bs : bs = parse(w).redundant
  OBVIOUS
<1>8. /\ Len(bs) = m
      /\ \A i \in 1 .. m : bs[i].off = tsDiff(pkt.ts, fs[i].ts) /\ bs[i].payload = fs[i].payload
  BY ONLY <1>6, <1>7, m \in Nat
<1>9. recovered(red) = [i \in 1 .. Len(bs) |->
           [seq |-> (red.seq - (Len(bs) - i + 1)) % 2^RedWidth,
            ts |-> tsDiff(red.ts, bs[i].off), payload |-> bs[i].payload]]
  BY ONLY <1>4, <1>7, Zenon DEF recovered
<1>10. pkt.seq \in Int /\ pkt.ts \in Int
  BY RedPacketParts, RedPowers
<1>11. ASSUME NEW i \in 1 .. m
       PROVE  [seq |-> (red.seq - (Len(bs) - i + 1)) % 2^RedWidth,
               ts |-> tsDiff(red.ts, bs[i].off), payload |-> bs[i].payload] = fs[i]
  <2>1. /\ fs[i].seq \in 0 .. 2^RedWidth - 1 /\ fs[i].ts \in 0 .. 2^TsWidth - 1
        /\ fs[i] = [seq |-> fs[i].seq, ts |-> fs[i].ts, payload |-> fs[i].payload]
    BY ONLY <1>3, RedPacketParts, i \in 1 .. m
  <2>2. (pkt.seq - ((pkt.seq - fs[i].seq) % 2^RedWidth)) % 2^RedWidth = fs[i].seq
    <3>1. 2^RedWidth \in Nat \ {0}
      BY ONLY RedPowers
    <3> QED
      BY ONLY <1>10, <2>1, <3>1, WrapBack
  <2>3. (pkt.ts - ((pkt.ts - fs[i].ts) % 2^TsWidth)) % 2^TsWidth = fs[i].ts
    BY ONLY <1>10, <2>1, RedPowers, WrapBack
  <2>4. (pkt.seq - fs[i].seq) % 2^RedWidth = m - i + 1
    BY ONLY <1>3, i \in 1 .. m DEF redDiff
  <2>5. (red.seq - (Len(bs) - i + 1)) % 2^RedWidth = fs[i].seq
    BY ONLY <1>8, <2>2, <2>4, red.seq = pkt.seq
  <2>6. tsDiff(red.ts, bs[i].off) = fs[i].ts
    BY ONLY <1>8, <2>3, red.ts = pkt.ts, i \in 1 .. m DEF tsDiff
  <2> QED
    BY ONLY <1>8, <2>1, <2>5, <2>6, i \in 1 .. m
<1>12. fs = [i \in 1 .. m |-> fs[i]]
  BY <1>1, <1>2
<1>13. recovered(red) = fs
  BY ONLY <1>8, <1>9, <1>11, <1>12, Zenon
<1>14. PrimaryOf(red) = pkt
  <2>1. pkt = [seq |-> pkt.seq, ts |-> pkt.ts, payload |-> pkt.payload]
    BY RedPacketParts
  <2> QED
    BY ONLY <1>4, <1>6, <2>1, red.seq = pkt.seq, red.ts = pkt.ts, Zenon DEF PrimaryOf
<1> QED
  BY ONLY <1>2, <1>4, <1>6, <1>13, <1>14 DEF Carries

-----------------------------------------------------------------------------
(***************************************************************************)
(* The decoder.                                                            *)
(***************************************************************************)

RedSeq == 0 .. 2^RedWidth - 1
Dec == [started : BOOLEAN, newest : RedSeq, seen : SUBSET (0 .. Window - 1)]

LEMMA DecParts ==
    ASSUME NEW d \in Dec
    PROVE  /\ d.started \in BOOLEAN /\ d.newest \in RedSeq /\ d.seen \in SUBSET (0 .. Window - 1)
           /\ d = [started |-> d.started, newest |-> d.newest, seen |-> d.seen]
BY DEF Dec

LEMMA RedDiffType ==
    ASSUME NEW a \in Int, NEW b \in Int
    PROVE  redDiff(a, b) \in RedSeq /\ redDiff(a, b) \in Nat
<1>1. PICK y \in Int : y = a - b
  OBVIOUS
<1>2. y % 2^RedWidth \in 0 .. 2^RedWidth - 1
  <2>1. 2^RedWidth \in Nat \ {0}
    BY ONLY RedPowers
  <2> QED
    BY ONLY <2>1, Remainder, y \in Int
<1>3. y % 2^RedWidth \in Nat
  BY ONLY <1>2, RedPowers
<1> QED
  BY ONLY <1>1, <1>2, <1>3 DEF redDiff, RedSeq

\* The three outcomes of markSeen.
Newer(d, s, r) ==
    /\ redDiff(s, d.newest) \in 1 .. 2^(RedWidth - 1) - 1
    /\ r.new = TRUE
    /\ r.d = [started |-> d.started, newest |-> s,
              seen |-> {i + redDiff(s, d.newest) : i \in {j \in d.seen : j + redDiff(s, d.newest) < Window}} \cup {0}]
TooOld(d, s, r) ==
    /\ redDiff(s, d.newest) \notin 1 .. 2^(RedWidth - 1) - 1
    /\ redDiff(d.newest, s) >= Window
    /\ r.new = TRUE /\ r.d = d
Remembered(d, s, r) ==
    /\ redDiff(s, d.newest) \notin 1 .. 2^(RedWidth - 1) - 1
    /\ redDiff(d.newest, s) < Window
    /\ r.new = (redDiff(d.newest, s) \notin d.seen)
    /\ r.d = [started |-> d.started, newest |-> d.newest, seen |-> d.seen \cup {redDiff(d.newest, s)}]

LEMMA Marked ==
    ASSUME NEW d \in Dec, NEW s \in RedSeq, NEW r, r = markSeen(d, s)
    PROVE  Newer(d, s, r) \/ TooOld(d, s, r) \/ Remembered(d, s, r)
<1>1. d = [started |-> d.started, newest |-> d.newest, seen |-> d.seen]
  BY DecParts
<1>2. PICK a \in Nat, b \in Nat : a = redDiff(s, d.newest) /\ b = redDiff(d.newest, s)
  <2>1. s \in Int /\ d.newest \in Int
    BY DecParts, RedPowers DEF RedSeq
  <2> QED
    BY ONLY <2>1, RedDiffType
<1>3. CASE a \in 1 .. 2^(RedWidth - 1) - 1
  <2>1. r = [new |-> TRUE,
             d |-> [d EXCEPT !.newest = s, !.seen = {i + a : i \in {j \in @ : j + a < Window}} \cup {0}]]
    BY ONLY <1>2, <1>3, r = markSeen(d, s) DEF markSeen
  <2>2. r.new = TRUE /\ r.d = [d EXCEPT !.newest = s, !.seen = {i + a : i \in {j \in @ : j + a < Window}} \cup {0}]
    BY ONLY <2>1
  <2>3. r.d = [started |-> d.started, newest |-> s, seen |-> {i + a : i \in {j \in d.seen : j + a < Window}} \cup {0}]
    BY ONLY <1>1, <2>2
  <2>4. Newer(d, s, r)
    BY ONLY <1>2, <1>3, <2>2, <2>3, SMT DEF Newer
  <2> QED
    BY ONLY <2>4, Zenon
<1>4. CASE a \notin 1 .. 2^(RedWidth - 1) - 1 /\ b >= Window
  <2>1. r = [new |-> TRUE, d |-> d]
    BY ONLY <1>2, <1>4, r = markSeen(d, s) DEF markSeen
  <2>2. r.new = TRUE /\ r.d = d
    BY ONLY <2>1
  <2> QED
    BY ONLY <1>2, <1>4, <2>2, Zenon DEF TooOld
<1>5. CASE a \notin 1 .. 2^(RedWidth - 1) - 1 /\ ~(b >= Window)
  <2>1. r = [new |-> b \notin d.seen, d |-> [d EXCEPT !.seen = @ \cup {b}]]
    BY ONLY <1>2, <1>5, r = markSeen(d, s) DEF markSeen
  <2>2. r.new = (b \notin d.seen) /\ r.d = [d EXCEPT !.seen = @ \cup {b}]
    BY ONLY <2>1, Zenon
  <2>3. r.d = [started |-> d.started, newest |-> d.newest, seen |-> d.seen \cup {b}]
    BY ONLY <1>1, <2>2
  <2>4. b < Window
    BY ONLY <1>5, RedAssumption, RedPowers, b \in Nat
  <2> QED
    BY ONLY <1>2, <1>5, <2>2, <2>3, <2>4, Zenon DEF Remembered
<1> QED
  BY <1>3, <1>4, <1>5

LEMMA MarkType ==
    ASSUME NEW d \in Dec, NEW s \in RedSeq, NEW r, r = markSeen(d, s)
    PROVE  r.d \in Dec /\ r.new \in BOOLEAN /\ r.d.started = d.started
<1>1. d.started \in BOOLEAN /\ d.newest \in RedSeq /\ d.seen \in SUBSET (0 .. Window - 1)
  BY DecParts
<1>2. Window \in Nat /\ 0 \in 0 .. Window - 1
  BY RedAssumption, RedPowers
<1>3. PICK a \in Nat, b \in Nat : a = redDiff(s, d.newest) /\ b = redDiff(d.newest, s)
  <2>1. s \in Int /\ d.newest \in Int
    BY <1>1, RedPowers DEF RedSeq
  <2> QED
    BY ONLY <2>1, RedDiffType
<1>4. CASE Newer(d, s, r)
  <2>1. PICK T : T = {i + a : i \in {j \in d.seen : j + a < Window}} \cup {0}
    OBVIOUS
  <2>2. T \in SUBSET (0 .. Window - 1)
    BY ONLY <1>1, <1>2, <2>1, a \in Nat
  <2>3. r.new = TRUE /\ r.d = [started |-> d.started, newest |-> s, seen |-> T]
    BY ONLY <1>3, <1>4, <2>1, Zenon DEF Newer
  <2>4. r.new \in BOOLEAN
    BY ONLY <2>3, Zenon
  <2>5. r.d \in Dec /\ r.d.started = d.started
    BY ONLY <1>1, <2>2, <2>3, s \in RedSeq DEF Dec
  <2> QED
    BY ONLY <2>4, <2>5
<1>5. CASE TooOld(d, s, r)
  BY <1>5 DEF TooOld
<1>6. CASE Remembered(d, s, r)
  <2>1. b < Window /\ r.new = (b \notin d.seen)
        /\ r.d = [started |-> d.started, newest |-> d.newest, seen |-> d.seen \cup {b}]
    BY ONLY <1>3, <1>6, Zenon DEF Remembered
  <2>2. d.seen \cup {b} \in SUBSET (0 .. Window - 1)
    BY ONLY <1>1, <1>2, <2>1, b \in Nat
  <2>3. r.new \in BOOLEAN
    BY ONLY <2>1, Zenon
  <2>4. r.d \in Dec /\ r.d.started = d.started
    BY ONLY <1>1, <2>1, <2>2 DEF Dec
  <2> QED
    BY ONLY <2>3, <2>4
<1> QED
  BY <1>4, <1>5, <1>6, Marked

\* One packet of taken.
Acc == [d : Dec, out : Seq(RedPacket)]
TakeOne(acc, p) ==
    LET m == markSeen(acc.d, p.seq)
    IN  [d |-> m.d, out |-> IF m.new THEN Append(acc.out, p) ELSE acc.out]

LEMMA TakeOneType ==
    ASSUME NEW acc \in Acc, NEW p \in RedPacket
    PROVE  TakeOne(acc, p) \in Acc
<1>1. acc.d \in Dec /\ acc.out \in Seq(RedPacket) /\ p.seq \in RedSeq
  BY RedPacketParts DEF Acc, RedSeq
<1>2. PICK r : r = markSeen(acc.d, p.seq)
  OBVIOUS
<1>3. r.d \in Dec /\ r.new \in BOOLEAN
  BY ONLY <1>1, <1>2, MarkType
<1>4. PICK o : o = IF r.new THEN Append(acc.out, p) ELSE acc.out
  OBVIOUS
<1>5. o \in Seq(RedPacket)
  <2>1. Append(acc.out, p) \in Seq(RedPacket)
    BY <1>1, AppendProperties
  <2> QED
    BY ONLY <1>1, <1>3, <1>4, <2>1, Zenon
<1>6. TakeOne(acc, p) = [d |-> r.d, out |-> o]
  BY ONLY <1>2, <1>4, Zenon DEF TakeOne
<1> QED
  BY ONLY <1>3, <1>5, <1>6 DEF Acc

Takes(f, d, packets) ==
    f = [i \in 0 .. Len(packets) |->
           IF i = 0 THEN [d |-> d, out |-> <<>>]
           ELSE LET acc == f[i - 1]
                    m == markSeen(acc.d, packets[i].seq)
                IN  [d |-> m.d, out |-> IF m.new THEN Append(acc.out, packets[i]) ELSE acc.out]]

\* taken as the last of its steps.
TakenAlong(g, d, packets) ==
    /\ g \in [0 .. Len(packets) -> Acc]
    /\ g[0] = [d |-> d, out |-> <<>>]
    /\ \A i \in 1 .. Len(packets) : g[i] = TakeOne(g[i - 1], packets[i])
    /\ taken(d, packets) = g[Len(packets)]

LEMMA TakesExists ==
    ASSUME NEW d \in Dec, NEW packets \in Seq(RedPacket)
    PROVE  \E f : Takes(f, d, packets)
<1>1. PICK n \in Nat : n = Len(packets)
  BY LenProperties
<1>2. \A i \in 1 .. n : packets[i] \in RedPacket
  BY <1>1, ElementOfSeq
<1>3. PICK base \in Acc : base = [d |-> d, out |-> <<>>]
  <2>1. <<>> \in Seq(RedPacket)
    OBVIOUS
  <2>2. [d |-> d, out |-> <<>>] \in Acc
    BY ONLY <2>1, d \in Dec DEF Acc
  <2> QED
    BY ONLY <2>2
<1>4. PICK F : F = [q \in (1 .. n) \X Acc |-> TakeOne(q[2], packets[q[1]])]
  OBVIOUS
<1>5. F \in [(1 .. n) \X Acc -> Acc]
  <2>1. \A q \in (1 .. n) \X Acc : TakeOne(q[2], packets[q[1]]) \in Acc
    BY <1>2, TakeOneType
  <2> QED
    BY ONLY <1>4, <2>1
<1>6. StepsAlong(n, Acc, base, F)
  BY ONLY <1>5, StepsExist, n \in Nat, base \in Acc
<1>7. PICK g \in [0 .. n -> Acc] : g[0] = base /\ \A i \in 1 .. n : g[i] = F[<<i, g[i - 1]>>]
  BY <1>6, Zenon DEF StepsAlong
<1>8. ASSUME NEW i \in 1 .. n PROVE g[i] = TakeOne(g[i - 1], packets[i])
  <2>1. PICK v \in Acc : v = g[i - 1]
    <3>1. i - 1 \in 0 .. n
      OBVIOUS
    <3> QED
      BY <3>1
  <2>2. <<i, v>> \in (1 .. n) \X Acc /\ <<i, v>>[1] = i /\ <<i, v>>[2] = v
    OBVIOUS
  <2>3. F[<<i, v>>] = TakeOne(v, packets[i])
    BY ONLY <1>4, <2>2
  <2> QED
    BY ONLY <1>7, <2>1, <2>3, i \in 1 .. n
<1>9. \A i \in 0 .. n : g[i] = IF i = 0 THEN [d |-> d, out |-> <<>>] ELSE TakeOne(g[i - 1], packets[i])
  <2> SUFFICES ASSUME NEW i \in 0 .. n
               PROVE  g[i] = IF i = 0 THEN [d |-> d, out |-> <<>>] ELSE TakeOne(g[i - 1], packets[i])
    OBVIOUS
  <2>1. i = 0 \/ i \in 1 .. n
    OBVIOUS
  <2> QED
    BY ONLY <1>3, <1>7, <1>8, <2>1, Zenon
<1>10. g = [i \in 0 .. n |-> g[i]]
  OBVIOUS
<1>11. g = [i \in 0 .. n |-> IF i = 0 THEN [d |-> d, out |-> <<>>] ELSE TakeOne(g[i - 1], packets[i])]
  BY ONLY <1>9, <1>10, Zenon
<1> QED
  BY ONLY <1>1, <1>11, Zenon DEF Takes, TakeOne

LEMMA TakenSteps ==
    ASSUME NEW d \in Dec, NEW packets \in Seq(RedPacket)
    PROVE  \E g : TakenAlong(g, d, packets)
<1>1. PICK n \in Nat : n = Len(packets)
  BY LenProperties
<1>2. \A i \in 1 .. n : packets[i] \in RedPacket
  BY <1>1, ElementOfSeq
<1>3. PICK f : f = CHOOSE g : Takes(g, d, packets)
  OBVIOUS
<1>4. Takes(f, d, packets)
  BY ONLY <1>3, TakesExists, d \in Dec, packets \in Seq(RedPacket)
<1>5. taken(d, packets) = f[Len(packets)]
  BY ONLY <1>3, Zenon DEF taken, Takes
<1>6. f = [i \in 0 .. n |-> IF i = 0 THEN [d |-> d, out |-> <<>>] ELSE TakeOne(f[i - 1], packets[i])]
  BY ONLY <1>1, <1>4, Zenon DEF Takes, TakeOne
<1>7. f[0] = [d |-> d, out |-> <<>>] /\ \A i \in 1 .. n : f[i] = TakeOne(f[i - 1], packets[i])
  <2>1. 0 \in 0 .. n /\ \A i \in 1 .. n : i \in 0 .. n /\ i # 0
    OBVIOUS
  <2>2. f[0] = [d |-> d, out |-> <<>>]
    BY ONLY <1>6, <2>1, Zenon
  <2>3. \A i \in 1 .. n : f[i] = TakeOne(f[i - 1], packets[i])
    BY ONLY <1>6, <2>1, Zenon
  <2> QED
    BY ONLY <2>2, <2>3
<1> DEFINE Off == {i \in Nat : i <= n /\ f[i] \notin Acc}
<1>8. Off = {}
  <2> SUFFICES ASSUME Off # {} PROVE FALSE
    OBVIOUS
  <2>1. PICK i \in Off : \A j \in Off : i <= j
    <3>1. Off \in SUBSET Nat
      OBVIOUS
    <3> HIDE DEF Off
    <3> QED
      BY <3>1, LeastOf
  <2>2. i \in 0 .. n /\ f[i] \notin Acc
    OBVIOUS
  <2>3. f[0] \in Acc
    BY <1>7 DEF Acc
  <2>4. i \in 1 .. n /\ i - 1 \in Nat /\ i - 1 <= n /\ ~(i <= i - 1)
    BY <2>2, <2>3
  <2>5. f[i - 1] \in Acc
    BY <2>1, <2>4
  <2>6. TakeOne(f[i - 1], packets[i]) \in Acc
    BY ONLY <1>2, <2>4, <2>5, TakeOneType
  <2> QED
    BY ONLY <1>7, <2>2, <2>4, <2>6
<1>9. f \in [0 .. n -> Acc]
  <2>1. \A i \in 0 .. n : f[i] \in Acc
    BY <1>8
  <2>2. f = [i \in 0 .. n |-> f[i]]
    BY ONLY <1>6, Zenon
  <2> HIDE DEF Off
  <2> QED
    BY ONLY <2>1, <2>2
<1>10. TakenAlong(f, d, packets)
  BY ONLY <1>1, <1>5, <1>7, <1>9 DEF TakenAlong
<1> QED
  BY <1>10

LEMMA RangeOfAppend ==
    ASSUME NEW S, NEW s \in Seq(S), NEW x \in S
    PROVE  Range(Append(s, x)) = Range(s) \cup {x} /\ Append(s, x) \in Seq(S)
<1>1. PICK n \in Nat : n = Len(s)
  BY LenProperties
<1>2. PICK t : t = Append(s, x)
  OBVIOUS
<1>3. t \in Seq(S) /\ Len(t) = n + 1 /\ t[n + 1] = x /\ \A i \in 1 .. n : t[i] = s[i]
  BY <1>1, <1>2, AppendProperties
<1>4. Range(t) = {t[i] : i \in 1 .. n + 1} /\ Range(s) = {s[i] : i \in 1 .. n}
  BY ONLY <1>1, <1>3, RangeEquality, s \in Seq(S)
<1>5. \A i \in 1 .. n + 1 : i \in 1 .. n \/ i = n + 1
  OBVIOUS
<1>6. n + 1 \in 1 .. n + 1 /\ \A i \in 1 .. n : i \in 1 .. n + 1
  OBVIOUS
<1>7. \A y : y \in Range(t) <=> y \in Range(s) \cup {x}
  BY ONLY <1>3, <1>4, <1>5, <1>6
<1> QED
  BY ONLY <1>2, <1>3, <1>7

LEMMA NothingInEmpty == \A x \in Range(<<>>) : FALSE
<1>1. DOMAIN <<>> = {}
  OBVIOUS
<1> QED
  BY ONLY <1>1, Zenon DEF Range

\* Only what a packet carries comes out of it.
FromAmong(out, packets) == \A x \in Range(out) : \E i \in 1 .. Len(packets) : x = packets[i]

LEMMA TakenFrom ==
    ASSUME NEW d \in Dec, NEW packets \in Seq(RedPacket)
    PROVE  taken(d, packets) \in Acc /\ FromAmong(taken(d, packets).out, packets)
<1>1. PICK n \in Nat : n = Len(packets)
  BY LenProperties
<1>2. \A i \in 1 .. n : packets[i] \in RedPacket
  BY <1>1, ElementOfSeq
<1>3. PICK g : TakenAlong(g, d, packets)
  BY TakenSteps
<1>4. /\ g \in [0 .. n -> Acc] /\ g[0] = [d |-> d, out |-> <<>>] /\ taken(d, packets) = g[n]
      /\ \A i \in 1 .. n : g[i] = TakeOne(g[i - 1], packets[i])
  BY ONLY <1>1, <1>3 DEF TakenAlong
<1> DEFINE Off == {i \in Nat : i <= n /\ ~FromAmong(g[i].out, packets)}
<1>5. Off = {}
  <2> SUFFICES ASSUME Off # {} PROVE FALSE
    OBVIOUS
  <2>1. PICK i \in Off : \A j \in Off : i <= j
    <3>1. Off \in SUBSET Nat
      OBVIOUS
    <3> HIDE DEF Off
    <3> QED
      BY <3>1, LeastOf
  <2>2. i \in 0 .. n /\ ~FromAmong(g[i].out, packets)
    OBVIOUS
  <2>3. FromAmong(g[0].out, packets)
    <3>1. g[0].out = <<>>
      BY ONLY <1>4
    <3>2. \A x \in Range(<<>>) : FALSE
      BY ONLY NothingInEmpty
    <3> QED
      BY ONLY <3>1, <3>2, Zenon DEF FromAmong
  <2>4. i \in 1 .. n /\ i - 1 \in Nat /\ i - 1 <= n /\ ~(i <= i - 1) /\ i - 1 \in 0 .. n
    BY <2>2, <2>3
  <2>5. FromAmong(g[i - 1].out, packets)
    BY <2>1, <2>4
  <2>6. PICK acc \in Acc : acc = g[i - 1]
    BY ONLY <1>4, <2>4
  <2>7. acc.out \in Seq(RedPacket)
    BY DEF Acc
  <2>8. PICK p \in RedPacket : p = packets[i]
    BY ONLY <1>2, <2>4
  <2>9. g[i].out = Append(acc.out, p) \/ g[i].out = acc.out
    <3>1. PICK r : r = markSeen(acc.d, p.seq)
      OBVIOUS
    <3>2. PICK o : o = IF r.new THEN Append(acc.out, p) ELSE acc.out
      OBVIOUS
    <3>3. TakeOne(acc, p) = [d |-> r.d, out |-> o]
      BY ONLY <3>1, <3>2, Zenon DEF TakeOne
    <3>4. o = Append(acc.out, p) \/ o = acc.out
      BY ONLY <3>2, Zenon
    <3>5. g[i] = [d |-> r.d, out |-> o]
      BY ONLY <1>4, <2>4, <2>6, <2>8, <3>3
    <3> QED
      BY ONLY <3>4, <3>5
  <2>10. Range(Append(acc.out, p)) = Range(acc.out) \cup {p}
    BY ONLY <2>7, RangeOfAppend, p \in RedPacket
  <2>11. \A x \in Range(g[i].out) : x \in Range(acc.out) \/ x = p
    BY ONLY <2>9, <2>10
  <2> QED
    BY ONLY <1>1, <2>2, <2>4, <2>5, <2>6, <2>8, <2>11 DEF FromAmong
<1>6. n \in Nat /\ n <= n /\ n \in 0 .. n
  OBVIOUS
<1> QED
  BY <1>4, <1>5, <1>6

-----------------------------------------------------------------------------
(***************************************************************************)
(* Only sent packets come out.                                             *)
(***************************************************************************)

\* red carries the packet it was sent as, and packets that directly precede it.
InNet(red, sq) ==
    /\ red.id \in 1 .. Len(sq) /\ PrimaryOf(red) = sq[red.id]
    /\ recovered(red) \in Seq(RedPacket) /\ Len(red.wire.headers) = Len(recovered(red))
    /\ \A i \in 1 .. Len(recovered(red)) :
          /\ redDiff(red.seq, recovered(red)[i].seq) = Len(recovered(red)) - i + 1
          /\ \E n \in 1 .. red.id - 1 : recovered(red)[i] = sq[n]

FromSent(sq, hist, net, out) ==
    /\ sq \in Seq(RedPacket) /\ hist \in Seq(RedPacket)
    /\ \A j \in 1 .. Len(hist) : \E n \in 1 .. Len(sq) : hist[j] = sq[n]
    /\ \A red \in net : InNet(red, sq)
    /\ out \subseteq Range(sq)

RedBase ==
    /\ FromSent(sent, history, network, redOut)
    /\ next \in [seq : RedSeq, ts : 0 .. 2^TsWidth - 1]
    /\ decoder \in Dec

LEMMA SentGrows ==
    ASSUME NEW sq, NEW hist, NEW net, NEW out, FromSent(sq, hist, net, out), NEW pkt \in RedPacket
    PROVE  FromSent(Append(sq, pkt), hist, net, out)
<1>1. /\ sq \in Seq(RedPacket) /\ hist \in Seq(RedPacket) /\ out \subseteq Range(sq)
      /\ \A j \in 1 .. Len(hist) : \E n \in 1 .. Len(sq) : hist[j] = sq[n]
      /\ \A red \in net : InNet(red, sq)
  BY DEF FromSent
<1>2. PICK m \in Nat : m = Len(sq)
  BY <1>1, LenProperties
<1>3. PICK t : t = Append(sq, pkt)
  OBVIOUS
<1>4. t \in Seq(RedPacket) /\ Len(t) = m + 1 /\ \A i \in 1 .. m : t[i] = sq[i]
  BY <1>1, <1>2, <1>3, AppendProperties
<1>5. Range(t) = Range(sq) \cup {pkt}
  BY ONLY <1>1, <1>3, RangeOfAppend, pkt \in RedPacket
<1>6. \A i \in 1 .. m : i \in 1 .. m + 1
  OBVIOUS
<1>7. \A j \in 1 .. Len(hist) : \E n \in 1 .. m + 1 : hist[j] = t[n]
  BY ONLY <1>1, <1>2, <1>4, <1>6
<1>8. ASSUME NEW red \in net PROVE InNet(red, t)
  <2>1. InNet(red, sq)
    BY ONLY <1>1, red \in net
  <2>2. red.id \in 1 .. m
    BY ONLY <1>2, <2>1 DEF InNet
  <2>3. \A n \in 1 .. red.id - 1 : n \in 1 .. m
    BY ONLY <2>2, m \in Nat
  <2>4. red.id \in 1 .. Len(t) /\ PrimaryOf(red) = t[red.id]
    BY ONLY <1>4, <1>6, <2>1, <2>2 DEF InNet
  <2>5. ASSUME NEW i \in 1 .. Len(recovered(red))
        PROVE  \E n \in 1 .. red.id - 1 : recovered(red)[i] = t[n]
    BY ONLY <1>4, <2>1, <2>3, i \in 1 .. Len(recovered(red)) DEF InNet
  <2> QED
    BY ONLY <2>1, <2>4, <2>5, Zenon DEF InNet
<1> QED
  BY ONLY <1>1, <1>3, <1>4, <1>5, <1>7, <1>8 DEF FromSent

LEMMA HistoryGrows ==
    ASSUME NEW sq, NEW hist, NEW net, NEW out, FromSent(sq, hist, net, out), NEW pkt \in RedPacket,
           \E n \in 1 .. Len(sq) : pkt = sq[n]
    PROVE  FromSent(sq, remember(hist, pkt), net, out)
<1>1. /\ hist \in Seq(RedPacket)
      /\ \A j \in 1 .. Len(hist) : \E n \in 1 .. Len(sq) : hist[j] = sq[n]
  BY DEF FromSent
<1>2. PICK m \in Nat : m = Len(hist)
  BY <1>1, LenProperties
<1> DEFINE Good(t) == t \in Seq(RedPacket) /\ \A j \in 1 .. Len(t) : \E n \in 1 .. Len(sq) : t[j] = sq[n]
<1>3. ASSUME NEW t, Good(t) PROVE Good(Append(t, pkt))
  <2>1. t \in Seq(RedPacket) /\ \A j \in 1 .. Len(t) : \E n \in 1 .. Len(sq) : t[j] = sq[n]
    BY <1>3
  <2>2. PICK k \in Nat : k = Len(t)
    BY <2>1, LenProperties
  <2>3. PICK u : u = Append(t, pkt)
    OBVIOUS
  <2>4. u \in Seq(RedPacket) /\ Len(u) = k + 1 /\ u[k + 1] = pkt /\ \A i \in 1 .. k : u[i] = t[i]
    BY <2>1, <2>2, <2>3, AppendProperties
  <2>5. \A j \in 1 .. k + 1 : j \in 1 .. k \/ j = k + 1
    OBVIOUS
  <2>6. \A j \in 1 .. k + 1 : \E n \in 1 .. Len(sq) : u[j] = sq[n]
    BY ONLY <2>1, <2>2, <2>4, <2>5, \E n \in 1 .. Len(sq) : pkt = sq[n]
  <2> QED
    BY ONLY <2>3, <2>4, <2>6
<1>4. Good(hist)
  BY ONLY <1>1
<1>5. ASSUME m # 0 PROVE Good(Tail(hist))
  <2>1. PICK u : u = Tail(hist)
    OBVIOUS
  <2>2. hist # <<>>
    BY <1>2, <1>5
  <2>3. u \in Seq(RedPacket) /\ Len(u) = m - 1 /\ \A i \in 1 .. m - 1 : u[i] = hist[i + 1]
    BY ONLY <1>1, <1>2, <2>1, <2>2, HeadTailProperties
  <2>4. \A i \in 1 .. m - 1 : i + 1 \in 1 .. m
    OBVIOUS
  <2> QED
    BY ONLY <1>1, <1>2, <2>1, <2>3, <2>4
<1> HIDE DEF Good
<1>6. Good(remember(hist, pkt))
  <2>1. CASE Distance = 0
    BY <1>4, <2>1 DEF remember
  <2>2. CASE Distance # 0 /\ Len(hist) = Distance
    <3>1. remember(hist, pkt) = Append(Tail(hist), pkt)
      BY ONLY <2>2 DEF remember
    <3>2. m # 0
      BY ONLY <1>2, <2>2
    <3> QED
      BY <1>3, <1>5, <3>1, <3>2
  <2>3. CASE Distance # 0 /\ Len(hist) # Distance
    <3>1. remember(hist, pkt) = Append(hist, pkt)
      BY ONLY <2>3 DEF remember
    <3> QED
      BY <1>3, <1>4, <3>1
  <2> QED
    BY <2>1, <2>2, <2>3
<1> QED
  BY ONLY <1>6, FromSent(sq, hist, net, out), Zenon DEF FromSent, Good

LEMMA NetworkGrows ==
    ASSUME NEW sq \in Seq(RedPacket), NEW hist \in Seq(RedPacket), NEW pkt \in RedPacket,
           \A j \in 1 .. Len(hist) : \E n \in 1 .. Len(sq) : hist[j] = sq[n],
           NEW red, red = [id |-> Len(sq) + 1, seq |-> pkt.seq, ts |-> pkt.ts, wire |-> Encode(hist, pkt)]
    PROVE  InNet(red, Append(sq, pkt))
<1>1. PICK m \in Nat : m = Len(sq)
  BY LenProperties
<1>2. PICK t : t = Append(sq, pkt)
  OBVIOUS
<1>3. Len(t) = m + 1 /\ t[m + 1] = pkt /\ \A i \in 1 .. m : t[i] = sq[i]
  BY <1>1, <1>2, AppendProperties
<1>4. PICK fs : fs = repeated(hist, pkt)
  OBVIOUS
<1>5. Repeats(fs, hist, pkt)
  BY ONLY <1>4, RepeatedAre, hist \in Seq(RedPacket)
<1>6. red.id = m + 1 /\ red.seq = pkt.seq /\ red.ts = pkt.ts /\ red.wire = Encode(hist, pkt)
  BY ONLY <1>1, red = [id |-> Len(sq) + 1, seq |-> pkt.seq, ts |-> pkt.ts, wire |-> Encode(hist, pkt)]
<1>7. red.wire = WireOf(fs, pkt)
  BY ONLY <1>4, <1>6, Zenon DEF Encode, WireOf
<1>8. Carries(red, fs, pkt)
  BY ONLY <1>5, <1>6, <1>7, RecoveredAre, pkt \in RedPacket
<1>9. recovered(red) = fs /\ PrimaryOf(red) = pkt /\ Len(red.wire.headers) = Len(fs)
  BY ONLY <1>8 DEF Carries
<1>10. red.id \in 1 .. Len(t) /\ t[red.id] = pkt
  BY ONLY <1>3, <1>6, m \in Nat
<1>11. ASSUME NEW i \in 1 .. Len(fs)
       PROVE  redDiff(red.seq, fs[i].seq) = Len(fs) - i + 1 /\ \E n \in 1 .. red.id - 1 : fs[i] = t[n]
  <2>1. redDiff(pkt.seq, fs[i].seq) = Len(fs) - i + 1 /\ \E j \in 1 .. Len(hist) : fs[i] = hist[j]
    BY ONLY <1>5, i \in 1 .. Len(fs) DEF Repeats
  <2>2. PICK j \in 1 .. Len(hist) : fs[i] = hist[j]
    BY <2>1
  <2>3. PICK n \in 1 .. m : hist[j] = sq[n]
    BY <1>1
  <2>4. n \in 1 .. red.id - 1
    BY ONLY <1>6, n \in 1 .. m, m \in Nat
  <2> QED
    BY ONLY <1>3, <1>6, <2>1, <2>2, <2>3, <2>4, n \in 1 .. m
<1>12. fs \in Seq(RedPacket)
  BY ONLY <1>5 DEF Repeats
<1> QED
  BY ONLY <1>2, <1>9, <1>10, <1>11, <1>12, Zenon DEF InNet

LEMMA BytesType ==
    ASSUME NEW n \in Nat, NEW len \in Nat
    PROVE  Bytes(n, len) \in Seq(Nat \X Nat)
<1>1. Bytes(n, len) \in [1 .. len -> Nat \X Nat]
  BY DEF Bytes
<1> QED
  BY ONLY <1>1, len \in Nat

\* The parts of Decode.
Fresh(red) == [started |-> TRUE, newest |-> red.seq, seen |-> {}]
Listening(d, red) == IF d.started THEN d ELSE Fresh(red)
Offered(d, red) == IF d.started THEN recovered(red) ELSE <<>>
Decoded(d, red, first, rest, res) ==
    /\ first = markSeen(Listening(d, red), red.seq)
    /\ rest = taken(first.d, Offered(d, red))
    /\ res = IF first.new THEN [d |-> rest.d, out |-> Append(rest.out, PrimaryOf(red))]
             ELSE [d |-> first.d, out |-> <<>>]

LEMMA DecodedBy ==
    ASSUME NEW d, NEW red
    PROVE  \E first, rest : Decoded(d, red, first, rest, Decode(d, red))
<1>1. PICK first : first = markSeen(Listening(d, red), red.seq)
  OBVIOUS
<1>2. PICK rest : rest = taken(first.d, Offered(d, red))
  OBVIOUS
<1>3. Decode(d, red) = IF first.new THEN [d |-> rest.d, out |-> Append(rest.out, PrimaryOf(red))]
                       ELSE [d |-> first.d, out |-> <<>>]
  BY ONLY <1>1, <1>2, Zenon DEF Decode, Listening, Fresh, Offered, PrimaryOf
<1>4. Decoded(d, red, first, rest, Decode(d, red))
  BY ONLY <1>1, <1>2, <1>3, Zenon DEF Decoded
<1> QED
  BY <1>4

\* The types of what Decode works with.
DecodeTyped(d, sq, red, first, rest) ==
    /\ PrimaryOf(red) \in RedPacket /\ red.seq \in RedSeq /\ red.seq = sq[red.id].seq
    /\ Listening(d, red) \in Dec /\ Listening(d, red).started = TRUE
    /\ first.d \in Dec /\ first.new \in BOOLEAN /\ first.d.started = TRUE
    /\ Offered(d, red) \in Seq(RedPacket) /\ rest \in Acc
    /\ FromAmong(rest.out, Offered(d, red))

LEMMA DecodeTypes ==
    ASSUME NEW d \in Dec, NEW sq \in Seq(RedPacket), NEW red, InNet(red, sq),
           NEW first, NEW rest, NEW res, Decoded(d, red, first, rest, res)
    PROVE  DecodeTyped(d, sq, red, first, rest)
<1>1. /\ first = markSeen(Listening(d, red), red.seq)
      /\ rest = taken(first.d, Offered(d, red))
  BY DEF Decoded
<1>2. red.id \in 1 .. Len(sq) /\ PrimaryOf(red) = sq[red.id] /\ recovered(red) \in Seq(RedPacket)
  BY DEF InNet
<1>3. PrimaryOf(red) \in RedPacket /\ PrimaryOf(red).seq = red.seq
  <2>1. sq[red.id] \in RedPacket
    BY <1>2, ElementOfSeq
  <2>2. PrimaryOf(red).seq = red.seq
    BY DEF PrimaryOf
  <2> QED
    BY ONLY <1>2, <2>1, <2>2
<1>4. red.seq \in RedSeq /\ red.seq = sq[red.id].seq
  BY ONLY <1>2, <1>3, RedPacketParts DEF RedSeq
<1>5. Listening(d, red) \in Dec /\ Listening(d, red).started = TRUE
  <2>1. CASE d.started
    <3>1. d.started \in BOOLEAN
      BY DecParts
    <3>2. d.started = TRUE
      BY ONLY <2>1, <3>1, Zenon
    <3>3. Listening(d, red) = d
      BY ONLY <2>1, Zenon DEF Listening
    <3> QED
      BY ONLY <3>2, <3>3, d \in Dec
  <2>2. CASE ~d.started
    <3>1. Listening(d, red) = [started |-> TRUE, newest |-> red.seq, seen |-> {}]
      BY ONLY <2>2, Zenon DEF Listening, Fresh
    <3>2. TRUE \in BOOLEAN /\ {} \in SUBSET (0 .. Window - 1)
      OBVIOUS
    <3>3. Listening(d, red) \in Dec
      BY ONLY <1>4, <3>1, <3>2 DEF Dec
    <3>4. Listening(d, red).started = TRUE
      BY ONLY <3>1
    <3> QED
      BY ONLY <3>3, <3>4
  <2> QED
    BY ONLY <2>1, <2>2
<1>6. first.d \in Dec /\ first.new \in BOOLEAN /\ first.d.started = Listening(d, red).started
  BY ONLY <1>1, <1>4, <1>5, MarkType
<1>7. Offered(d, red) \in Seq(RedPacket)
  <2>1. <<>> \in Seq(RedPacket)
    OBVIOUS
  <2> QED
    BY ONLY <1>2, <2>1, Zenon DEF Offered
<1>8. rest \in Acc /\ FromAmong(rest.out, Offered(d, red))
  BY ONLY <1>1, <1>6, <1>7, TakenFrom
<1> QED
  BY ONLY <1>3, <1>4, <1>5, <1>6, <1>7, <1>8 DEF DecodeTyped

LEMMA DecodeFrom ==
    ASSUME NEW d \in Dec, NEW sq \in Seq(RedPacket), NEW red, InNet(red, sq)
    PROVE  Decode(d, red).d \in Dec /\ Range(Decode(d, red).out) \subseteq Range(sq)
<1>1. PICK res : res = Decode(d, red)
  OBVIOUS
<1>2. PICK first, rest : Decoded(d, red, first, rest, res)
  BY <1>1, DecodedBy
<1>3. /\ PrimaryOf(red) \in RedPacket /\ first.d \in Dec
      /\ Offered(d, red) \in Seq(RedPacket) /\ rest \in Acc /\ FromAmong(rest.out, Offered(d, red))
  <2>1. DecodeTyped(d, sq, red, first, rest)
    BY ONLY <1>2, DecodeTypes, d \in Dec, sq \in Seq(RedPacket), InNet(red, sq)
  <2> QED
    BY ONLY <2>1 DEF DecodeTyped
<1>4. rest.d \in Dec /\ rest.out \in Seq(RedPacket)
  BY ONLY <1>3 DEF Acc
<1>5. Range(sq) = {sq[n] : n \in 1 .. Len(sq)}
  BY RangeEquality
<1>6. PrimaryOf(red) \in Range(sq)
  <2>1. red.id \in 1 .. Len(sq) /\ PrimaryOf(red) = sq[red.id]
    BY DEF InNet
  <2> QED
    BY ONLY <1>5, <2>1
<1>7. \A x \in Range(rest.out) : x \in Range(sq)
  <2>1. PICK m \in Nat : m = Len(sq)
    BY LenProperties
  <2>2. \A n \in 1 .. red.id - 1 : n \in 1 .. m
    <3>1. red.id \in 1 .. m
      BY <2>1 DEF InNet
    <3> QED
      BY ONLY <3>1, m \in Nat
  <2>3. \A i \in 1 .. Len(recovered(red)) : \E n \in 1 .. red.id - 1 : recovered(red)[i] = sq[n]
    BY DEF InNet
  <2>4. \A i \in 1 .. Len(recovered(red)) : recovered(red)[i] \in Range(sq)
    BY ONLY <1>5, <2>1, <2>2, <2>3
  <2>5. \A i \in 1 .. Len(<<>>) : FALSE
    OBVIOUS
  <2>6. \A i \in 1 .. Len(Offered(d, red)) : Offered(d, red)[i] \in Range(sq)
    BY ONLY <2>4, <2>5, Zenon DEF Offered
  <2> QED
    BY ONLY <1>3, <2>6, Zenon DEF FromAmong
<1>8. CASE first.new
  <2>1. res = [d |-> rest.d, out |-> Append(rest.out, PrimaryOf(red))]
    BY ONLY <1>2, <1>8, Zenon DEF Decoded
  <2>2. res.d = rest.d /\ res.out = Append(rest.out, PrimaryOf(red))
    BY ONLY <2>1
  <2>3. Range(res.out) = Range(rest.out) \cup {PrimaryOf(red)}
    BY ONLY <1>3, <1>4, <2>2, RangeOfAppend
  <2> QED
    BY ONLY <1>1, <1>4, <1>6, <1>7, <2>2, <2>3
<1>9. CASE ~first.new
  <2>1. res = [d |-> first.d, out |-> <<>>]
    BY ONLY <1>2, <1>9, Zenon DEF Decoded
  <2>2. res.d = first.d /\ res.out = <<>>
    BY ONLY <2>1
  <2> QED
    BY ONLY <1>1, <1>3, <2>2, NothingInEmpty
<1> QED
  BY ONLY <1>8, <1>9

LEMMA RedBaseInit == RedInit => RedBase
<1> SUFFICES ASSUME RedInit PROVE RedBase
  OBVIOUS
<1>1. sent = <<>> /\ history = <<>> /\ network = {} /\ decoder = NewDecoder /\ redOut = {}
  BY DEF RedInit
<1>2. <<>> \in Seq(RedPacket) /\ \A j \in 1 .. Len(<<>>) : FALSE
  OBVIOUS
<1>3. FromSent(<<>>, <<>>, {}, {})
  BY ONLY <1>2, Zenon DEF FromSent
<1>4. next \in [seq : RedSeq, ts : 0 .. 2^TsWidth - 1]
  <2>1. 0 \in RedSeq /\ 2^RedWidth - 1 \in RedSeq /\ 0 \in 0 .. 2^TsWidth - 1
    BY RedPowers DEF RedSeq
  <2>2. next \in [seq : {0, 2^RedWidth - 1}, ts : {0}]
    BY DEF RedInit
  <2> QED
    BY ONLY <2>1, <2>2
<1>5. NewDecoder \in Dec
  <2>1. 0 \in RedSeq /\ FALSE \in BOOLEAN /\ {} \in SUBSET (0 .. Window - 1)
    BY RedPowers DEF RedSeq
  <2> QED
    BY ONLY <2>1 DEF NewDecoder, Dec
<1> QED
  BY ONLY <1>1, <1>3, <1>4, <1>5 DEF RedBase

\* What Packetize and GeneratePadding add to what was sent.
LEMMA NextParts ==
    ASSUME next \in [seq : RedSeq, ts : 0 .. 2^TsWidth - 1], NEW p \in Seq(Nat \X Nat)
    PROVE  /\ next.seq \in RedSeq /\ next.ts \in 0 .. 2^TsWidth - 1
           /\ [seq |-> next.seq, ts |-> next.ts, payload |-> p] \in RedPacket
           /\ (next.seq + 1) % 2^RedWidth \in RedSeq
           /\ \A k \in Nat : (next.ts + k) % 2^TsWidth \in 0 .. 2^TsWidth - 1
<1>1. next.seq \in RedSeq /\ next.ts \in 0 .. 2^TsWidth - 1
  OBVIOUS
<1>2. [seq |-> next.seq, ts |-> next.ts, payload |-> p] \in RedPacket
  BY ONLY <1>1, p \in Seq(Nat \X Nat) DEF RedPacket, RedSeq
<1>3. (next.seq + 1) % 2^RedWidth \in RedSeq
  <2>1. PICK y \in Int : y = next.seq + 1
    BY <1>1, RedPowers DEF RedSeq
  <2>2. 2^RedWidth \in Nat \ {0}
    BY ONLY RedPowers
  <2>3. y % 2^RedWidth \in 0 .. 2^RedWidth - 1
    BY ONLY <2>2, Remainder, y \in Int
  <2> QED
    BY ONLY <2>1, <2>3 DEF RedSeq
<1>4. ASSUME NEW k \in Nat PROVE (next.ts + k) % 2^TsWidth \in 0 .. 2^TsWidth - 1
  <2>1. PICK y \in Int : y = next.ts + k
    BY <1>1, RedPowers
  <2>2. y % 2^TsWidth \in 0 .. 2^TsWidth - 1
    BY ONLY RedPowers, Remainder, y \in Int
  <2> QED
    BY ONLY <2>1, <2>2
<1> QED
  BY ONLY <1>1, <1>2, <1>3, <1>4

LEMMA PacketizeBase ==
    ASSUME RedBase, NEW len \in Lengths, NEW step \in Steps, Packetize(len, step)
    PROVE  RedBase'
<1>1. /\ FromSent(sent, history, network, redOut) /\ decoder \in Dec
      /\ next \in [seq : RedSeq, ts : 0 .. 2^TsWidth - 1]
  BY DEF RedBase
<1>2. /\ sent \in Seq(RedPacket) /\ history \in Seq(RedPacket)
      /\ \A j \in 1 .. Len(history) : \E n \in 1 .. Len(sent) : history[j] = sent[n]
  BY ONLY <1>1 DEF FromSent
<1>3. len \in Nat /\ step \in Nat
  BY RedAssumption
<1>4. PICK m \in Nat : m = Len(sent)
  BY <1>2, LenProperties
<1>5. Bytes(m + 1, len) \in Seq(Nat \X Nat)
  BY ONLY <1>3, BytesType, m \in Nat
<1>6. /\ [seq |-> next.seq, ts |-> next.ts, payload |-> Bytes(m + 1, len)] \in RedPacket
      /\ (next.seq + 1) % 2^RedWidth \in RedSeq
      /\ (next.ts + step) % 2^TsWidth \in 0 .. 2^TsWidth - 1
  BY ONLY <1>1, <1>3, <1>5, NextParts
<1>7. PICK pkt \in RedPacket : pkt = [seq |-> next.seq, ts |-> next.ts, payload |-> Bytes(m + 1, len)]
  BY ONLY <1>6
<1>8. PICK red : red = [id |-> Len(sent) + 1, seq |-> pkt.seq, ts |-> pkt.ts, wire |-> Encode(history, pkt)]
  OBVIOUS
<1>9. /\ sent' = Append(sent, pkt) /\ history' = remember(history, pkt) /\ network' = network \cup {red}
      /\ next' = [seq |-> (next.seq + 1) % 2^RedWidth, ts |-> (next.ts + step) % 2^TsWidth]
      /\ decoder' = decoder /\ redOut' = redOut
  BY ONLY <1>4, <1>7, <1>8, Packetize(len, step), Zenon DEF Packetize, gotVars
<1>10. FromSent(Append(sent, pkt), history, network, redOut)
  BY ONLY <1>1, SentGrows, pkt \in RedPacket
<1>11. \E n \in 1 .. Len(Append(sent, pkt)) : pkt = Append(sent, pkt)[n]
  <2>1. Len(Append(sent, pkt)) = m + 1 /\ Append(sent, pkt)[m + 1] = pkt
    BY <1>2, <1>4, AppendProperties
  <2>2. m + 1 \in 1 .. m + 1
    OBVIOUS
  <2> QED
    BY ONLY <2>1, <2>2
<1>12. FromSent(Append(sent, pkt), remember(history, pkt), network, redOut)
  BY ONLY <1>10, <1>11, HistoryGrows, pkt \in RedPacket
<1>13. InNet(red, Append(sent, pkt))
  BY ONLY <1>2, <1>8, NetworkGrows, pkt \in RedPacket
<1>14. FromSent(Append(sent, pkt), remember(history, pkt), network \cup {red}, redOut)
  <2>1. \A r \in network \cup {red} : InNet(r, Append(sent, pkt))
    BY ONLY <1>12, <1>13, Zenon DEF FromSent
  <2> QED
    BY ONLY <1>12, <2>1, Zenon DEF FromSent
<1>15. next' \in [seq : RedSeq, ts : 0 .. 2^TsWidth - 1]
  BY ONLY <1>6, <1>9
<1> QED
  BY ONLY <1>1, <1>9, <1>14, <1>15 DEF RedBase

LEMMA GeneratePaddingBase ==
    ASSUME RedBase, GeneratePadding
    PROVE  RedBase'
<1>1. /\ FromSent(sent, history, network, redOut) /\ decoder \in Dec
      /\ next \in [seq : RedSeq, ts : 0 .. 2^TsWidth - 1]
  BY DEF RedBase
<1>2. <<>> \in Seq(Nat \X Nat)
  OBVIOUS
<1>3. /\ next.seq \in RedSeq /\ next.ts \in 0 .. 2^TsWidth - 1
      /\ [seq |-> next.seq, ts |-> next.ts, payload |-> <<>>] \in RedPacket
      /\ (next.seq + 1) % 2^RedWidth \in RedSeq
  BY ONLY <1>1, <1>2, NextParts
<1>4. PICK pkt \in RedPacket : pkt = [seq |-> next.seq, ts |-> next.ts, payload |-> <<>>]
  BY ONLY <1>3
<1>5. /\ sent' = Append(sent, pkt) /\ history' = history /\ network' = network
      /\ next' = [next EXCEPT !.seq = (next.seq + 1) % 2^RedWidth]
      /\ decoder' = decoder /\ redOut' = redOut
  BY ONLY <1>4, GeneratePadding, Zenon DEF GeneratePadding, gotVars
<1>6. FromSent(Append(sent, pkt), history, network, redOut)
  BY ONLY <1>1, SentGrows, pkt \in RedPacket
<1>7. next' \in [seq : RedSeq, ts : 0 .. 2^TsWidth - 1]
  BY ONLY <1>1, <1>3, <1>5
<1> QED
  BY ONLY <1>1, <1>5, <1>6, <1>7 DEF RedBase

LEMMA ArriveBase ==
    ASSUME RedBase, NEW pkt \in network, Arrive(pkt)
    PROVE  RedBase'
<1>1. /\ FromSent(sent, history, network, redOut) /\ decoder \in Dec
      /\ next \in [seq : RedSeq, ts : 0 .. 2^TsWidth - 1]
  BY DEF RedBase
<1>2. sent \in Seq(RedPacket) /\ InNet(pkt, sent) /\ redOut \subseteq Range(sent)
  BY ONLY <1>1, pkt \in network DEF FromSent
<1>3. PICK res : res = Decode(decoder, pkt)
  OBVIOUS
<1>4. decoder' = res.d /\ redOut' = redOut \cup Range(res.out) /\ sent' = sent /\ history' = history /\ next' = next
  BY ONLY <1>3, Arrive(pkt), Zenon DEF Arrive
<1>5. network' \subseteq network
  BY DEF Arrive
<1>6. res.d \in Dec /\ Range(res.out) \subseteq Range(sent)
  BY ONLY <1>1, <1>2, <1>3, DecodeFrom
<1>7. FromSent(sent, history, network', redOut')
  <2>1. \A r \in network' : InNet(r, sent)
    BY ONLY <1>1, <1>5 DEF FromSent
  <2>2. redOut' \subseteq Range(sent)
    BY ONLY <1>2, <1>4, <1>6
  <2> QED
    BY ONLY <1>1, <2>1, <2>2, Zenon DEF FromSent
<1> QED
  BY ONLY <1>1, <1>4, <1>6, <1>7 DEF RedBase

LEMMA LoseBase ==
    ASSUME RedBase, NEW pkt \in network, Lose(pkt)
    PROVE  RedBase'
<1>1. /\ FromSent(sent, history, network, redOut) /\ decoder \in Dec
      /\ next \in [seq : RedSeq, ts : 0 .. 2^TsWidth - 1]
  BY DEF RedBase
<1>2. /\ network' \subseteq network /\ decoder' = decoder /\ redOut' = redOut
      /\ sent' = sent /\ history' = history /\ next' = next
  BY DEF Lose, gotVars
<1>3. FromSent(sent, history, network', redOut)
  <2>1. \A r \in network' : InNet(r, sent)
    BY ONLY <1>1, <1>2 DEF FromSent
  <2> QED
    BY ONLY <1>1, <2>1, Zenon DEF FromSent
<1> QED
  BY ONLY <1>1, <1>2, <1>3 DEF RedBase

LEMMA RedBaseStep == RedBase /\ [RedNext]_redVars => RedBase'
<1> SUFFICES ASSUME RedBase, [RedNext]_redVars PROVE RedBase'
  OBVIOUS
<1>1. ASSUME NEW len \in Lengths, NEW step \in Steps, Packetize(len, step) PROVE RedBase'
  BY ONLY <1>1, RedBase, PacketizeBase
<1>2. CASE GeneratePadding
  BY ONLY <1>2, RedBase, GeneratePaddingBase
<1>3. ASSUME NEW pkt \in network, Arrive(pkt) PROVE RedBase'
  BY ONLY <1>3, RedBase, ArriveBase
<1>4. ASSUME NEW pkt \in network, Lose(pkt) PROVE RedBase'
  BY ONLY <1>4, RedBase, LoseBase
<1>5. CASE UNCHANGED redVars
  <2>1. /\ sent' = sent /\ history' = history /\ network' = network /\ redOut' = redOut
        /\ next' = next /\ decoder' = decoder
    BY ONLY <1>5 DEF redVars, gotVars
  <2> QED
    BY ONLY <2>1, RedBase DEF RedBase
<1> QED
  BY <1>1, <1>2, <1>3, <1>4, <1>5 DEF RedNext

\* Whatever is lost, reordered or duplicated, and however the numbers and
\* timestamps wrap, what Decode hands out, recovered or not, is exactly a packet
\* that Packetize sent.
THEOREM RecoveredFaithfullyCorrect == RedSpec => []RecoveredFaithfully
<1>1. RedBase => RecoveredFaithfully
  BY DEF RedBase, FromSent, RecoveredFaithfully
<1> QED
  BY <1>1, RedBaseInit, RedBaseStep, PTL DEF RedSpec

-----------------------------------------------------------------------------
(***************************************************************************)
(* A stream of at most half the sequence numbers: everything that can be   *)
(* recovered comes out, and once.                                          *)
(***************************************************************************)

LEMMA WrapNext ==
    ASSUME NEW x \in Int, NEW d \in Nat \ {0}
    PROVE  ((x % d) + 1) % d = (x + 1) % d
<1>1. PICK r \in 0 .. d - 1 : r = x % d
  BY Remainder
<1>2. PICK q \in Int : x = q * d + r
  BY <1>1, Remainder
<1>3. PICK y \in Int : y = r + 1
  OBVIOUS
<1>4. q * d \in Int
  OBVIOUS
<1>5. x + 1 = y + q * d
  BY ONLY <1>2, <1>3, <1>4, r \in 0 .. d - 1, d \in Nat
<1>6. (y + q * d) % d = y % d
  BY ONLY RemainderSame, y \in Int, q \in Int, d \in Nat \ {0}
<1> QED
  BY ONLY <1>1, <1>3, <1>5, <1>6

\* The packets of sq are numbered from s0 on, and nx is the number after them.
Numbered(sq, nx, s0) ==
    /\ s0 \in Nat
    /\ \A n \in 1 .. Len(sq) : sq[n].seq = (s0 + (n - 1)) % 2^RedWidth
    /\ nx = (s0 + Len(sq)) % 2^RedWidth

\* How far apart the numbers of sent packets are.
Apart(sq) ==
    \A n, k \in 1 .. Len(sq) :
        redDiff(sq[n].seq, sq[k].seq) = IF n >= k THEN n - k ELSE 2^RedWidth - (k - n)

LEMMA NumbersApart ==
    ASSUME NEW sq \in Seq(RedPacket), NEW nx, NEW s0, Numbered(sq, nx, s0), Len(sq) <= 2^(RedWidth - 1)
    PROVE  Apart(sq)
<1>1. PICK m \in Nat : m = Len(sq)
  BY LenProperties
<1>2. PICK H \in Nat \ {0} : H = 2^(RedWidth - 1) /\ 2^RedWidth = 2 * H
  BY RedPowers
<1>3. PICK M \in Nat \ {0} : M = 2^RedWidth /\ M = 2 * H
  BY <1>2
<1>4. m <= H
  BY <1>1, <1>2
<1>5. s0 \in Nat /\ \A n \in 1 .. m : sq[n].seq = (s0 + (n - 1)) % M
  BY <1>1, <1>3 DEF Numbered
<1>6. ASSUME NEW n \in 1 .. m, NEW k \in 1 .. m
      PROVE  redDiff(sq[n].seq, sq[k].seq) = IF n >= k THEN n - k ELSE 2^RedWidth - (k - n)
  <2>1. PICK a \in Int, b \in Int : a = s0 + (n - 1) /\ b = s0 + (k - 1)
    BY <1>5
  <2>2. ((a % M) - (b % M)) % M = (a - b) % M
    BY ONLY WrapDiff, a \in Int, b \in Int, M \in Nat \ {0}
  <2>3. redDiff(sq[n].seq, sq[k].seq) = (a - b) % M
    BY ONLY <1>3, <1>5, <2>1, <2>2, n \in 1 .. m, k \in 1 .. m DEF redDiff
  <2>4. PICK y \in Int : y = a - b /\ y = n - k
    <3>1. n - k \in Int /\ a - b = n - k
      BY ONLY <1>5, <2>1, m \in Nat, n \in 1 .. m, k \in 1 .. m
    <3> QED
      BY ONLY <3>1
  <2>5. CASE n >= k
    <3>1. PICK r \in 0 .. M - 1 : r = n - k
      BY <1>3, <1>4, <2>5
    <3>2. y = 0 * M + r /\ 0 \in Int
      BY ONLY <2>4, <3>1, M \in Nat, r \in 0 .. M - 1
    <3>3. y % M = r
      BY ONLY <3>2, RemainderUnique, M \in Nat \ {0}, y \in Int, r \in 0 .. M - 1
    <3> QED
      BY ONLY <2>3, <2>4, <2>5, <3>1, <3>3
  <2>6. CASE ~(n >= k)
    <3>1. PICK r \in 0 .. M - 1 : r = M - (k - n)
      BY <1>3, <1>4, <2>6
    <3>2. y = (-1) * M + r /\ -1 \in Int
      BY ONLY <2>4, <3>1, M \in Nat, n \in 1 .. m, k \in 1 .. m, m \in Nat
    <3>3. y % M = r
      BY ONLY <3>2, RemainderUnique, M \in Nat \ {0}, y \in Int, r \in 0 .. M - 1
    <3> QED
      BY ONLY <1>3, <2>3, <2>4, <2>6, <3>1, <3>3
  <2> QED
    BY ONLY <2>5, <2>6
<1> QED
  BY ONLY <1>1, <1>6 DEF Apart

LEMMA NumbersGrow ==
    ASSUME NEW sq \in Seq(RedPacket), NEW nx, NEW s0, Numbered(sq, nx, s0), NEW pkt \in RedPacket, pkt.seq = nx
    PROVE  Numbered(Append(sq, pkt), (nx + 1) % 2^RedWidth, s0)
<1>1. PICK m \in Nat : m = Len(sq)
  BY LenProperties
<1>2. PICK M \in Nat \ {0} : M = 2^RedWidth
  BY RedPowers
<1>3. s0 \in Nat /\ nx = (s0 + m) % M /\ \A n \in 1 .. m : sq[n].seq = (s0 + (n - 1)) % M
  BY <1>1, <1>2 DEF Numbered
<1>4. PICK t : t = Append(sq, pkt)
  OBVIOUS
<1>5. Len(t) = m + 1 /\ t[m + 1] = pkt /\ \A i \in 1 .. m : t[i] = sq[i]
  BY <1>1, <1>4, AppendProperties
<1>6. PICK x \in Int : x = s0 + m
  BY <1>3
<1>7. (nx + 1) % M = (x + 1) % M
  BY ONLY <1>3, <1>6, WrapNext, x \in Int, M \in Nat \ {0}
<1>8. x + 1 = s0 + (m + 1)
  BY ONLY <1>3, <1>6, m \in Nat
<1>9. ASSUME NEW n \in 1 .. m + 1 PROVE t[n].seq = (s0 + (n - 1)) % M
  <2>1. CASE n = m + 1
    <3>1. n - 1 = m
      BY ONLY <2>1, m \in Nat
    <3> QED
      BY ONLY <1>3, <1>5, <2>1, <3>1, pkt.seq = nx
  <2>2. CASE n # m + 1
    <3>1. n \in 1 .. m
      BY ONLY <2>2, m \in Nat, n \in 1 .. m + 1
    <3> QED
      BY ONLY <1>3, <1>5, <3>1
  <2> QED
    BY ONLY <2>1, <2>2
<1> QED
  BY ONLY <1>2, <1>3, <1>4, <1>5, <1>7, <1>8, <1>9 DEF Numbered

\* The newest packet the decoder knows is the N-th, and it remembers which of
\* those in its window are among R.
Knows(d, sq, N, R) ==
    /\ d \in Dec /\ N \in 1 .. Len(sq) /\ R \in SUBSET (1 .. N)
    /\ d.started = TRUE /\ d.newest = sq[N].seq
    /\ d.seen = {i \in 0 .. Window - 1 : N - i \in R}

\* The n-th is marked: refused only when it is in R, and let through again only
\* past the window.
MarkedAt(r, sq, N, R, n, N2) ==
    /\ N2 >= N /\ Knows(r.d, sq, N2, R \cup {n})
    /\ ~r.new => n \in R
    /\ r.new /\ n \in R => N2 - n >= Window

LEMMA MarkIndex ==
    ASSUME NEW sq \in Seq(RedPacket), Apart(sq), Len(sq) <= 2^(RedWidth - 1),
           NEW d, NEW N, NEW R, Knows(d, sq, N, R), NEW n \in 1 .. Len(sq),
           NEW r, r = markSeen(d, sq[n].seq)
    PROVE  \E N2 : MarkedAt(r, sq, N, R, n, N2)
<1>1. PICK m \in Nat : m = Len(sq)
  BY LenProperties
<1>2. PICK H \in Nat \ {0} : H = 2^(RedWidth - 1) /\ 2^RedWidth = 2 * H
  BY RedPowers
<1>3. m <= H /\ Window \in Nat /\ Window # 0
  BY <1>1, <1>2, RedAssumption
<1>4. /\ d \in Dec /\ N \in 1 .. m /\ R \in SUBSET (1 .. N) /\ d.newest = sq[N].seq
      /\ d.started = TRUE /\ d.seen = {i \in 0 .. Window - 1 : N - i \in R}
  BY <1>1 DEF Knows
<1>5. PICK s \in RedSeq : s = sq[n].seq
  <2>1. sq[n] \in RedPacket
    BY <1>1, ElementOfSeq
  <2> QED
    BY ONLY <2>1, RedPacketParts DEF RedSeq
<1>6. n \in 1 .. m
  BY <1>1
<1>7. PICK a, b : a = redDiff(s, d.newest) /\ b = redDiff(d.newest, s)
  OBVIOUS
<1>8. /\ a = IF n >= N THEN n - N ELSE 2 * H - (N - n)
      /\ b = IF N >= n THEN N - n ELSE 2 * H - (n - N)
  BY ONLY <1>1, <1>2, <1>4, <1>5, <1>6, <1>7, Apart(sq) DEF Apart
<1>9. Newer(d, s, r) \/ TooOld(d, s, r) \/ Remembered(d, s, r)
  BY ONLY <1>4, <1>5, Marked, r = markSeen(d, sq[n].seq), s \in RedSeq
<1>10. r.d \in Dec /\ r.d.started = TRUE
  BY ONLY <1>4, <1>5, MarkType, r = markSeen(d, sq[n].seq), s \in RedSeq
<1>11. CASE n > N
  <2>1. a = n - N /\ a \in 1 .. H - 1
    BY ONLY <1>3, <1>4, <1>6, <1>8, <1>11, m \in Nat, H \in Nat
  <2>2. Newer(d, s, r)
    BY ONLY <1>2, <1>7, <1>9, <2>1 DEF TooOld, Remembered
  <2>3. PICK T : T = {i + a : i \in {j \in d.seen : j + a < Window}} \cup {0}
    OBVIOUS
  <2>4. r.new = TRUE /\ r.d = [started |-> d.started, newest |-> s, seen |-> T]
    BY ONLY <1>7, <2>2, <2>3, Zenon DEF Newer
  <2>5. r.d.newest = s /\ r.d.seen = T
    BY ONLY <2>4
  <2>6. R \cup {n} \in SUBSET (1 .. n)
    <3>1. n \in Nat /\ N \in Nat /\ N < n /\ n # 0
      BY ONLY <1>4, <1>6, <1>11, m \in Nat
    <3>2. \A i \in R : i \in 1 .. n
      BY ONLY <1>4, <3>1
    <3> QED
      BY ONLY <3>1, <3>2
  <2>7. T = {i \in 0 .. Window - 1 : n - i \in R \cup {n}}
    <3>1. ASSUME NEW i \in T PROVE i \in 0 .. Window - 1 /\ n - i \in R \cup {n}
      <4>1. CASE i = 0
        BY ONLY <1>3, <1>6, <4>1, m \in Nat
      <4>2. CASE i # 0
        <5>1. PICK j \in d.seen : i = j + a /\ j + a < Window
          BY ONLY <2>3, <4>2, i \in T
        <5>2. j \in 0 .. Window - 1 /\ N - j \in R
          BY ONLY <1>4, j \in d.seen
        <5>3. i \in 0 .. Window - 1 /\ n - i = N - j
          BY ONLY <1>3, <1>4, <1>6, <2>1, <5>1, <5>2, m \in Nat
        <5> QED
          BY ONLY <5>2, <5>3
      <4> QED
        BY ONLY <4>1, <4>2
    <3>2. ASSUME NEW i \in 0 .. Window - 1, n - i \in R \cup {n} PROVE i \in T
      <4>1. CASE i = 0
        BY ONLY <2>3, <4>1
      <4>2. CASE i # 0
        <5>1. n - i # n
          BY ONLY <1>3, <1>6, <4>2, m \in Nat, i \in 0 .. Window - 1
        <5>2. n - i \in R
          BY ONLY <3>2, <5>1
        <5>3. n - i \in 1 .. N
          BY ONLY <1>4, <5>2
        <5>4. PICK j \in 0 .. Window - 1 : i = j + a /\ N - j = n - i /\ j + a < Window
          BY ONLY <1>3, <1>4, <1>6, <2>1, <5>3, m \in Nat, i \in 0 .. Window - 1
        <5>5. j \in d.seen
          BY ONLY <1>4, <5>2, <5>4, j \in 0 .. Window - 1
        <5> QED
          BY ONLY <2>3, <5>4, <5>5
      <4> QED
        BY ONLY <4>1, <4>2
    <3> QED
      BY ONLY <3>1, <3>2
  <2>8. Knows(r.d, sq, n, R \cup {n})
    BY ONLY <1>1, <1>5, <1>6, <1>10, <2>5, <2>6, <2>7 DEF Knows
  <2>9. n \notin R /\ n >= N
    BY ONLY <1>4, <1>6, <1>11, m \in Nat
  <2>10. MarkedAt(r, sq, N, R, n, n)
    BY ONLY <2>4, <2>8, <2>9, Zenon DEF MarkedAt
  <2> QED
    BY ONLY <2>10
<1>12. CASE ~(n > N)
  <2>1. a \notin 1 .. H - 1 /\ b = N - n /\ b \in Nat
    BY ONLY <1>3, <1>4, <1>6, <1>8, <1>12, m \in Nat, H \in Nat
  <2>2. ~Newer(d, s, r)
    BY ONLY <1>2, <1>7, <2>1 DEF Newer
  <2>3. R \cup {n} \in SUBSET (1 .. N)
    <3>1. N \in 1 .. m /\ R \in SUBSET (1 .. N)
      BY ONLY <1>4
    <3>2. n \in 1 .. N
      BY ONLY <1>6, <1>12, <3>1, m \in Nat
    <3> QED
      BY ONLY <3>1, <3>2
  <2>4. N >= N
    BY ONLY <1>4, m \in Nat
  <2>5. CASE TooOld(d, s, r)
    <3>1. b >= Window /\ r.new = TRUE /\ r.d = d
      BY ONLY <1>7, <2>5 DEF TooOld
    <3>2. \A i \in 0 .. Window - 1 : N - i # n
      BY ONLY <1>3, <1>4, <1>6, <2>1, <3>1, m \in Nat
    <3>3. d.seen = {i \in 0 .. Window - 1 : N - i \in R \cup {n}}
      BY ONLY <1>4, <3>2
    <3>4. Knows(r.d, sq, N, R \cup {n})
      BY ONLY <1>1, <1>4, <2>3, <3>1, <3>3 DEF Knows
    <3>5. N - n >= Window
      BY ONLY <2>1, <3>1
    <3>6. MarkedAt(r, sq, N, R, n, N)
      BY ONLY <2>4, <3>1, <3>4, <3>5, Zenon DEF MarkedAt
    <3> QED
      BY ONLY <3>6
  <2>6. CASE Remembered(d, s, r)
    <3>1. /\ b < Window /\ r.new = (b \notin d.seen)
          /\ r.d = [started |-> d.started, newest |-> d.newest, seen |-> d.seen \cup {b}]
      BY ONLY <1>7, <2>6, Zenon DEF Remembered
    <3>2. r.d.newest = d.newest /\ r.d.seen = d.seen \cup {b}
      BY ONLY <3>1
    <3>3. b \in 0 .. Window - 1 /\ N - b = n /\ \A i \in 0 .. Window - 1 : N - i = n => i = b
      BY ONLY <1>3, <1>4, <1>6, <2>1, <3>1, m \in Nat
    <3>4. b \in d.seen <=> n \in R
      BY ONLY <1>4, <3>3
    <3>5. d.seen \cup {b} = {i \in 0 .. Window - 1 : N - i \in R \cup {n}}
      BY ONLY <1>4, <3>3
    <3>6. Knows(r.d, sq, N, R \cup {n})
      BY ONLY <1>1, <1>4, <1>10, <2>3, <3>2, <3>5 DEF Knows
    <3>7. MarkedAt(r, sq, N, R, n, N)
      BY ONLY <2>4, <3>1, <3>4, <3>6, Zenon DEF MarkedAt
    <3> QED
      BY ONLY <3>7
  <2> QED
    BY ONLY <1>9, <2>2, <2>5, <2>6
<1> QED
  BY ONLY <1>11, <1>12

\* What has been taken so far: of the packets numbered J, those not in R are out.
Outcome(acc, sq, N, R, J, N2) ==
    /\ acc \in Acc /\ N2 >= N /\ Knows(acc.d, sq, N2, R \cup J)
    /\ \A x \in Range(acc.out) : \E n \in J : x = sq[n] /\ (n \in R => N2 - n >= Window)
    /\ \A n \in J : n \in R \/ sq[n] \in Range(acc.out)

LEMMA OutcomeStep ==
    ASSUME NEW sq \in Seq(RedPacket), Apart(sq), Len(sq) <= 2^(RedWidth - 1), NEW N \in Nat,
           NEW acc, NEW R, NEW J, NEW N1, Outcome(acc, sq, N, R, J, N1), NEW n \in 1 .. Len(sq)
    PROVE  \E N2 : Outcome(TakeOne(acc, sq[n]), sq, N, R, J \cup {n}, N2)
<1>1. /\ acc \in Acc /\ N1 >= N /\ Knows(acc.d, sq, N1, R \cup J)
      /\ \A x \in Range(acc.out) : \E k \in J : x = sq[k] /\ (k \in R => N1 - k >= Window)
      /\ \A k \in J : k \in R \/ sq[k] \in Range(acc.out)
  BY DEF Outcome
<1>2. PICK m \in Nat : m = Len(sq)
  BY LenProperties
<1>3. PICK p \in RedPacket : p = sq[n]
  BY <1>2, ElementOfSeq
<1>4. PICK r : r = markSeen(acc.d, p.seq)
  OBVIOUS
<1>5. PICK N2 : MarkedAt(r, sq, N1, R \cup J, n, N2)
  BY ONLY <1>1, <1>3, <1>4, MarkIndex, sq \in Seq(RedPacket), Apart(sq), Len(sq) <= 2^(RedWidth - 1), n \in 1 .. Len(sq)
<1>6. /\ N2 >= N1 /\ Knows(r.d, sq, N2, (R \cup J) \cup {n})
      /\ ~r.new => n \in R \cup J
      /\ r.new /\ n \in R \cup J => N2 - n >= Window
  BY ONLY <1>5 DEF MarkedAt
<1>7. PICK J2 : J2 = J \cup {n} /\ (R \cup J) \cup {n} = R \cup J2
  OBVIOUS
<1>8. N1 \in Nat /\ N2 \in Nat /\ R \cup J \in SUBSET Nat
  BY <1>1, <1>2, <1>6 DEF Knows
<1>9. PICK o : o = IF r.new THEN Append(acc.out, p) ELSE acc.out
  OBVIOUS
<1>10. PICK acc2 : acc2 = TakeOne(acc, p)
  OBVIOUS
<1>11. acc2 = [d |-> r.d, out |-> o]
  BY ONLY <1>4, <1>9, <1>10, Zenon DEF TakeOne
<1>12. acc2.d = r.d /\ acc2.out = o
  BY ONLY <1>11
<1>13. acc2 \in Acc
  BY ONLY <1>1, <1>10, TakeOneType, p \in RedPacket
<1>14. N2 >= N
  BY ONLY <1>1, <1>6, <1>8, N \in Nat
<1>15. \A k \in J : N1 - k >= Window => N2 - k >= Window
  BY ONLY <1>6, <1>8, RedAssumption, RedPowers
<1>16. acc.out \in Seq(RedPacket)
  BY ONLY <1>1 DEF Acc
<1>17. Range(Append(acc.out, p)) = Range(acc.out) \cup {p}
  BY ONLY <1>16, RangeOfAppend, p \in RedPacket
<1>18. \A x \in Range(acc.out) : \E k \in J2 : x = sq[k] /\ (k \in R => N2 - k >= Window)
  BY ONLY <1>1, <1>7, <1>15
<1>19. \A x \in Range(o) : \E k \in J2 : x = sq[k] /\ (k \in R => N2 - k >= Window)
  <2>1. CASE r.new
    <3>1. Range(o) = Range(acc.out) \cup {p}
      BY ONLY <1>9, <1>17, <2>1, Zenon
    <3>2. n \in J2 /\ p = sq[n] /\ (n \in R => N2 - n >= Window)
      BY ONLY <1>3, <1>6, <1>7, <2>1, Zenon
    <3> QED
      BY ONLY <1>18, <3>1, <3>2
  <2>2. CASE ~r.new
    <3>1. o = acc.out
      BY ONLY <1>9, <2>2, Zenon
    <3> QED
      BY ONLY <1>18, <3>1
  <2> QED
    BY ONLY <2>1, <2>2
<1>20. \A k \in J2 : k \in R \/ sq[k] \in Range(o)
  <2>1. CASE r.new
    <3>1. Range(o) = Range(acc.out) \cup {p}
      BY ONLY <1>9, <1>17, <2>1, Zenon
    <3> QED
      BY ONLY <1>1, <1>3, <1>7, <3>1
  <2>2. CASE ~r.new
    <3>1. o = acc.out
      BY ONLY <1>9, <2>2, Zenon
    <3>2. n \in R \/ n \in J
      BY ONLY <1>6, <2>2, Zenon
    <3> QED
      BY ONLY <1>1, <1>7, <3>1, <3>2
  <2> QED
    BY ONLY <2>1, <2>2
<1>21. Outcome(acc2, sq, N, R, J2, N2)
  BY ONLY <1>6, <1>7, <1>12, <1>13, <1>14, <1>19, <1>20, Zenon DEF Outcome
<1> QED
  BY ONLY <1>3, <1>7, <1>10, <1>21

\* All of packets, the sent ones numbered J, are taken.
TakenOutcome(d, packets, sq, N, R, J) == \E N2 : Outcome(taken(d, packets), sq, N, R, J, N2)

LEMMA TakenAll ==
    ASSUME NEW sq \in Seq(RedPacket), Apart(sq), Len(sq) <= 2^(RedWidth - 1), NEW N \in Nat,
           NEW d, NEW R, Knows(d, sq, N, R), NEW packets \in Seq(RedPacket),
           NEW ix \in [1 .. Len(packets) -> 1 .. Len(sq)], \A i \in 1 .. Len(packets) : packets[i] = sq[ix[i]]
    PROVE  TakenOutcome(d, packets, sq, N, R, {ix[i] : i \in 1 .. Len(packets)})
<1>1. PICK n \in Nat : n = Len(packets)
  BY LenProperties
<1>2. d \in Dec
  BY DEF Knows
<1>3. PICK g : TakenAlong(g, d, packets)
  BY ONLY <1>2, TakenSteps, packets \in Seq(RedPacket)
<1>4. /\ g \in [0 .. n -> Acc] /\ g[0] = [d |-> d, out |-> <<>>] /\ taken(d, packets) = g[n]
      /\ \A i \in 1 .. n : g[i] = TakeOne(g[i - 1], packets[i])
  BY ONLY <1>1, <1>3 DEF TakenAlong
<1> DEFINE Upto(i) == {ix[j] : j \in 1 .. i}
<1> DEFINE P(i) == \E N2 : Outcome(g[i], sq, N, R, Upto(i), N2)
<1>5. P(0)
  <2>1. Upto(0) = {}
    OBVIOUS
  <2>2. PICK acc \in Acc : acc = g[0]
    BY ONLY <1>4, n \in Nat
  <2>3. acc.d = d /\ acc.out = <<>>
    BY ONLY <1>4, <2>2
  <2>4. N >= N /\ R \cup {} = R
    OBVIOUS
  <2>5. Outcome(acc, sq, N, R, {}, N)
    BY ONLY <2>3, <2>4, NothingInEmpty, Knows(d, sq, N, R), acc \in Acc DEF Outcome
  <2> QED
    BY ONLY <2>1, <2>2, <2>5
<1>6. ASSUME NEW i \in 1 .. n, P(i - 1) PROVE P(i)
  <2>1. PICK N1 : Outcome(g[i - 1], sq, N, R, Upto(i - 1), N1)
    BY ONLY <1>6
  <2>2. PICK k \in 1 .. Len(sq) : k = ix[i] /\ packets[i] = sq[k]
    BY <1>1
  <2>3. PICK J : J = Upto(i - 1)
    OBVIOUS
  <2>4. \E N2 : Outcome(TakeOne(g[i - 1], sq[k]), sq, N, R, J \cup {k}, N2)
    BY ONLY <2>1, <2>3, OutcomeStep, sq \in Seq(RedPacket), Apart(sq), Len(sq) <= 2^(RedWidth - 1), N \in Nat,
            k \in 1 .. Len(sq)
  <2>5. J \cup {k} = Upto(i)
    <3>1. \A j \in 1 .. i : j \in 1 .. i - 1 \/ j = i
      OBVIOUS
    <3>2. i \in 1 .. i /\ \A j \in 1 .. i - 1 : j \in 1 .. i
      OBVIOUS
    <3> QED
      BY ONLY <2>2, <2>3, <3>1, <3>2
  <2>6. g[i] = TakeOne(g[i - 1], sq[k])
    BY ONLY <1>4, <2>2, i \in 1 .. n
  <2> QED
    BY ONLY <2>4, <2>5, <2>6
<1> HIDE DEF P
<1> DEFINE Off == {i \in Nat : i <= n /\ ~P(i)}
<1>7. Off = {}
  <2> SUFFICES ASSUME Off # {} PROVE FALSE
    OBVIOUS
  <2>1. PICK i \in Off : \A j \in Off : i <= j
    <3>1. Off \in SUBSET Nat
      OBVIOUS
    <3> HIDE DEF Off
    <3> QED
      BY <3>1, LeastOf
  <2>2. i \in 0 .. n /\ ~P(i)
    OBVIOUS
  <2>3. i \in 1 .. n /\ i - 1 \in Nat /\ i - 1 <= n /\ ~(i <= i - 1)
    BY <1>5, <2>2
  <2>4. P(i - 1)
    BY <2>1, <2>3
  <2> QED
    BY ONLY <1>6, <2>2, <2>3, <2>4
<1>8. P(n)
  <2>1. n \in Nat /\ n <= n
    OBVIOUS
  <2> QED
    BY <1>7, <2>1
<1> QED
  BY ONLY <1>1, <1>4, <1>8, Zenon DEF P, TakenOutcome

\* What Decode makes of a packet: the sent ones numbered R2 are known of now.
Decodes(res, sq, R, R2, N2) ==
    /\ Knows(res.d, sq, N2, R2) /\ R \subseteq R2
    /\ \A x \in Range(res.out) : \E n \in R2 : x = sq[n] /\ (n \in R => N2 - n >= Window)
    /\ \A n \in R2 : n \in R \/ sq[n] \in Range(res.out)

\* The redundant blocks stand for the packets directly before red.
LEMMA InPlace ==
    ASSUME NEW sq \in Seq(RedPacket), Apart(sq), Len(sq) <= 2^(RedWidth - 1), NEW red, InNet(red, sq)
    PROVE  \A i \in 1 .. Len(recovered(red)) :
              /\ red.id - Len(recovered(red)) + i - 1 \in 1 .. Len(sq)
              /\ recovered(red)[i] = sq[red.id - Len(recovered(red)) + i - 1]
<1>1. PICK m \in Nat : m = Len(sq)
  BY LenProperties
<1>2. PICK id \in 1 .. m : id = red.id /\ PrimaryOf(red) = sq[id]
  BY <1>1 DEF InNet
<1>3. PICK fs \in Seq(RedPacket) : fs = recovered(red)
  BY DEF InNet
<1>4. PICK k \in Nat : k = Len(fs)
  BY LenProperties
<1>5. \A i \in 1 .. k : redDiff(red.seq, fs[i].seq) = k - i + 1 /\ \E n \in 1 .. id - 1 : fs[i] = sq[n]
  BY ONLY <1>2, <1>3, <1>4, InNet(red, sq) DEF InNet
<1>6. red.seq = sq[id].seq
  <2>1. PrimaryOf(red).seq = red.seq
    BY DEF PrimaryOf
  <2> QED
    BY ONLY <1>2, <2>1
<1>7. ASSUME NEW i \in 1 .. k PROVE id - k + i - 1 \in 1 .. m /\ fs[i] = sq[id - k + i - 1]
  <2>1. PICK n \in 1 .. id - 1 : fs[i] = sq[n]
    BY <1>5
  <2>2. n \in 1 .. m /\ id >= n
    BY ONLY n \in 1 .. id - 1, id \in 1 .. m, m \in Nat
  <2>3. redDiff(sq[id].seq, sq[n].seq) = id - n
    BY ONLY <1>1, <2>2, Apart(sq), id \in 1 .. m DEF Apart
  <2>4. id - n = k - i + 1
    BY ONLY <1>5, <1>6, <2>1, <2>3, i \in 1 .. k
  <2>5. n = id - k + i - 1
    BY ONLY <2>4, n \in 1 .. id - 1, id \in 1 .. m, m \in Nat, k \in Nat, i \in 1 .. k
  <2> QED
    BY ONLY <2>1, <2>2, <2>5
<1> QED
  BY ONLY <1>1, <1>2, <1>3, <1>4, <1>7

LEMMA DecodeIndex ==
    ASSUME NEW sq \in Seq(RedPacket), Apart(sq), Len(sq) <= 2^(RedWidth - 1), NEW red, InNet(red, sq),
           NEW d \in Dec, NEW N, NEW R, Knows(Listening(d, red), sq, N, R), NEW res, res = Decode(d, red)
    PROVE  \E N2, R2 : /\ Decodes(res, sq, R, R2, N2)
                       /\ d.started /\ Range(res.out) # {} =>
                            \A n \in 1 .. red.id - 1 : n >= red.id - Len(red.wire.headers) => n \in R2
<1>1. PICK m \in Nat : m = Len(sq)
  BY LenProperties
<1>2. PICK first, rest : Decoded(d, red, first, rest, res)
  BY ONLY DecodedBy, res = Decode(d, red)
<1>3. /\ PrimaryOf(red) \in RedPacket /\ red.seq = sq[red.id].seq
      /\ Offered(d, red) \in Seq(RedPacket) /\ rest \in Acc
  <2>1. DecodeTyped(d, sq, red, first, rest)
    BY ONLY <1>2, DecodeTypes, d \in Dec, sq \in Seq(RedPacket), InNet(red, sq)
  <2> QED
    BY ONLY <2>1 DEF DecodeTyped
<1>4. PICK id \in 1 .. m : id = red.id /\ PrimaryOf(red) = sq[id]
  BY <1>1 DEF InNet
<1>5. /\ first = markSeen(Listening(d, red), sq[id].seq)
      /\ rest = taken(first.d, Offered(d, red))
  BY ONLY <1>2, <1>3, <1>4 DEF Decoded
<1>6. PICK N1 : MarkedAt(first, sq, N, R, id, N1)
  BY ONLY <1>1, <1>5, MarkIndex, Knows(Listening(d, red), sq, N, R), sq \in Seq(RedPacket), Apart(sq),
          Len(sq) <= 2^(RedWidth - 1), id \in 1 .. m
<1>7. /\ N1 >= N /\ Knows(first.d, sq, N1, R \cup {id})
      /\ ~first.new => id \in R
      /\ first.new /\ id \in R => N1 - id >= Window
  BY ONLY <1>6 DEF MarkedAt
<1>8. CASE ~first.new
  <2>1. res = [d |-> first.d, out |-> <<>>]
    BY ONLY <1>2, <1>8, Zenon DEF Decoded
  <2>2. res.d = first.d /\ res.out = <<>>
    BY ONLY <2>1
  <2>3. R \cup {id} = R
    BY ONLY <1>7, <1>8
  <2>4. Decodes(res, sq, R, R, N1)
    BY ONLY <1>7, <2>2, <2>3, NothingInEmpty DEF Decodes
  <2>5. Range(res.out) = {}
    BY ONLY <2>2, NothingInEmpty
  <2> QED
    BY ONLY <2>4, <2>5
<1>9. CASE first.new
  <2>1. PICK packets \in Seq(RedPacket) : packets = Offered(d, red)
    BY ONLY <1>3
  <2>2. PICK k \in Nat : k = Len(packets)
    BY ONLY LenProperties, packets \in Seq(RedPacket)
  <2>3. \A i \in 1 .. k : id - k + i - 1 \in 1 .. m /\ packets[i] = sq[id - k + i - 1]
    <3>1. CASE d.started
      <4>1. packets = recovered(red)
        BY ONLY <2>1, <3>1, Zenon DEF Offered
      <4>2. \A i \in 1 .. Len(recovered(red)) :
              /\ red.id - Len(recovered(red)) + i - 1 \in 1 .. Len(sq)
              /\ recovered(red)[i] = sq[red.id - Len(recovered(red)) + i - 1]
        BY ONLY InPlace, sq \in Seq(RedPacket), Apart(sq), Len(sq) <= 2^(RedWidth - 1), InNet(red, sq)
      <4> QED
        BY ONLY <1>1, <1>4, <2>2, <4>1, <4>2
    <3>2. CASE ~d.started
      <4>1. packets = <<>>
        BY ONLY <2>1, <3>2, Zenon DEF Offered
      <4>2. k = 0
        BY ONLY <2>2, <4>1
      <4> QED
        BY ONLY <4>2
    <3> QED
      BY ONLY <3>1, <3>2
  <2>4. PICK ix : ix = [i \in 1 .. k |-> id - k + i - 1]
    OBVIOUS
  <2>5. ix \in [1 .. Len(packets) -> 1 .. Len(sq)] /\ \A i \in 1 .. Len(packets) : packets[i] = sq[ix[i]]
    BY ONLY <1>1, <2>2, <2>3, <2>4
  <2>6. PICK J : J = {ix[i] : i \in 1 .. Len(packets)}
    OBVIOUS
  <2>7. N1 \in Nat /\ R \cup {id} \in SUBSET Nat /\ N1 \in 1 .. m
    BY ONLY <1>1, <1>7, m \in Nat DEF Knows
  <2>8. TakenOutcome(first.d, packets, sq, N1, R \cup {id}, {ix[i] : i \in 1 .. Len(packets)})
    BY ONLY <1>7, <2>5, <2>7, TakenAll, sq \in Seq(RedPacket), Apart(sq), Len(sq) <= 2^(RedWidth - 1),
            packets \in Seq(RedPacket)
  <2>9. PICK N2 : Outcome(rest, sq, N1, R \cup {id}, J, N2)
    BY ONLY <1>5, <2>1, <2>6, <2>8 DEF TakenOutcome
  <2>10. /\ N2 >= N1 /\ Knows(rest.d, sq, N2, (R \cup {id}) \cup J)
         /\ \A x \in Range(rest.out) : \E n \in J : x = sq[n] /\ (n \in R \cup {id} => N2 - n >= Window)
         /\ \A n \in J : n \in R \cup {id} \/ sq[n] \in Range(rest.out)
    BY ONLY <2>9 DEF Outcome
  <2>11. PICK R2 : R2 = (R \cup {id}) \cup J
    OBVIOUS
  <2>12. res = [d |-> rest.d, out |-> Append(rest.out, PrimaryOf(red))]
    BY ONLY <1>2, <1>9, Zenon DEF Decoded
  <2>13. res.d = rest.d /\ res.out = Append(rest.out, PrimaryOf(red))
    BY ONLY <2>12
  <2>14. Range(res.out) = Range(rest.out) \cup {sq[id]}
    <3>1. rest.out \in Seq(RedPacket)
      BY ONLY <1>3 DEF Acc
    <3> QED
      BY ONLY <1>3, <1>4, <2>13, <3>1, RangeOfAppend
  <2>15. id \in R => N2 - id >= Window
    <3>1. N2 \in Nat
      BY ONLY <1>1, <2>10, m \in Nat DEF Knows
    <3>2. id \in R => N1 - id >= Window
      BY ONLY <1>7, <1>9
    <3> QED
      BY ONLY <2>7, <2>10, <3>1, <3>2, RedAssumption, RedPowers, id \in 1 .. m, m \in Nat
  <2>16. \A x \in Range(res.out) : \E n \in R2 : x = sq[n] /\ (n \in R => N2 - n >= Window)
    BY ONLY <2>10, <2>11, <2>14, <2>15
  <2>17. \A n \in R2 : n \in R \/ sq[n] \in Range(res.out)
    BY ONLY <2>10, <2>11, <2>14
  <2>18. Decodes(res, sq, R, R2, N2)
    BY ONLY <2>10, <2>11, <2>13, <2>16, <2>17 DEF Decodes
  <2>19. ASSUME d.started, NEW n \in 1 .. red.id - 1, n >= red.id - Len(red.wire.headers) PROVE n \in R2
    <3>1. packets = recovered(red)
      BY ONLY <2>1, <2>19, Zenon DEF Offered
    <3>2. Len(red.wire.headers) = k
      BY ONLY <2>2, <3>1, InNet(red, sq) DEF InNet
    <3>3. PICK i \in 1 .. k : n = id - k + i - 1
      <4>0. n \in 1 .. id - 1 /\ n >= id - k
        BY ONLY <1>4, <2>19, <3>2
      <4>1. n - id + k + 1 \in 1 .. k /\ n = id - k + (n - id + k + 1) - 1
        BY ONLY <4>0, id \in 1 .. m, m \in Nat, k \in Nat
      <4> QED
        BY ONLY <4>1
    <3> QED
      BY ONLY <2>2, <2>4, <2>6, <2>11, <3>3, i \in 1 .. k
  <2> QED
    BY ONLY <2>18, <2>19
<1> QED
  BY ONLY <1>8, <1>9

\* What the decoder has handed out is what it knows to have been.
KnowsOut(d, sq, out) == \E N, R : Knows(d, sq, N, R) /\ out = {sq[n] : n \in R}

RedInv ==
    /\ RedBase
    /\ Len(sent) <= MaxSent
    /\ \E s0 : Numbered(sent, next.seq, s0)
    /\ decoder.started => KnowsOut(decoder, sent, redOut)
    /\ ~decoder.started => redOut = {}
    /\ twice = {}
    /\ \A n \in owed : n \in 1 .. Len(sent) /\ sent[n] \in redOut

LEMMA RedInvInit == RedInit => RedInv
<1> SUFFICES ASSUME RedInit PROVE RedInv
  OBVIOUS
<1>1. RedBase
  BY RedBaseInit
<1>2. sent = <<>> /\ decoder = NewDecoder /\ redOut = {} /\ twice = {} /\ owed = {}
  BY DEF RedInit
<1>3. Len(sent) = 0 /\ Len(sent) <= MaxSent
  BY <1>2, RedAssumption
<1>4. \E s0 : Numbered(sent, next.seq, s0)
  <2>1. PICK s \in Nat : s = next.seq /\ s \in 0 .. 2^RedWidth - 1
    BY <1>1, RedPowers DEF RedBase, RedSeq
  <2>2. PICK M \in Nat \ {0} : M = 2^RedWidth
    BY RedPowers
  <2>3. s \in 0 .. M - 1 /\ s = 0 * M + s /\ 0 \in Int /\ s \in Int
    BY ONLY <2>1, <2>2, s \in Nat, M \in Nat
  <2>4. s % M = s
    BY ONLY <2>3, RemainderUnique, M \in Nat \ {0}
  <2>5. s + 0 = s
    BY ONLY s \in Nat
  <2>6. next.seq = (s + Len(sent)) % 2^RedWidth
    BY ONLY <1>3, <2>1, <2>2, <2>4, <2>5
  <2>7. \A n \in 1 .. Len(sent) : FALSE
    BY ONLY <1>3
  <2>8. Numbered(sent, next.seq, s)
    BY ONLY <2>6, <2>7, s \in Nat, Zenon DEF Numbered
  <2> QED
    BY ONLY <2>8
<1>5. ~decoder.started
  BY <1>2 DEF NewDecoder
<1> QED
  BY ONLY <1>1, <1>2, <1>3, <1>4, <1>5 DEF RedInv

\* Sending a packet leaves what the decoder knows as it was.
LEMMA KnowsGrows ==
    ASSUME NEW sq \in Seq(RedPacket), NEW pkt \in RedPacket, NEW d, NEW out, KnowsOut(d, sq, out)
    PROVE  KnowsOut(d, Append(sq, pkt), out)
<1>1. PICK N, R : Knows(d, sq, N, R) /\ out = {sq[n] : n \in R}
  BY DEF KnowsOut
<1>2. PICK m \in Nat : m = Len(sq)
  BY LenProperties
<1>3. PICK t : t = Append(sq, pkt)
  OBVIOUS
<1>4. Len(t) = m + 1 /\ \A i \in 1 .. m : t[i] = sq[i]
  BY <1>2, <1>3, AppendProperties
<1>5. N \in 1 .. m /\ R \in SUBSET (1 .. N)
  BY ONLY <1>1, <1>2 DEF Knows
<1>6. N \in 1 .. m + 1 /\ \A n \in R : n \in 1 .. m
  BY ONLY <1>5, m \in Nat
<1>7. Knows(d, t, N, R)
  BY ONLY <1>1, <1>4, <1>5, <1>6 DEF Knows
<1>8. out = {t[n] : n \in R}
  BY ONLY <1>1, <1>4, <1>6
<1> QED
  BY ONLY <1>3, <1>7, <1>8 DEF KnowsOut

\* The invariant's last parts, when one packet is sent.
LEMMA SendKeeps ==
    ASSUME RedInv, RedBase', NEW pkt \in RedPacket, pkt.seq = next.seq, Len(sent) < MaxSent,
           sent' = Append(sent, pkt), next'.seq = (next.seq + 1) % 2^RedWidth,
           decoder' = decoder, UNCHANGED gotVars
    PROVE  RedInv'
<1>1. sent \in Seq(RedPacket)
  BY DEF RedInv, RedBase, FromSent
<1>2. PICK m \in Nat : m = Len(sent)
  BY <1>1, LenProperties
<1>3. PICK t : t = Append(sent, pkt)
  OBVIOUS
<1>4. Len(t) = m + 1 /\ \A i \in 1 .. m : t[i] = sent[i]
  BY <1>1, <1>2, <1>3, AppendProperties
<1>5. redOut' = redOut /\ twice' = twice /\ owed' = owed /\ decoder' = decoder /\ sent' = t
  BY <1>3 DEF gotVars
<1>6. Len(t) <= MaxSent
  BY <1>2, <1>4, RedAssumption
<1>7. PICK s0 : Numbered(sent, next.seq, s0)
  BY DEF RedInv
<1>8. Numbered(t, (next.seq + 1) % 2^RedWidth, s0)
  BY ONLY <1>1, <1>3, <1>7, NumbersGrow, pkt \in RedPacket, pkt.seq = next.seq
<1>9. \E s : Numbered(sent', next'.seq, s)
  BY ONLY <1>5, <1>8, next'.seq = (next.seq + 1) % 2^RedWidth
<1>10. decoder'.started => KnowsOut(decoder', sent', redOut')
  <2>1. decoder.started => KnowsOut(decoder, t, redOut)
    <3> SUFFICES ASSUME decoder.started PROVE KnowsOut(decoder, t, redOut)
      OBVIOUS
    <3>1. KnowsOut(decoder, sent, redOut)
      BY DEF RedInv
    <3> QED
      BY ONLY <1>1, <1>3, <3>1, KnowsGrows, pkt \in RedPacket
  <2> QED
    BY ONLY <1>5, <2>1
<1>11. \A n \in owed' : n \in 1 .. Len(sent') /\ sent'[n] \in redOut'
  <2>1. \A n \in owed : n \in 1 .. m /\ sent[n] \in redOut
    BY <1>2 DEF RedInv
  <2>2. \A n \in 1 .. m : n \in 1 .. m + 1
    OBVIOUS
  <2> QED
    BY ONLY <1>4, <1>5, <2>1, <2>2
<1>12. (~decoder'.started => redOut' = {}) /\ twice' = {}
  BY ONLY <1>5, RedInv DEF RedInv
<1> QED
  BY ONLY <1>5, <1>6, <1>9, <1>10, <1>11, <1>12, RedBase' DEF RedInv

\* Two sent packets are the same only if they are one.
LEMMA SameOne ==
    ASSUME NEW sq \in Seq(RedPacket), Apart(sq), Len(sq) <= 2^(RedWidth - 1),
           NEW n \in 1 .. Len(sq), NEW k \in 1 .. Len(sq), sq[n] = sq[k]
    PROVE  n = k
<1>1. PICK m \in Nat : m = Len(sq)
  BY LenProperties
<1>2. PICK H \in Nat \ {0} : H = 2^(RedWidth - 1) /\ 2^RedWidth = 2 * H
  BY RedPowers
<1>3. PICK a : a = redDiff(sq[n].seq, sq[k].seq) /\ a = redDiff(sq[n].seq, sq[n].seq)
  OBVIOUS
<1>4. n \in 1 .. m /\ k \in 1 .. m /\ m <= H
  BY <1>1, <1>2
<1>5. n >= n
  BY ONLY <1>4, m \in Nat
<1>6. a = n - n /\ a = IF n >= k THEN n - k ELSE 2 * H - (k - n)
  BY ONLY <1>1, <1>2, <1>3, <1>4, <1>5, Apart(sq) DEF Apart
<1> QED
  BY ONLY <1>4, <1>6, m \in Nat, H \in Nat \ {0}

\* Nothing the decoder still remembers comes out again.
LEMMA NotTwice ==
    ASSUME NEW sq \in Seq(RedPacket), Apart(sq), Len(sq) <= 2^(RedWidth - 1),
           NEW res, NEW R, NEW R2, NEW N2, Decodes(res, sq, R, R2, N2)
    PROVE  {p \in Range(res.out) \cap {sq[n] : n \in R} : redDiff(res.d.newest, p.seq) < Window} = {}
<1> SUFFICES ASSUME NEW p \in Range(res.out), NEW k \in R, p = sq[k], redDiff(res.d.newest, p.seq) < Window
             PROVE  FALSE
  OBVIOUS
<1>1. /\ Knows(res.d, sq, N2, R2) /\ R \subseteq R2
      /\ \A x \in Range(res.out) : \E n \in R2 : x = sq[n] /\ (n \in R => N2 - n >= Window)
  BY DEF Decodes
<1>2. PICK m \in Nat : m = Len(sq)
  BY LenProperties
<1>3. N2 \in 1 .. m /\ R2 \in SUBSET (1 .. N2) /\ res.d.newest = sq[N2].seq
  BY ONLY <1>1, <1>2 DEF Knows
<1>4. PICK n \in R2 : p = sq[n] /\ (n \in R => N2 - n >= Window)
  BY ONLY <1>1, p \in Range(res.out)
<1>5. n \in 1 .. m /\ N2 >= n
  BY ONLY <1>3, n \in R2, m \in Nat
<1>6. k \in 1 .. m
  BY ONLY <1>1, <1>3, k \in R, m \in Nat
<1>7. n = k
  <2>1. sq[n] = sq[k]
    BY ONLY <1>4, p = sq[k]
  <2> QED
    BY ONLY <1>2, <1>5, <1>6, <2>1, SameOne, sq \in Seq(RedPacket), Apart(sq), Len(sq) <= 2^(RedWidth - 1)
<1>8. N2 - n >= Window
  BY ONLY <1>4, <1>7, k \in R
<1>9. redDiff(sq[N2].seq, sq[n].seq) = N2 - n
  BY ONLY <1>2, <1>3, <1>5, Apart(sq) DEF Apart
<1>10. N2 - n < Window
  BY ONLY <1>3, <1>4, <1>9, redDiff(res.d.newest, p.seq) < Window
<1>11. Window \in Int
  BY ONLY RedAssumption, RedPowers
<1> QED
  BY ONLY <1>3, <1>5, <1>8, <1>10, <1>11, m \in Nat

LEMMA PacketizeKeeps ==
    ASSUME RedInv, NEW len \in Lengths, NEW step \in Steps, Packetize(len, step)
    PROVE  RedInv'
<1>1. RedBase
  BY DEF RedInv
<1>2. RedBase'
  BY ONLY <1>1, PacketizeBase, len \in Lengths, step \in Steps, Packetize(len, step)
<1>3. next \in [seq : RedSeq, ts : 0 .. 2^TsWidth - 1] /\ sent \in Seq(RedPacket)
  BY ONLY <1>1 DEF RedBase, FromSent
<1>4. PICK m \in Nat : m = Len(sent)
  BY <1>3, LenProperties
<1>5. Bytes(m + 1, len) \in Seq(Nat \X Nat)
  BY BytesType, RedAssumption
<1>6. PICK pkt \in RedPacket : pkt = [seq |-> next.seq, ts |-> next.ts, payload |-> Bytes(m + 1, len)]
  BY ONLY <1>3, <1>5, NextParts
<1>7. pkt.seq = next.seq
  BY ONLY <1>6
<1>8. /\ Len(sent) < MaxSent /\ sent' = Append(sent, pkt)
      /\ next' = [seq |-> (next.seq + 1) % 2^RedWidth, ts |-> (next.ts + step) % 2^TsWidth]
      /\ decoder' = decoder /\ UNCHANGED gotVars
  BY ONLY <1>4, <1>6, Packetize(len, step), Zenon DEF Packetize
<1>9. next'.seq = (next.seq + 1) % 2^RedWidth
  BY ONLY <1>8
<1> QED
  BY ONLY <1>2, <1>7, <1>8, <1>9, SendKeeps, RedInv, pkt \in RedPacket

LEMMA GeneratePaddingKeeps ==
    ASSUME RedInv, GeneratePadding
    PROVE  RedInv'
<1>1. RedBase
  BY DEF RedInv
<1>2. RedBase'
  BY ONLY <1>1, GeneratePaddingBase, GeneratePadding
<1>3. next \in [seq : RedSeq, ts : 0 .. 2^TsWidth - 1]
  BY ONLY <1>1 DEF RedBase
<1>4. <<>> \in Seq(Nat \X Nat)
  OBVIOUS
<1>5. PICK pkt \in RedPacket : pkt = [seq |-> next.seq, ts |-> next.ts, payload |-> <<>>]
  BY ONLY <1>3, <1>4, NextParts
<1>6. pkt.seq = next.seq
  BY ONLY <1>5
<1>7. /\ Len(sent) < MaxSent /\ sent' = Append(sent, pkt)
      /\ next' = [next EXCEPT !.seq = (next.seq + 1) % 2^RedWidth]
      /\ decoder' = decoder /\ UNCHANGED gotVars
  BY ONLY <1>5, GeneratePadding, Zenon DEF GeneratePadding
<1>8. next'.seq = (next.seq + 1) % 2^RedWidth
  BY ONLY <1>3, <1>7
<1> QED
  BY ONLY <1>2, <1>6, <1>7, <1>8, SendKeeps, RedInv, pkt \in RedPacket

\* What the decoder goes by when a packet arrives.
LEMMA ListeningKnows ==
    ASSUME RedInv, NEW pkt, InNet(pkt, sent)
    PROVE  \E N, R : Knows(Listening(decoder, pkt), sent, N, R) /\ redOut = {sent[n] : n \in R}
<1>1. CASE decoder.started
  <2>1. Listening(decoder, pkt) = decoder
    BY ONLY <1>1, Zenon DEF Listening
  <2>2. KnowsOut(decoder, sent, redOut)
    BY <1>1 DEF RedInv
  <2> QED
    BY ONLY <2>1, <2>2 DEF KnowsOut
<1>2. CASE ~decoder.started
  <2>1. redOut = {}
    BY <1>2 DEF RedInv
  <2>2. sent \in Seq(RedPacket)
    BY DEF RedInv, RedBase, FromSent
  <2>3. PICK m \in Nat : m = Len(sent)
    BY <2>2, LenProperties
  <2>4. PICK id \in 1 .. m : id = pkt.id /\ PrimaryOf(pkt) = sent[id]
    BY <2>3 DEF InNet
  <2>5. pkt.seq = sent[id].seq /\ pkt.seq \in RedSeq
    <3>1. PrimaryOf(pkt).seq = pkt.seq
      BY DEF PrimaryOf
    <3>2. sent[id] \in RedPacket
      BY <2>2, <2>3, ElementOfSeq
    <3> QED
      BY ONLY <2>4, <3>1, <3>2, RedPacketParts DEF RedSeq
  <2>6. PICK f : f = [started |-> TRUE, newest |-> pkt.seq, seen |-> {}]
    OBVIOUS
  <2>7. Listening(decoder, pkt) = f
    BY ONLY <1>2, <2>6, Zenon DEF Listening, Fresh
  <2>8. TRUE \in BOOLEAN /\ {} \in SUBSET (0 .. Window - 1) /\ {} \in SUBSET (1 .. id)
    OBVIOUS
  <2>9. f \in Dec
    BY ONLY <2>5, <2>6, <2>8 DEF Dec
  <2>10. f.started = TRUE /\ f.newest = sent[id].seq /\ f.seen = {}
    BY ONLY <2>5, <2>6
  <2>11. {} = {i \in 0 .. Window - 1 : id - i \in {}}
    OBVIOUS
  <2>12. Knows(f, sent, id, {})
    BY ONLY <2>3, <2>8, <2>9, <2>10, <2>11, id \in 1 .. m, Zenon DEF Knows
  <2>13. redOut = {sent[n] : n \in {}}
    BY ONLY <2>1
  <2> QED
    BY ONLY <2>7, <2>12, <2>13
<1> QED
  BY ONLY <1>1, <1>2

LEMMA ArriveKeeps ==
    ASSUME MaxSent <= 2^(RedWidth - 1), RedInv, NEW pkt \in network, Arrive(pkt)
    PROVE  RedInv'
<1>1. RedBase
  BY DEF RedInv
<1>2. RedBase'
  BY ONLY <1>1, ArriveBase, pkt \in network, Arrive(pkt)
<1>3. sent \in Seq(RedPacket) /\ InNet(pkt, sent) /\ decoder \in Dec
  BY ONLY <1>1, pkt \in network DEF RedBase, FromSent
<1>4. PICK m \in Nat : m = Len(sent)
  BY <1>3, LenProperties
<1>5. Len(sent) <= 2^(RedWidth - 1) /\ Len(sent) <= MaxSent
  BY <1>4, RedAssumption, RedPowers DEF RedInv
<1>6. Apart(sent)
  <2>1. PICK s0 : Numbered(sent, next.seq, s0)
    BY DEF RedInv
  <2> QED
    BY ONLY <1>3, <1>5, <2>1, NumbersApart
<1>7. PICK N, R : Knows(Listening(decoder, pkt), sent, N, R) /\ redOut = {sent[n] : n \in R}
  BY ONLY <1>3, ListeningKnows, RedInv
<1>8. PICK res : res = Decode(decoder, pkt)
  OBVIOUS
<1>9. PICK N2, R2 :
        /\ Decodes(res, sent, R, R2, N2)
        /\ decoder.started /\ Range(res.out) # {} =>
             \A n \in 1 .. pkt.id - 1 : n >= pkt.id - Len(pkt.wire.headers) => n \in R2
  BY ONLY <1>3, <1>5, <1>6, <1>7, <1>8, DecodeIndex
<1>10. /\ decoder' = res.d /\ redOut' = redOut \cup Range(res.out)
       /\ twice' = twice \cup {p \in Range(res.out) \cap redOut : redDiff(res.d.newest, p.seq) < Window}
       /\ owed' = owed \cup {n \in 1 .. pkt.id - 1 :
                               Range(res.out) # {} /\ decoder.started /\ n >= pkt.id - Len(pkt.wire.headers)}
       /\ sent' = sent /\ next' = next
  BY ONLY <1>8, Arrive(pkt), Zenon DEF Arrive
<1>11. /\ Knows(res.d, sent, N2, R2) /\ R \subseteq R2
       /\ \A x \in Range(res.out) : \E n \in R2 : x = sent[n]
       /\ \A n \in R2 : n \in R \/ sent[n] \in Range(res.out)
  BY ONLY <1>9 DEF Decodes
<1>12. redOut' = {sent[n] : n \in R2}
  BY ONLY <1>7, <1>10, <1>11
<1>13. KnowsOut(decoder', sent', redOut')
  BY ONLY <1>10, <1>11, <1>12 DEF KnowsOut
<1>14. decoder'.started
  <2>1. res.d.started = TRUE
    BY ONLY <1>11 DEF Knows
  <2> QED
    BY ONLY <1>10, <2>1, Zenon
<1>15. twice' = {}
  <2>1. {p \in Range(res.out) \cap {sent[n] : n \in R} : redDiff(res.d.newest, p.seq) < Window} = {}
    BY ONLY <1>3, <1>5, <1>6, <1>9, NotTwice
  <2>2. twice = {}
    BY DEF RedInv
  <2>3. {p \in Range(res.out) \cap redOut : redDiff(res.d.newest, p.seq) < Window} = {}
    BY ONLY <1>7, <2>1
  <2> QED
    BY ONLY <1>10, <2>2, <2>3
<1>16. \A n \in owed' : n \in 1 .. Len(sent') /\ sent'[n] \in redOut'
  <2>1. \A n \in owed : n \in 1 .. Len(sent) /\ sent[n] \in redOut
    BY DEF RedInv
  <2>2. \A n \in R2 : n \in 1 .. m
    <3>1. N2 \in 1 .. m /\ R2 \in SUBSET (1 .. N2)
      BY ONLY <1>4, <1>11 DEF Knows
    <3> QED
      BY ONLY <3>1, m \in Nat
  <2>3. \A n \in owed' : n \in owed \/ n \in R2
    BY ONLY <1>9, <1>10
  <2> QED
    BY ONLY <1>4, <1>10, <1>12, <2>1, <2>2, <2>3
<1>17. \E s0 : Numbered(sent', next'.seq, s0)
  BY ONLY <1>10, RedInv DEF RedInv
<1> QED
  BY ONLY <1>2, <1>5, <1>10, <1>13, <1>14, <1>15, <1>16, <1>17 DEF RedInv

LEMMA LoseKeeps ==
    ASSUME RedInv, NEW pkt \in network, Lose(pkt)
    PROVE  RedInv'
<1>1. RedBase'
  <2>1. RedBase
    BY DEF RedInv
  <2> QED
    BY ONLY <2>1, LoseBase, pkt \in network, Lose(pkt)
<1>2. /\ decoder' = decoder /\ redOut' = redOut /\ twice' = twice /\ owed' = owed
      /\ sent' = sent /\ next' = next
  BY DEF Lose, gotVars
<1> QED
  BY ONLY <1>1, <1>2, RedInv DEF RedInv

LEMMA RedInvStep ==
    ASSUME MaxSent <= 2^(RedWidth - 1)
    PROVE  RedInv /\ [RedNext]_redVars => RedInv'
<1> SUFFICES ASSUME RedInv, [RedNext]_redVars PROVE RedInv'
  OBVIOUS
<1>1. ASSUME NEW len \in Lengths, NEW step \in Steps, Packetize(len, step) PROVE RedInv'
  BY ONLY <1>1, RedInv, PacketizeKeeps
<1>2. CASE GeneratePadding
  BY ONLY <1>2, RedInv, GeneratePaddingKeeps
<1>3. ASSUME NEW pkt \in network, Arrive(pkt) PROVE RedInv'
  BY ONLY <1>3, RedInv, ArriveKeeps, MaxSent <= 2^(RedWidth - 1)
<1>4. ASSUME NEW pkt \in network, Lose(pkt) PROVE RedInv'
  BY ONLY <1>4, RedInv, LoseKeeps
<1>5. CASE UNCHANGED redVars
  <2>1. RedBase'
    BY <1>5, RedBaseStep DEF RedInv
  <2>2. /\ sent' = sent /\ redOut' = redOut /\ twice' = twice /\ owed' = owed
        /\ next' = next /\ decoder' = decoder
    BY ONLY <1>5 DEF redVars, gotVars
  <2> QED
    BY ONLY <2>1, <2>2, RedInv DEF RedInv
<1> QED
  BY <1>1, <1>2, <1>3, <1>4, <1>5 DEF RedNext

\* In a stream of at most half the sequence numbers, however its packets are
\* lost, reordered and duplicated and wherever its numbers wrap, Decode hands out
\* what was sent, nothing twice that markSeen still remembers, and every frame
\* the packets that came out repeat.
THEOREM RedLosslessCorrect == MaxSent <= 2^(RedWidth - 1) /\ RedSpec => []RedLossless
<1> SUFFICES ASSUME MaxSent <= 2^(RedWidth - 1) PROVE RedSpec => []RedLossless
  OBVIOUS
<1>1. RedInv => RedLossless
  BY DEF RedInv, RedBase, FromSent, RedLossless, RecoveredFaithfully, OutAtMostOnce, RecoverableComesOut
<1>2. RedInv /\ [RedNext]_redVars => RedInv'
  BY RedInvStep
<1> QED
  BY <1>1, <1>2, RedInvInit, PTL DEF RedSpec
=============================================================================
