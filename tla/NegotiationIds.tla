--------------------------- MODULE NegotiationIds ---------------------------
(***************************************************************************)
(* pc/negotiation_id.go: the ids that tie an answer to its offer, counters *)
(* of Width bits that wrap.                                                *)
(***************************************************************************)
EXTENDS Integers

CONSTANT Width      \* bits of an id, 32 in the code

ASSUME WidthAssumption == Width \in Nat /\ Width >= 3

invalidNegotiationID == 0
Ring == 2 ^ Width
Id == 0 .. Ring - 1

\* What the proofs use of the power, about which the provers know nothing; it
\* follows from WidthAssumption.
ASSUME RingAssumption == Ring \in Nat /\ Ring >= 8

\* Mutant: the wrapped counter uses the id that means "no id".
nextPlain(cur) == (cur + 1) % Ring

nextNegotiationID(cur) ==
    LET next == (cur + 1) % Ring IN IF next = invalidNegotiationID THEN 1 ELSE next

\* int32(a - b): how far a is ahead of b on the ring.
delta(a, b) == LET d == (a - b) % Ring IN IF d < Ring \div 2 THEN d ELSE d - Ring

\* Mutant: recency by plain comparison, blind to the wrap.
classifyPlain(id, remote, local) ==
    CASE id = invalidNegotiationID -> "accept"
      [] id # invalidNegotiationID /\ id < remote -> "stale"
      [] id # invalidNegotiationID /\ id = remote -> "duplicate"
      [] id # invalidNegotiationID /\ id > remote /\ id # local -> "mismatch"
      [] OTHER -> "accept"

\* What to do with an answer, given the id accepted last and the one pending.
classifyAnswerNegotiationID(id, remote, local) ==
    CASE id = invalidNegotiationID -> "accept"
      [] id # invalidNegotiationID /\ remote = invalidNegotiationID ->
            IF id # local THEN "mismatch" ELSE "accept"
      [] id # invalidNegotiationID /\ remote # invalidNegotiationID ->
            IF delta(id, remote) < 0 THEN "stale"
            ELSE IF id = remote THEN "duplicate"
            ELSE IF id # local THEN "mismatch" ELSE "accept"
=============================================================================
