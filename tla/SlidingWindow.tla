---------------------------- MODULE SlidingWindow ----------------------------
(***************************************************************************)
(* internal/ratelimit: at most Limit events in any Window-long period.     *)
(* Every method is one critical section of s.mu, but it reads the clock    *)
(* twice, and the clock may move in between.                               *)
(***************************************************************************)
EXTENDS Integers, Sequences, FiniteSets

CONSTANTS
    Limit,      \* limit, positive: zero or less allows everything
    Window,     \* window
    MaxTime     \* bound on the clock

ASSUME WindowAssumption ==
    /\ Limit \in Nat \ {0}
    /\ Window \in Nat \ {0}
    /\ MaxTime \in Nat

VARIABLES
    now,        \* the clock
    events,     \* events: when each remembered event was recorded
    allowed,    \* history: when each event since the last Reset was recorded
    verdict     \* history: what Allow answered, if the clock has not moved since

vars == <<now, events, allowed, verdict>>

TypeOK ==
    /\ now \in Nat
    /\ events \in Seq(Nat)
    /\ allowed \in Seq(Nat)
    /\ verdict \in {"none", "yes", "no"}

Init == now = 0 /\ events = <<>> /\ allowed = <<>> /\ verdict = "none"

\* Mutant: an event leaves the window one instant early.
expiredEarly(at, cutoff) == at <= cutoff + 1

\* !at.After(cutoff)
expired(at, cutoff) == at <= cutoff

Suffixes(s) == {SubSeq(s, k + 1, Len(s)) : k \in 0 .. Len(s)}

\* What evictLocked leaves when it has dropped the leading run of expired events.
evictLocked(kept) ==
    \E keep \in 0 .. Len(events) :
        /\ \A i \in 1 .. keep : expired(events[i], now - Window)
        /\ keep < Len(events) => ~expired(events[keep + 1], now - Window)
        /\ kept = SubSeq(events, keep + 1, Len(events))

\* Mutant: a refused event is recorded too.
AllowRecordsRefused ==
    \E kept \in Suffixes(events) :
      /\ evictLocked(kept) /\ events' = Append(kept, now)
      /\ IF Len(kept) >= Limit
         THEN verdict' = "no" /\ UNCHANGED allowed
         ELSE allowed' = Append(allowed, now) /\ verdict' = "yes"
      /\ UNCHANGED now

\* Allow evicts by the clock it reads first and records the one it reads last.
Allow ==
    \E kept \in Suffixes(events), later \in now .. MaxTime :
      /\ evictLocked(kept)
      /\ now' = later
      /\ IF Len(kept) >= Limit
         THEN /\ events' = kept
              /\ verdict' = IF later = now THEN "no" ELSE "none"
              /\ UNCHANGED allowed
         ELSE /\ events' = Append(kept, later)
              /\ allowed' = Append(allowed, later)
              /\ verdict' = "yes"

\* Remaining's answer leaves no trace; its eviction does.
Remaining ==
    \E kept \in Suffixes(events) :
      /\ evictLocked(kept)
      /\ events' = kept /\ verdict' = "none"
      /\ UNCHANGED <<now, allowed>>

Reset == events' = <<>> /\ allowed' = <<>> /\ verdict' = "none" /\ UNCHANGED now

Tick == now < MaxTime /\ now' = now + 1 /\ verdict' = "none" /\ UNCHANGED <<events, allowed>>

Next == Allow \/ Remaining \/ Reset \/ Tick

Spec == Init /\ [][Next]_vars

-----------------------------------------------------------------------------
\* The ceiling on a tight failure loop: of the events allowed since the last
\* Reset, any Limit + 1 consecutive ones span at least a Window, however the
\* evictions and the two clock reads of Allow fell.
AtMostLimitPerWindow ==
    \A i \in DOMAIN allowed :
        i + Limit \in DOMAIN allowed => allowed[i + Limit] - allowed[i] >= Window

\* No starvation: an Allow that says no is justified by Limit events allowed
\* within the Window that ends now.
RefusalJustified ==
    verdict = "no" => /\ Len(allowed) >= Limit
                      /\ allowed[Len(allowed) - Limit + 1] > now - Window

\* The limiter is exact: never more than Limit in a Window, and no refusal before.
LimiterExact == TypeOK /\ AtMostLimitPerWindow /\ RefusalJustified

\* The limiter is the counter CallReconnect uses: the events in the window.
live == {i \in DOMAIN events : ~expired(events[i], now - Window)}
Budget == INSTANCE RejoinBudget WITH used <- Cardinality(live)
RefinesBudget == Budget!Spec
=============================================================================
