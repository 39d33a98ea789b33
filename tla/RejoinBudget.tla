---------------------------- MODULE RejoinBudget ----------------------------
(***************************************************************************)
(* What CallReconnect relies on of its rejoin limiter: a count of the      *)
(* events that still weigh, which an allowed event raises, which never     *)
(* passes the limit, and which time and a reset bring down.                *)
(***************************************************************************)
EXTENDS Naturals

CONSTANT Limit      \* events allowed at once

VARIABLE used       \* events that still weigh

Init == used = 0

\* Allow that said yes.
Spend == used < Limit /\ used' = used + 1

\* Time passing, and Reset.
Recover == \E left \in 0 .. used : used' = left

Next == Spend \/ Recover

Spec == Init /\ [][Next]_used
=============================================================================
