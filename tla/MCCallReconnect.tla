-------------------------- MODULE MCCallReconnect --------------------------
(* Small instances of CallReconnect for TLC. *)
EXTENDS CallReconnect, TLC

Symmetry == Permutations(Conn) \cup Permutations(Sig) \cup Permutations(Peer)
=============================================================================
