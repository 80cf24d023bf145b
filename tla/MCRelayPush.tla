---------------------------- MODULE MCRelayPush ----------------------------
(* RelayPush for TLC: push sessions are interchangeable. *)
EXTENDS RelayPush, TLC

SessionSymmetry == Permutations(Sessions)
=============================================================================
