---------------------------- MODULE MCRelayPull ----------------------------
(* RelayPull for TLC: attempts of one group are interchangeable. *)
EXTENDS RelayPull, TLC

Never == {-1}
AttemptSymmetry == Permutations(Attempts)
=============================================================================
