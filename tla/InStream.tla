------------------------------ MODULE InStream ------------------------------
(* What a Group promises about its input: a session becomes the input only  *)
(* when there is none, and it stays the input until it leaves.               *)
CONSTANTS Sessions, None

VARIABLE in

Init == in = None

Take(s) == in = None /\ in' = s

Leave == in # None /\ in' = None

Next == Leave \/ \E s \in Sessions : Take(s)

Spec == Init /\ [][Next]_in
=============================================================================
