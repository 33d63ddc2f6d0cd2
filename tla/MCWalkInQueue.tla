--------------------------- MODULE MCWalkInQueue ----------------------------
(* Small instances of WalkInQueue for TLC.                                  *)
EXTENDS WalkInQueue, TLC

CONSTANTS v1, v2, v3, m1, m2, p1, p2

Trio      == {v1, v2, v3}
Pair      == {m1, m2}
TrioPhone == v1 :> p1 @@ v2 :> p1 @@ v3 :> p2
OneParked == {v3}

\* The two visits with one number, and the managers.
Twins == Permutations({v1, v2}) \cup Permutations(Pair)

=============================================================================
