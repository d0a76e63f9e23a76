------------------------------ MODULE MCPlacement ------------------------------
(* Placement on small instances. *)
EXTENDS Placement

\* To and fro at full speed: the drive that interpolation places worst.
ToAndFro == {-1, 1}

\* The first device is heard near and far, the others always alike.
NearAndFar == [k \in Keys |-> IF k = 1 THEN {1, 2} ELSE {1}]
===============================================================================
