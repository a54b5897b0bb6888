--------------------------- MODULE MCReleaseGate ---------------------------
(* A small instance of ReleaseGate. *)
EXTENDS ReleaseGate, TLC

CONSTANTS f, g, h, s1, s2

MCLane == [x \in Files |-> IF x = g THEN "pro_lane" ELSE Unrouted]
Symmetry == Permutations({s1, s2}) \cup Permutations({f, h})
MCChecks == <<"failure", "shadow">>
=============================================================================
