---------------------------- MODULE MCWorldCanon ----------------------------
(* A road p1 - p2 - p3 with broadcasts from p1, which reach p2 and not p3; two players,
   one of whom may have no session yet. *)
EXTENDS WorldCanon, TLC

CONSTANTS a, b, t1, t2, r, p1, p2, p3, k

MCSessionOf == t1 :> a @@ t2 :> b @@ r :> b
MCRoads == {<<p1, p2>>, <<p2, p3>>}
MCOrigin == k :> p1
MCDeltas == {-1, 1}
=============================================================================
