---------------------------- MODULE MCIdleWorld -----------------------------
(* A road x -> y -> z and two NPCs who live at x, one of whom walks; the pack lists them
   the other way round than their ids. *)
EXTENDS IdleWorld, TLC

CONSTANTS x, y, z

MCRoads == {<<x, y>>, <<y, z>>}
MCHome == 1 :> x @@ 2 :> x
MCPackOrder == <<2, 1>>
=============================================================================
