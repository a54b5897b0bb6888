---------------------------- MODULE MCPlayerEntry ----------------------------
(* Content v has a first quest and its successor; w makes the successor the first one, in
   another faction. *)
EXTENDS PlayerEntry, TLC

CONSTANTS v, w, guild, watch, errand, journey

MCFactionOf == v :> guild @@ w :> watch
MCFirstQuest == v :> {errand} @@ w :> {journey}
MCNextQuest == v :> {journey} @@ w :> {}
Symmetry == Permutations(Starts) \cup Permutations(Names)
=============================================================================
