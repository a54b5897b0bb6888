-------------------------- MODULE MCQuestLifecycle --------------------------
(***************************************************************************)
(* QuestLifecycle for TLC: two turns of a player that are told apart by    *)
(* nothing, and the idle passes of the scheduler, one at a time.           *)
(***************************************************************************)
EXTENDS QuestLifecycle, TLC

TurnSymmetry == Permutations(Turns)
=============================================================================
