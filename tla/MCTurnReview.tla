---------------------------- MODULE MCTurnReview ----------------------------
(***************************************************************************)
(* A town and, behind a gate, its hall; a clerk who walks; one token.  As  *)
(* in a shipped pack, the town has a short name that is part of the hall's *)
(* full name.                                                              *)
(***************************************************************************)
EXTENDS TurnReview, TLC

CONSTANTS town, hall, clerk, token, Town, TownHall, Halle

MCRoad == {<<town, hall>>, <<hall, town>>}
MCGated == {<<town, hall>>}
MCCalled == town :> {Town} @@ hall :> {TownHall}
MCTranslations == {<<TownHall, Halle>>}
MCWithin == {<<n, n>> : n \in Names} \cup {<<Town, TownHall>>}
MCLongest == [N \in SUBSET Names |->
                IF TownHall \in N THEN TownHall ELSE CHOOSE n \in N \cup {Town} : N # {} => n \in N]

Says(name, present, called, times) ==
    [name |-> name, hint |-> None, people |-> present, called |-> called, absent |-> FALSE,
     items |-> token :> times, leak |-> FALSE]

\* Modest narrations, some that name a place by half of its name or by its translation,
\* and the kinds of overreach the harness looks for.
MCProposals ==
    {Says(None, {}, {clerk}, 1), Says(Halle, {clerk}, {}, 2),
     [Says(Town, {clerk}, {}, 0) EXCEPT !.hint = town, !.leak = TRUE],
     [Says(TownHall, {}, {clerk}, 1) EXCEPT !.absent = TRUE]}

MCSymmetry == Permutations(Turns)
=============================================================================
