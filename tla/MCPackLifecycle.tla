--------------------------- MODULE MCPackLifecycle ---------------------------
(* A hidden draft with one template that says nothing of its own.  Version v has a guard
   whom its rules name; the mixture vw, its templates with the people of w, lacks him,
   and wv loads.  Version x has a rule about an axis that it does not have. *)
EXTENDS PackLifecycle, TLC

CONSTANTS v, w, x, vw, wv, r1, r2, r3

MCManifest == [f \in Fields |-> "no"]
MCTemplateManifest == NoRow

MCIds ==
    {"trust", "awe", "gate", "hall", "moor", "g", "h", "guild", "smiths", "pilgrim", "fall",
     "favour", "guide", "guard", "oath", "shadow"}
Nothing == <<>>

Plain ==
    [axes |-> "trust" :> [low |-> -1, start |-> 0, high |-> 1, marks |-> {1}],
     places |-> "gate" :> [id |-> "g", refs |-> {<<"faction", "smiths">>}]
                 @@ "hall" :> [id |-> "h", refs |-> {<<"axis", "trust">>}],
     factions |-> Nothing,
     communities |-> "smiths" :> [refs |-> {<<"place", "hall">>, <<"group", "guild">>}],
     archetypes |-> [npc |-> "pilgrim" :> [type |-> "npc", refs |-> {<<"group", "smiths">>}],
                     location |-> Nothing, community |-> Nothing],
     histories |-> "fall" :> [refs |-> {<<"axis", "trust">>}, npcs |-> {}],
     titles |-> Nothing,
     rules |-> "favour" :> [refs |-> {<<"axis", "trust">>, <<"faction", "smiths">>,
                                      <<"place", "hall">>, <<"history", "fall">>},
                            npcs |-> {"guide", "pilgrim"}],
     routes |-> {<<"gate", "hall">>, <<"gate", "moor">>},
     roles |-> {"gate", "hall"}, guide |-> {"pilgrim"},
     branches |-> [formal_path |-> [key |-> "oath", anchors |-> {"guide"}],
                   undercurrent_path |-> [key |-> "shadow", anchors |-> {"smiths"}]],
     primary |-> "guild", quests |-> {"quest"}, twice |-> FALSE]

MCText ==
    LET guarded == [Plain EXCEPT !.rules["favour"].npcs = @ \cup {"guard"}] IN
    v :> guarded @@ vw :> guarded @@ w :> Plain @@ wv :> Plain
      @@ x :> [Plain EXCEPT !.rules["favour"].refs = @ \cup {<<"axis", "awe">>}]
MCPeople ==
    LET led == "guide" :> "gate"
        both == led @@ "guard" :> "moor" IN
    v :> both @@ wv :> both @@ w :> led @@ vw :> led @@ x :> led
Symmetry == Permutations(Requests)
=============================================================================
