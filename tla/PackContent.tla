----------------------------- MODULE PackContent -----------------------------
(***************************************************************************)
(* What the files of a world pack say, what the loader asks of them, and   *)
(* the rows a world is seeded with.  A pack is its templates file and its  *)
(* NPC file (the files that nothing refers to go with the templates); a    *)
(* directory may come to hold the templates of one version and the people  *)
(* of another.                                                             *)
(*                                                                         *)
(* A template is tables: what it has of a kind, by id.  Entries mention    *)
(* ids of other kinds; what a mention is for does not matter here, nor do  *)
(* names, texts and figures.  Not asked of a pack, and so not here: that a *)
(* route's ends or a person's home are places of it.  Such a route is left *)
(* out, such a person stands nowhere.                                      *)
(***************************************************************************)
EXTENDS Integers

CONSTANTS
    Ids,        \* names, keys and ids
    Contents,   \* versions of a pack and the mixtures of two of them
    Text,       \* the template in each,
    People      \* and its people: the home of each NPC seed

\* Mentions: the kind of what is named, and its id.
Of(kinds) == SUBSET (kinds \X Ids)

Axes == [low : Int, start : Int, high : Int, marks : SUBSET Int]
Places == [id : Ids, refs : Of({"faction", "axis"})]
SharedFactions == [refs : Of({"faction", "axis", "place"}), npcs : SUBSET Ids]
Communities == [refs : Of({"community", "place", "axis", "group"})]
Sections == {"npc", "location", "community"}
Archetypes == [type : Sections, refs : Of({"place", "group"})]
HistoryRules == [refs : Of({"axis", "faction", "place"}), npcs : SUBSET Ids]
ConsequenceRules ==
    [refs : Of({"axis", "faction", "place", "title", "history"}), npcs : SUBSET Ids]
\* A branch has an anchor at least.
Branches == [key : Ids, anchors : SUBSET Ids \ {{}}]
Slots == {"formal_path", "undercurrent_path"}

IsTable(table, entries) ==
    /\ table = [i \in DOMAIN table |-> table[i]]
    /\ DOMAIN table \subseteq Ids
    /\ \A i \in DOMAIN table : table[i] \in entries

IsTemplate(t) ==
    /\ IsTable(t.axes, Axes) /\ IsTable(t.places, Places)
    /\ IsTable(t.factions, SharedFactions) /\ IsTable(t.communities, Communities)
    /\ \A s \in Sections : IsTable(t.archetypes[s], Archetypes)
    /\ IsTable(t.histories, HistoryRules) /\ IsTable(t.titles, HistoryRules)
    /\ IsTable(t.rules, ConsequenceRules)
    /\ t.routes \subseteq Ids \X Ids
    /\ t.roles \subseteq Ids                        \* the places of the roles,
    /\ t.guide \in SUBSET Ids                       \* the guide's archetype, or none
    /\ t.branches \in [Slots -> Branches]
    /\ t.primary \in Ids                            \* the primary faction
    /\ t.quests \subseteq {"quest", "followup"}
    /\ t.twice \in BOOLEAN                          \* an id is listed twice

ASSUME ContentConstants ==
    \A c \in Contents :
        /\ IsTemplate(Text[c])
        /\ IsTable(People[c], Ids)
        \* two places of one id would share a row, which the loader does not notice
        /\ \A p, q \in DOMAIN Text[c].places :
              Text[c].places[p].id = Text[c].places[q].id => p = q
----------------------------------------------------------------------------
(* The loader *)

\* A template without factions has its primary one; every community is a faction too.
Factions(t) ==
    (IF DOMAIN t.factions = {} THEN {t.primary} ELSE DOMAIN t.factions) \cup DOMAIN t.communities

InRange(axis) ==
    /\ axis.low < axis.high
    /\ \A x \in axis.marks \cup {axis.start} : axis.low <= x /\ x <= axis.high

\* What a mention of each kind may name.
Known(t) ==
    [place |-> DOMAIN t.places,
     axis |-> DOMAIN t.axes,
     faction |-> Factions(t),
     community |-> DOMAIN t.communities,
     group |-> DOMAIN t.communities \cup Factions(t),
     history |-> DOMAIN t.histories,
     title |-> DOMAIN t.titles]

Hold(t, table) == \A i \in DOMAIN table : \A ref \in table[i].refs : ref[2] \in Known(t)[ref[1]]

\* History, title and consequence rules mention what the template has.
RulesHold(t) == Hold(t, t.histories) /\ Hold(t, t.titles) /\ Hold(t, t.rules)

\* An archetype is in the section of its type.
InSection(t, s) ==
    \A i \in DOMAIN t.archetypes[s] :
        LET own == t.archetypes[t.archetypes[s][i].type] IN
        i \in DOMAIN own /\ own[i] = t.archetypes[s][i]

\* The two follow-up branches differ in their keys.
Forked(t) == t.branches["formal_path"].key # t.branches["undercurrent_path"].key

\* validate_world_template.
Sound(t) ==
    /\ \A a \in DOMAIN t.axes : InRange(t.axes[a])
    /\ Forked(t)
    /\ ~t.twice
    /\ t.roles \subseteq DOMAIN t.places
    /\ t.primary \in Factions(t)
    /\ Hold(t, t.places) /\ Hold(t, t.factions) /\ Hold(t, t.communities)
    /\ \A s \in Sections : Hold(t, t.archetypes[s]) /\ InSection(t, s)
    /\ t.guide \subseteq UNION {DOMAIN t.archetypes[s] : s \in Sections}
    /\ RulesHold(t)

\* The anchors of the follow-up branches, in whichever file they are.
AnchorsHold(c) ==
    LET t == Text[c] IN
    \A slot \in Slots :
        t.branches[slot].anchors \subseteq
            DOMAIN People[c] \cup DOMAIN t.archetypes["npc"] \cup DOMAIN t.communities
                \cup DOMAIN t.archetypes["location"] \cup DOMAIN t.places

\* The people whom factions and rules name: NPC seeds, or archetypes.
Named(table) == UNION {table[i].npcs : i \in DOMAIN table}

\* Fault: people are not looked up across the files.
PeopleHoldNever(c) == TRUE

PeopleHold(c) ==
    LET t == Text[c] IN
    Named(t.factions) \cup Named(t.histories) \cup Named(t.titles) \cup Named(t.rules)
        \subseteq DOMAIN People[c] \cup DOMAIN t.archetypes["npc"]

Fits(c) == Sound(Text[c]) /\ AnchorsHold(c) /\ PeopleHold(c)
----------------------------------------------------------------------------
(* The rows of a world *)

\* A world is seeded part by part, in this order, each by the registry of its moment.
QuestKinds == {"quest", "followup"}
Structure == {"places", "routes", "people", "shared"}
Parts == Structure \cup QuestKinds
Earlier ==
    [places |-> {}, routes |-> {"places"}, people |-> {"places", "routes"},
     shared |-> Structure \ {"shared"}, quest |-> Structure,
     followup |-> Structure \cup {"quest"}]

\* The parts of a world for a content, whose quests decide which of them are seeded.
PartsOf(c) == Structure \cup Text[c].quests

\* Below, s says from which content each part is seeded, and c is the content for which it
\* is: the run and the knowledge go by c, the rows by s.
PlaceRows(s) == {<<"place", p>> : p \in DOMAIN Text[s["places"]].places}

\* A route is left out when an end of it is no place.
Passable(s) ==
    LET places == DOMAIN Text[s["places"]].places IN
    {r \in Text[s["routes"]].routes : r[1] \in places /\ r[2] \in places}

RouteRows(s) == {<<"route", r>> : r \in Passable(s)}

\* The people, and one who does the preprocessing.
PeopleRows(s) == {<<"npc", n>> : n \in DOMAIN People[s["people"]]}
SystemRow == {<<"system", "pack_preprocess">>}

\* ensure_shared_world_seed.
Shared(c) ==
    {<<"axis", a>> : a \in DOMAIN Text[c].axes} \cup {<<"faction", f>> : f \in Factions(Text[c])}
SharedRows(s) == Shared(s["shared"])

\* A quest that the registry lacks by then is seeded with defaults.
QuestRows(c) == {<<"quest", q>> : q \in Text[c].quests}

\* Knowledge that is embedded: of the world, which is about the pack, its axes, factions
\* and quests, and of each place, about itself, the routes from it and who is at home
\* there.  Each group is projected by an event of its own.
Knowledge(c, s) ==
    LET places == DOMAIN Text[c].places \cap DOMAIN Text[s["places"]].places
        people == DOMAIN People[c] \cap DOMAIN People[s["people"]] IN
    {<<"world", row>> : row \in Shared(c) \cup QuestRows(c) \cup {<<"pack", c>>}}
        \cup {<<p, <<"place", p>>>> : p \in places}
        \cup {<<r[1], <<"route", r>>>> : r \in Passable(s)}
        \cup {<<People[c][n], <<"npc", n>>>> :
                 n \in {m \in people : People[c][m] \in DOMAIN Text[s["places"]].places}}

EventRows(c, s) == {<<"event", k[1]>> : k \in Knowledge(c, s)}

\* Places, people and the like are added and rewritten, never taken away; knowledge and
\* its events are replaced.
Rows(c, s) ==
    PlaceRows(s) \cup RouteRows(s) \cup PeopleRows(s) \cup SystemRow \cup SharedRows(s)
        \cup QuestRows(c) \cup {<<"memory", k>> : k \in Knowledge(c, s)} \cup EventRows(c, s)

\* Every place, axis and faction that the rules of a content change, and every person
\* they name who is no archetype, has a row in the world that is seeded for it.
Resolved(c, s) ==
    \A i \in DOMAIN Text[c].rules :
        LET rule == Text[c].rules[i] IN
        /\ \A ref \in rule.refs : ref[1] \in {"place", "axis", "faction"} => ref \in Rows(c, s)
        /\ \A n \in rule.npcs \ DOMAIN Text[c].archetypes["npc"] : <<"npc", n>> \in Rows(c, s)
=============================================================================
