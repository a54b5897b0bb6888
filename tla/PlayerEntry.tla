----------------------------- MODULE PlayerEntry -----------------------------
(***************************************************************************)
(* How a player enters a world: his profile, his first session, which      *)
(* tells the world who he is and locks his identity, and the requests that *)
(* resume it.  Nothing in the schema keeps a player from having two active *)
(* sessions.  What does is the seed of his part of the world: it is looked *)
(* for, then looked for again under an advisory lock that lasts until the  *)
(* commit, and only then is an active session looked for.                  *)
(*                                                                         *)
(* The seed is what the pack says of a newcomer: the faction he meets, his *)
(* standing with it, his sheet, his first quest, his chapter and scene.    *)
(* Other content may be made active at any time; what is looked for is the *)
(* faction, the sheet and the standing of the content that is active then. *)
(*                                                                         *)
(* Requests are READ COMMITTED transactions that keep the profile as they  *)
(* read it first, and write the columns they changed.                      *)
(***************************************************************************)
EXTENDS Naturals, FiniteSets

CONSTANTS
    Players,    \* player actors of one world
    Starts,     \* POST /sessions requests
    Patches,    \* PATCH player-profiles requests
    Names,      \* what identifies a player: display_name, gender, background, free_text
    Places,
    Starter,    \* the starter location
    Packs,      \* contents of the world's pack
    Keys,       \* ids of factions and quests
    FactionOf,  \* the faction of a newcomer in each content,
    FirstQuest, \* the quest that a session's start gives him, if any,
    NextQuest,  \* and the one seeded with it that may follow
    World,      \* owns what is nobody's in particular
    MaxTravels  \* bound: turns that travel

ASSUME EntryConstants ==
    /\ Starts \cap Patches = {}
    /\ Starter \in Places
    /\ Packs # {} /\ World \notin Players
    /\ FactionOf \in [Packs -> Keys]
    /\ FirstQuest \in [Packs -> SUBSET Keys] /\ NextQuest \in [Packs -> SUBSET Keys]
    /\ MaxTravels \in Nat

Requests == Starts \cup Patches

VARIABLES
    name,       \* committed: his identity, {} before his profile is created
    locked,     \* committed: PlayerProfile.locked_at is set
    told,       \* committed: the start that profile_setup_event_id is of, if any
    events,     \* committed: player.profile.created events, <<start, player, identity>>
    pack,       \* the content that is active
    rows,       \* committed: seeded rows, <<what, owner, id>>
    sessions,   \* committed: active sessions, <<start that created it, player>>
    place,      \* committed: Actor.current_location_id
    stage,      \* where each request is
    player,     \* the player it is about, if any
    copy,       \* his identity as it read it
    open,       \* locked_at was null when it read the profile
    untold,     \* profile_setup_event_id was null when it read the profile
    holds,      \* it holds the lock of the world's seed
    seeds,      \* the rows it has inserted
    creates,    \* it creates his session
    change,     \* the identity it asks for
    travels,
    overlaps    \* history: players whose first start ran together with a patch

profiles == <<name, locked, told>>
world == <<events, pack, rows, sessions, place>>
request == <<player, copy, open, untold, holds, seeds, creates, change>>
vars == <<profiles, world, stage, request, travels, overlaps>>

Stages == {"new", "seed", "lock", "again", "look", "commit", "done"}

Init ==
    /\ name = [p \in Players |-> {}]
    /\ locked = {}
    /\ told = [p \in Players |-> {}]
    /\ events = {}
    /\ pack \in Packs
    /\ rows = {}
    /\ sessions = {}
    /\ place = [p \in Players |-> Starter]
    /\ stage = [r \in Requests |-> "new"]
    /\ player = [r \in Requests |-> {}]
    /\ copy = [r \in Requests |-> {}]
    /\ open = [r \in Requests |-> FALSE]
    /\ untold = [r \in Requests |-> FALSE]
    /\ holds = [r \in Requests |-> FALSE]
    /\ seeds = [r \in Requests |-> {}]
    /\ creates = [r \in Requests |-> FALSE]
    /\ change = [r \in Requests |-> {}]
    /\ travels = 0
    /\ overlaps = {}

Goto(r, s) == stage' = [stage EXCEPT ![r] = s]
Running(r) == stage[r] \notin {"new", "done"}
About(r, p) == player[r] = {p}
HasSession(p) == \E s \in sessions : s[2] = p
----------------------------------------------------------------------------
(* What a newcomer finds *)

\* ensure_starter_faction.
Faction(v) == <<"faction", World, FactionOf[v]>>

\* ensure_faction_standing, ensure_character_sheet.
Standing(v, p) == <<"standing", p, FactionOf[v]>>
Sheet(p) == <<"sheet", p, World>>

\* ensure_starter_quest_template and ensure_followup_quest_template.
QuestTemplates(v) == {<<"quest", World, q>> : q \in FirstQuest[v] \cup NextQuest[v]}

\* ensure_starter_quest_assignment.
Assignments(v, p) == {<<"assignment", p, q>> : q \in FirstQuest[v]}

\* An open scene: turns close it only to open another one.  A chapter would be opened under
\* the opening_chapter_key of the template, which the packs leave empty.
Frame(p) == {<<"scene", p, World>>}

Seed(v, p) ==
    {Faction(v), Standing(v, p), Sheet(p)} \cup QuestTemplates(v) \cup Assignments(v, p)
        \cup Frame(p)

\* _existing_world_slice_seed.
Found(v, p) == {Faction(v), Standing(v, p), Sheet(p)} \subseteq rows

\* Other content becomes active.
Activate(v) ==
    /\ pack' = v
    /\ UNCHANGED <<profiles, events, rows, sessions, place, stage, request, travels, overlaps>>
----------------------------------------------------------------------------
(* Profiles *)

\* POST player-profiles.
Register(p) ==
    /\ name[p] = {}
    /\ \A r \in Requests : ~About(r, p)
    /\ \E n \in Names : name' = [name EXCEPT ![p] = {n}]
    /\ UNCHANGED <<locked, told, world, stage, request, travels, overlaps>>

\* Fault: the identity is left unchanged for a locked profile only by the client.
MayPatchAlways(p) == TRUE

\* 409 when the identity is locked.
MayPatch(p) == p \notin locked

\* PATCH player-profiles.
ReadPatch(r, p) ==
    /\ r \in Patches
    /\ stage[r] = "new"
    /\ name[p] # {}
    /\ MayPatch(p)
    /\ Goto(r, "commit")
    /\ player' = [player EXCEPT ![r] = {p}]
    /\ copy' = [copy EXCEPT ![r] = name[p]]
    /\ open' = [open EXCEPT ![r] = TRUE]
    /\ \E n \in Names : change' = [change EXCEPT ![r] = {n}]
    /\ UNCHANGED <<profiles, world, untold, holds, seeds, creates, travels, overlaps>>

\* Those whose patch runs together with a start.
Overlapping(r) ==
    {p \in Players : About(r, p) /\ \E q \in Requests \ {r} : About(q, p) /\ Running(q)
                                       /\ (q \in Starts \/ r \in Starts)}

Clear(r) ==
    /\ player' = [player EXCEPT ![r] = {}]
    /\ copy' = [copy EXCEPT ![r] = {}]
    /\ open' = [open EXCEPT ![r] = FALSE]
    /\ untold' = [untold EXCEPT ![r] = FALSE]
    /\ holds' = [holds EXCEPT ![r] = FALSE]
    /\ seeds' = [seeds EXCEPT ![r] = {}]
    /\ creates' = [creates EXCEPT ![r] = FALSE]
    /\ change' = [change EXCEPT ![r] = {}]

\* update_player_profile_for_user writes what differs from its copy.
CommitPatch(r) ==
    /\ r \in Patches
    /\ stage[r] = "commit"
    /\ name' = [p \in Players |-> IF About(r, p) /\ change[r] # copy[r] THEN change[r]
                                                                        ELSE name[p]]
    /\ overlaps' = overlaps \cup Overlapping(r)
    /\ Goto(r, "done")
    /\ Clear(r)
    /\ UNCHANGED <<locked, told, world, travels>>
----------------------------------------------------------------------------
(* create_session_for_user *)

ReadProfile(r, p) ==
    /\ r \in Starts
    /\ stage[r] = "new"
    /\ name[p] # {}
    /\ Goto(r, "seed")
    /\ player' = [player EXCEPT ![r] = {p}]
    /\ copy' = [copy EXCEPT ![r] = name[p]]
    /\ open' = [open EXCEPT ![r] = p \notin locked]
    /\ untold' = [untold EXCEPT ![r] = told[p] = {}]
    /\ UNCHANGED <<profiles, world, holds, seeds, creates, change, travels, overlaps>>

\* A client that names no profile: the request creates one of its own.
ReadOwnProfile(r, p) ==
    /\ r \in Starts
    /\ stage[r] = "new"
    /\ name[p] = {}
    /\ \A q \in Requests : ~About(q, p)
    /\ Goto(r, "seed")
    /\ player' = [player EXCEPT ![r] = {p}]
    /\ \E n \in Names : copy' = [copy EXCEPT ![r] = {n}]
    /\ open' = [open EXCEPT ![r] = TRUE]
    /\ untold' = [untold EXCEPT ![r] = TRUE]
    /\ UNCHANGED <<profiles, world, holds, seeds, creates, change, travels, overlaps>>

\* ensure_world_slice_seed looks for the player's seed,
FindSeed(r) ==
    /\ stage[r] = "seed"
    /\ Goto(r, IF \A p \in player[r] : Found(pack, p) THEN "look" ELSE "lock")
    /\ UNCHANGED <<profiles, world, request, travels, overlaps>>

\* waits for the lock of the world's seed, which it keeps until its end,
LockSeed(r) ==
    /\ stage[r] = "lock"
    /\ \A q \in Requests : ~holds[q]
    /\ Goto(r, "again")
    /\ holds' = [holds EXCEPT ![r] = TRUE]
    /\ UNCHANGED <<profiles, world, player, copy, open, untold, seeds, creates, change,
                   travels, overlaps>>

\* Fault: a row is inserted whether or not it is there.
MissingAll(v, p) == Seed(v, p)

\* Every row is looked for before it is inserted.
Missing(v, p) == Seed(v, p) \ rows

\* and looks again.
SeedOnce(r) ==
    /\ stage[r] = "again"
    /\ Goto(r, "look")
    /\ seeds' = [seeds EXCEPT ![r] =
                    UNION {Missing(pack, p) : p \in {q \in player[r] : ~Found(pack, q)}}]
    /\ UNCHANGED <<profiles, world, player, copy, open, untold, holds, creates, change,
                   travels, overlaps>>

\* Fault: the active session is looked for together with the profile.
CreatesFromCopy(r) == untold[r]

\* An active session is resumed, otherwise one is created.
Creates(r) == \A p \in player[r] : ~HasSession(p)

\* _ensure_opening_scene_seed opens the scene of a new session, or turns the one that is
\* open into it.
Opening(r) == IF Creates(r) THEN (UNION {Frame(p) : p \in player[r]}) \ rows ELSE {}

FindSession(r) ==
    /\ stage[r] = "look"
    /\ creates' = [creates EXCEPT ![r] = Creates(r)]
    /\ seeds' = [seeds EXCEPT ![r] = @ \cup Opening(r)]
    /\ Goto(r, "commit")
    /\ UNCHANGED <<profiles, world, player, copy, open, untold, holds, change, travels,
                   overlaps>>

\* Fault: whoever is not at the starter location is brought there.
PlaceAfterAlways(r, p) == IF About(r, p) THEN Starter ELSE place[p]

PlaceAfter(r, p) == IF About(r, p) /\ creates[r] THEN Starter ELSE place[p]

Tells(r) == creates[r] /\ untold[r]

\* lock_player_profile.
Locks(r) == open[r]

CommitStart(r) ==
    /\ r \in Starts
    /\ stage[r] = "commit"
    /\ name' = [p \in Players |-> IF About(r, p) /\ name[p] = {} THEN copy[r] ELSE name[p]]
    /\ locked' = IF Locks(r) THEN locked \cup player[r] ELSE locked
    /\ told' = [p \in Players |-> IF About(r, p) /\ Tells(r) THEN {r} ELSE told[p]]
    /\ events' = IF Tells(r) THEN events \cup ({r} \X player[r] \X copy[r]) ELSE events
    /\ rows' = rows \cup seeds[r]
    /\ sessions' = IF creates[r] THEN sessions \cup ({r} \X player[r]) ELSE sessions
    /\ place' = [p \in Players |-> PlaceAfter(r, p)]
    /\ overlaps' = IF Tells(r) THEN overlaps \cup Overlapping(r) ELSE overlaps
    /\ Goto(r, "done")
    /\ Clear(r)
    /\ UNCHANGED <<pack, travels>>

\* A request fails: nothing of it stays.
Fail(r) ==
    /\ Running(r)
    /\ Goto(r, "done")
    /\ Clear(r)
    /\ UNCHANGED <<profiles, world, travels, overlaps>>
----------------------------------------------------------------------------
\* A turn needs a session.
Travel(p) ==
    /\ HasSession(p)
    /\ travels < MaxTravels
    /\ travels' = travels + 1
    /\ \E q \in Places \ {place[p]} : place' = [place EXCEPT ![p] = q]
    /\ UNCHANGED <<profiles, events, pack, rows, sessions, stage, request, overlaps>>

Start(r) ==
    \/ \E p \in Players : ReadProfile(r, p) \/ ReadOwnProfile(r, p)
    \/ FindSeed(r) \/ LockSeed(r) \/ SeedOnce(r) \/ FindSession(r) \/ CommitStart(r)

Patch(r) == (\E p \in Players : ReadPatch(r, p)) \/ CommitPatch(r)

Next ==
    \/ \E p \in Players : Register(p) \/ Travel(p)
    \/ \E v \in Packs : Activate(v)
    \/ \E r \in Requests : Start(r) \/ Patch(r) \/ Fail(r)

Spec == Init /\ [][Next]_vars
----------------------------------------------------------------------------
Whats == {"faction", "standing", "sheet", "quest", "assignment", "scene"}
Rows == Whats \X (Players \cup {World}) \X (Keys \cup {World})

TypeOK ==
    /\ name \in [Players -> SUBSET Names]
    /\ locked \subseteq Players
    /\ told \in [Players -> SUBSET Starts]
    /\ events \subseteq Starts \X Players \X Names
    /\ pack \in Packs
    /\ rows \subseteq Rows
    /\ sessions \subseteq Starts \X Players
    /\ place \in [Players -> Places]
    /\ stage \in [Requests -> Stages]
    /\ player \in [Requests -> SUBSET Players]
    /\ copy \in [Requests -> SUBSET Names]
    /\ open \in [Requests -> BOOLEAN]
    /\ untold \in [Requests -> BOOLEAN]
    /\ holds \in [Requests -> BOOLEAN]
    /\ seeds \in [Requests -> SUBSET Rows]
    /\ creates \in [Requests -> BOOLEAN]
    /\ change \in [Requests -> SUBSET Names]
    /\ travels \in 0 .. MaxTravels
    /\ overlaps \subseteq Players
    /\ \A s \in sessions : name[s[2]] # {} /\ s[2] \in locked

\* A player has one active session, however many requests start one at a time: the
\* second one waits for the first one's seed and then finds its session.
OneSession == \A s, q \in sessions : s[2] = q[2] => s = q

\* Nobody inserts a row that is there or that another one is inserting.
OneSeed ==
    \A r \in Requests :
        seeds[r] \cap rows = {} /\ \A q \in Requests \ {r} : seeds[r] \cap seeds[q] = {}

\* Who has a session has all that some content has for a newcomer.
Provided == \A s \in sessions : \E v \in Packs : Seed(v, s[2]) \subseteq rows

\* Requests that start a player's session at the same time, or while other content becomes
\* active, leave him with one session, and with one of each thing he needs to play.
EnteredOnce == OneSession /\ OneSeed /\ Provided

\* What the world was told is who the player is, unless a patch and his first start ran
\* together.
ToldTruly == \A e \in events : e[2] \notin overlaps => name[e[2]] = {e[3]}

\* Once he has a session a player goes where his turns take him: nothing brings him back
\* to the starter location.
StaysInWorld ==
    [][\A p \in Players : HasSession(p) /\ travels' = travels => place'[p] = place[p]]_vars
=============================================================================
