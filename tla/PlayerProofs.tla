----------------------------- MODULE PlayerProofs -----------------------------
(***************************************************************************)
(* The two ends of a player's session: PlayerEntry for every number of     *)
(* players, requests, names and places, and, below, PlayerClient for every *)
(* number of turns and sockets.  The two share no state.                   *)
(***************************************************************************)
EXTENDS PlayerEntry, PlayerClient, SequenceTheorems, TLAPS

\* A request that runs is about one player, and a start knows who he is.
Knows(r) ==
    /\ ~Running(r) => player[r] = {} /\ ~holds[r] /\ seeds[r] = {} /\ ~creates[r]
    /\ Running(r) => \E p \in Players : player[r] = {p}
    /\ Running(r) /\ r \in Starts => \E n \in Names : copy[r] = {n}
    /\ Running(r) /\ r \in Starts /\ ~open[r] => player[r] \subseteq locked
    /\ Running(r) /\ r \in Patches =>
          /\ stage[r] = "commit" /\ \E n \in Names : change[r] = {n}
          /\ ~holds[r] /\ seeds[r] = {} /\ ~creates[r]
          /\ \A p \in player[r] : name[p] # {}

\* All of a content is there for the player, or this request has inserted it.
Seeded(r, p) == \E v \in Packs : Seed(v, p) \subseteq rows \cup seeds[r]

\* A start inserts rows under the lock, of its player or of nobody, that nobody has
\* inserted; it creates a session under the lock, for a player who has none and is seeded.
Seeds(r) ==
    /\ stage[r] = "again" => holds[r]
    /\ seeds[r] # {} => holds[r]
    /\ seeds[r] \cap rows = {}
    /\ \A k \in seeds[r] : k[2] \in player[r] \cup {World}
    /\ stage[r] = "look" =>
          \A p \in player[r] : HasSession(p) \/ (holds[r] /\ Seeded(r, p))
    /\ creates[r] => /\ stage[r] = "commit" /\ holds[r]
                     /\ \A p \in player[r] : ~HasSession(p) /\ Seeded(r, p)
    /\ stage[r] = "commit" /\ r \in Starts /\ ~creates[r] => \A p \in player[r] : HasSession(p)

HoldsAlone == \A r, q \in Requests : holds[r] /\ holds[q] => r = q

\* A player is one person.
OnePerson == \A p \in Players : name[p] = {} \/ \E n \in Names : name[p] = {n}

\* A player of whom there is a row has a session.
SeededHere == \A k \in rows : k[2] \in Players => HasSession(k[2])

EntryInv ==
    /\ TypeOK
    /\ OneSession
    /\ HoldsAlone
    /\ SeededHere
    /\ Provided
    /\ OnePerson
    /\ \A r \in Requests : Knows(r) /\ Seeds(r)

\* Two requests about a player without a profile would both create one.
AloneUnnamed ==
    \A r, q \in Requests, p \in Players : name[p] = {} /\ About(r, p) /\ About(q, p) => r = q

\* What a start knows of its player is still true, and no patch is on its way to a player
\* of whom the world was told, unless they overlap.
Agrees(r, p) ==
    About(r, p) /\ Running(r) /\ p \notin overlaps =>
        /\ r \in Starts => name[p] \in {{}, copy[r]}
        /\ r \in Patches => \A e \in events : e[2] # p

ToldInv ==
    /\ ToldTruly
    /\ AloneUnnamed
    /\ \A e \in events : HasSession(e[2])
    /\ \A r \in Requests, p \in Players : Agrees(r, p)

USE EntryConstants
----------------------------------------------------------------------------
(* Types and sessions *)

\* The rows a content has for a newcomer are his or nobody's.
LEMMA SeedRows ==
    ASSUME NEW v \in Packs, NEW p \in Players
    PROVE  /\ Seed(v, p) \subseteq Rows
           /\ \A k \in Seed(v, p) : k[2] \in {p, World}
           /\ Frame(p) \subseteq Seed(v, p)
           /\ Sheet(p) \in Seed(v, p) /\ Sheet(p)[2] = p
<1>1. {Faction(v), Standing(v, p), Sheet(p)} \subseteq Rows
    BY DEF Faction, Standing, Sheet, Rows, Whats
<1>2. QuestTemplates(v) \subseteq Rows /\ Assignments(v, p) \subseteq Rows
    BY DEF QuestTemplates, Assignments, Rows, Whats
<1>3. Frame(p) \subseteq Rows
    BY DEF Frame, Rows, Whats
<1>4. \A k \in Seed(v, p) : k[2] \in {p, World}
    BY DEF Seed, Faction, Standing, Sheet, QuestTemplates, Assignments, Frame
<1>5. Sheet(p)[2] = p
    BY DEF Sheet
<1>. QED
    BY <1>1, <1>2, <1>3, <1>4, <1>5 DEF Seed

LEMMA EntryInit == Init => EntryInv
<1>. SUFFICES ASSUME Init
              PROVE  EntryInv
    OBVIOUS
<1>1. TypeOK
    BY DEF Init, TypeOK, Stages
<1>. QED
    BY <1>1 DEF Init, EntryInv, OneSession, HoldsAlone, SeededHere, Provided, OnePerson, Knows,
       Seeds, Running

\* A request that ends leaves nothing of its own.
LEMMA ClearType ==
    ASSUME EntryInv, NEW r \in Requests, Clear(r), stage' = [stage EXCEPT ![r] = "done"]
    PROVE  /\ player' \in [Requests -> SUBSET Players]
           /\ copy' \in [Requests -> SUBSET Names]
           /\ open' \in [Requests -> BOOLEAN]
           /\ untold' \in [Requests -> BOOLEAN]
           /\ holds' \in [Requests -> BOOLEAN]
           /\ seeds' \in [Requests -> SUBSET Rows]
           /\ creates' \in [Requests -> BOOLEAN]
           /\ change' \in [Requests -> SUBSET Names]
           /\ stage' \in [Requests -> Stages]
           /\ HoldsAlone'
           /\ Knows(r)' /\ Seeds(r)'
<1>. USE DEF Clear
<1>1. TypeOK /\ HoldsAlone
    BY DEF EntryInv
<1>2. /\ player' \in [Requests -> SUBSET Players]
      /\ copy' \in [Requests -> SUBSET Names]
      /\ change' \in [Requests -> SUBSET Names]
    BY <1>1 DEF TypeOK
<1>3. /\ open' \in [Requests -> BOOLEAN]
      /\ untold' \in [Requests -> BOOLEAN]
      /\ holds' \in [Requests -> BOOLEAN]
      /\ seeds' \in [Requests -> SUBSET Rows]
      /\ creates' \in [Requests -> BOOLEAN]
    BY <1>1 DEF TypeOK
<1>4. stage' \in [Requests -> Stages]
    BY <1>1 DEF TypeOK, Stages
<1>5. HoldsAlone'
    BY <1>1 DEF TypeOK, HoldsAlone
<1>6. Knows(r)' /\ Seeds(r)'
    BY <1>1 DEF TypeOK, Knows, Seeds, Running
<1>. QED
    BY <1>2, <1>3, <1>4, <1>5, <1>6

\* Nothing of another request changes.
Same(q) ==
    /\ stage'[q] = stage[q] /\ player'[q] = player[q] /\ copy'[q] = copy[q]
    /\ open'[q] = open[q] /\ holds'[q] = holds[q] /\ seeds'[q] = seeds[q]
    /\ creates'[q] = creates[q] /\ change'[q] = change[q]

LEMMA ClearOthers ==
    ASSUME TypeOK, NEW r \in Requests, Clear(r), stage' = [stage EXCEPT ![r] = "done"]
    PROVE  \A q \in Requests \ {r} : Same(q)
BY DEF Clear, Same, TypeOK

\* A start on its way: the tables stay, only the request's own rows change.
LEMMA OnItsWay ==
    ASSUME EntryInv, UNCHANGED <<profiles, world, travels, overlaps>>, NEW r \in Requests,
           TypeOK', \A q \in Requests \ {r} : Same(q), HoldsAlone', Knows(r)', Seeds(r)'
    PROVE  EntryInv'
<1>1. \A q \in Requests \ {r} : Knows(q)' /\ Seeds(q)'
    BY DEF EntryInv, Knows, Seeds, Seeded, HasSession, Running, Same, profiles, world
<1>2. OneSession' /\ SeededHere' /\ Provided' /\ OnePerson'
    BY DEF EntryInv, OneSession, SeededHere, Provided, OnePerson, HasSession, world, profiles
<1>. QED
    BY <1>1, <1>2 DEF EntryInv

LEMMA ReadKeeps ==
    ASSUME EntryInv, NEW r \in Requests, NEW p \in Players,
           ReadProfile(r, p) \/ ReadOwnProfile(r, p) \/ ReadPatch(r, p)
    PROVE  EntryInv'
<1>1. TypeOK /\ HoldsAlone /\ Knows(r) /\ Seeds(r)
    BY DEF EntryInv
<1>2. CASE ReadProfile(r, p)
  <2>1. TypeOK'
      BY <1>1, <1>2 DEF ReadProfile, Goto, TypeOK, Stages, profiles, world
  <2>2. \A q \in Requests \ {r} : Same(q)
      BY <1>1, <1>2 DEF ReadProfile, Goto, TypeOK, Same
  <2>3. HoldsAlone'
      BY <1>1, <1>2 DEF ReadProfile, HoldsAlone
  <2>4. Seeds(r)'
      BY <1>1, <1>2 DEF ReadProfile, Goto, Seeds, Knows, Running, TypeOK
  <2>5. Knows(r)'
    <3>1. \E n \in Names : name[p] = {n}
        BY <1>2 DEF ReadProfile, EntryInv, OnePerson
    <3>. QED
        BY <1>1, <1>2, <3>1 DEF ReadProfile, Goto, Knows, Running, TypeOK, profiles
  <2>. QED
      BY <1>2, <2>1, <2>2, <2>3, <2>4, <2>5, OnItsWay DEF ReadProfile
<1>3. CASE ReadOwnProfile(r, p)
  <2>1. PICK n \in Names : copy' = [copy EXCEPT ![r] = {n}]
      BY <1>3 DEF ReadOwnProfile
  <2>2. TypeOK'
      BY <1>1, <1>3, <2>1 DEF ReadOwnProfile, Goto, TypeOK, Stages, profiles, world
  <2>3. \A q \in Requests \ {r} : Same(q)
      BY <1>1, <1>3, <2>1 DEF ReadOwnProfile, Goto, TypeOK, Same
  <2>4. HoldsAlone'
      BY <1>1, <1>3 DEF ReadOwnProfile, HoldsAlone
  <2>5. Seeds(r)'
      BY <1>1, <1>3 DEF ReadOwnProfile, Goto, Seeds, Knows, Running, TypeOK
  <2>6. Knows(r)'
      BY <1>1, <1>3, <2>1 DEF ReadOwnProfile, Goto, Knows, Running, TypeOK, profiles
  <2>. QED
      BY <1>3, <2>2, <2>3, <2>4, <2>5, <2>6, OnItsWay DEF ReadOwnProfile
<1>4. CASE ReadPatch(r, p)
  <2>1. PICK n \in Names : change' = [change EXCEPT ![r] = {n}]
      BY <1>4 DEF ReadPatch
  <2>2. TypeOK'
      BY <1>1, <1>4, <2>1 DEF ReadPatch, Goto, TypeOK, Stages, profiles, world
  <2>3. \A q \in Requests \ {r} : Same(q)
      BY <1>1, <1>4, <2>1 DEF ReadPatch, Goto, TypeOK, Same
  <2>4. HoldsAlone'
      BY <1>1, <1>4 DEF ReadPatch, HoldsAlone
  <2>5. Seeds(r)'
      BY <1>1, <1>4 DEF ReadPatch, Goto, Seeds, Knows, Running, TypeOK
  <2>6. Knows(r)'
      BY <1>1, <1>4, <2>1 DEF ReadPatch, Goto, Knows, Running, TypeOK, profiles
  <2>. QED
      BY <1>4, <2>2, <2>3, <2>4, <2>5, <2>6, OnItsWay DEF ReadPatch
<1>. QED
    BY <1>2, <1>3, <1>4

LEMMA SeedingKeeps ==
    ASSUME EntryInv, NEW r \in Requests,
           FindSeed(r) \/ LockSeed(r) \/ SeedOnce(r) \/ FindSession(r)
    PROVE  EntryInv'
<1>1. TypeOK /\ HoldsAlone /\ Knows(r) /\ Seeds(r) /\ SeededHere
    BY DEF EntryInv
<1>. USE DEF Goto, FindSeed, LockSeed, SeedOnce, FindSession, request
<1>7. PICK p \in Players : player[r] = {p}
    BY <1>1 DEF Knows, Running
<1>8. Found(pack, p) => HasSession(p)
    BY <1>1, SeedRows DEF Found, SeededHere, Sheet
<1>9. SeedOnce(r) =>
        seeds' = [seeds EXCEPT ![r] = IF Found(pack, p) THEN {} ELSE Seed(pack, p) \ rows]
  <2>1. {q \in player[r] : ~Found(pack, q)} = IF Found(pack, p) THEN {} ELSE {p}
      BY <1>7
  <2>2. UNION {Missing(pack, o) : o \in {p}} = Missing(pack, p)
      OBVIOUS
  <2>3. UNION {Missing(pack, o) : o \in {}} = {}
      OBVIOUS
  <2>4. UNION {Missing(pack, o) : o \in {q \in player[r] : ~Found(pack, q)}}
          = IF Found(pack, p) THEN {} ELSE Missing(pack, p)
      BY <2>1, <2>2, <2>3
  <2>. QED
      BY <2>4 DEF Missing
<1>10. Creates(r) <=> ~HasSession(p)
    BY <1>7 DEF Creates
<1>11. Opening(r) = IF HasSession(p) THEN {} ELSE Frame(p) \ rows
  <2>1. UNION {Frame(o) : o \in player[r]} = Frame(p)
      BY <1>7
  <2>. QED
      BY <1>10, <2>1 DEF Opening
<1>12. Seed(pack, p) \subseteq Rows /\ Frame(p) \subseteq Rows
      /\ \A k \in Seed(pack, p) \cup Frame(p) : k[2] \in {p, World}
    BY <1>1, SeedRows DEF TypeOK
<1>2. TypeOK'
  <2>1. stage' \in [Requests -> Stages]
      BY <1>1 DEF TypeOK, Stages
  <2>4. seeds' \in [Requests -> SUBSET Rows]
      BY <1>1, <1>9, <1>11, <1>12 DEF TypeOK
  <2>2. holds' \in [Requests -> BOOLEAN] /\ seeds' \in [Requests -> SUBSET Rows]
        /\ creates' \in [Requests -> BOOLEAN]
      BY <1>1, <2>4 DEF TypeOK, Creates
  <2>3. UNCHANGED <<profiles, world, player, copy, open, untold, change, travels, overlaps>>
      OBVIOUS
  <2>. QED
      BY <1>1, <2>1, <2>2, <2>3 DEF TypeOK, profiles, world
<1>3. \A q \in Requests \ {r} : Same(q)
    BY <1>1 DEF TypeOK, Same
<1>4. HoldsAlone'
    BY <1>1 DEF TypeOK, HoldsAlone
<1>5. Knows(r)'
  <2>1. r \notin Patches
      BY <1>1 DEF Knows, Running
  <2>2. Running(r) /\ Running(r)'
      BY <1>1 DEF Running, TypeOK
  <2>. QED
      BY <1>1, <2>1, <2>2 DEF Knows, profiles, world
<1>6. Seeds(r)'
  <2>. USE <1>1, <1>7
  <2>1. CASE FindSeed(r)
    <3>1. UNCHANGED <<rows, sessions, holds, player, seeds, creates>>
        BY <2>1 DEF world
    <3>2. stage'[r] \in {"look", "lock"} /\ (stage'[r] = "look" => HasSession(p)')
      <4>1. stage' = [stage EXCEPT ![r] = IF Found(pack, p) THEN "look" ELSE "lock"]
          BY <2>1
      <4>2. HasSession(p)' <=> HasSession(p)
          BY <3>1 DEF HasSession
      <4>. QED
          BY <1>8, <4>1, <4>2 DEF TypeOK
    <3>3. ~creates[r]
        BY <2>1 DEF Seeds
    <3>. QED
        BY <3>1, <3>2, <3>3 DEF Seeds
  <2>2. CASE LockSeed(r)
      BY <2>2 DEF Seeds, TypeOK, world
  <2>3. CASE SeedOnce(r)
    <3>1. holds'[r] /\ stage'[r] = "look" /\ ~creates[r] /\ creates' = creates
          /\ player' = player
      <4>1. stage[r] = "again" /\ stage' = [stage EXCEPT ![r] = "look"]
            /\ UNCHANGED <<holds, creates, player>>
          BY <2>3
      <4>. QED
          BY <4>1 DEF Seeds, TypeOK
    <3>2. CASE Found(pack, p)
      <4>1. seeds'[r] = {} /\ HasSession(p)'
          BY <1>8, <1>9, <2>3, <3>2 DEF TypeOK, HasSession, world
      <4>. QED
          BY <3>1, <4>1 DEF Seeds, world
    <3>3. CASE ~Found(pack, p)
      <4>1. seeds'[r] = Seed(pack, p) \ rows
          BY <1>9, <2>3, <3>3 DEF TypeOK
      <4>2. Seeded(r, p)'
          BY <2>3, <4>1 DEF Seeded, world, TypeOK
      <4>. QED
          BY <1>12, <3>1, <4>1, <4>2 DEF Seeds, world
    <3>. QED
        BY <3>2, <3>3
  <2>4. CASE FindSession(r)
    <3>1. stage'[r] = "commit" /\ UNCHANGED <<rows, sessions, holds, player>>
        BY <2>4 DEF TypeOK, world
    <3>2. CASE HasSession(p)
      <4>1. seeds'[r] = seeds[r] /\ creates'[r] = FALSE /\ HasSession(p)'
          BY <1>10, <1>11, <2>4, <3>2 DEF TypeOK, HasSession, world
      <4>. QED
          BY <3>1, <4>1 DEF Seeds
    <3>3. CASE ~HasSession(p)
      <4>1. seeds'[r] = seeds[r] \cup (Frame(p) \ rows) /\ creates'[r] = TRUE
            /\ ~HasSession(p)'
          BY <1>10, <1>11, <2>4, <3>3 DEF TypeOK, HasSession, world
      <4>2. holds[r] /\ Seeded(r, p)
          BY <2>4, <3>3 DEF Seeds
      <4>3. Seeded(r, p)'
          BY <3>1, <4>1, <4>2 DEF Seeded
      <4>4. seeds'[r] \cap rows = {} /\ \A k \in seeds'[r] : k[2] \in player[r] \cup {World}
          BY <1>12, <4>1 DEF Seeds
      <4>. QED
          BY <3>1, <4>1, <4>2, <4>3, <4>4 DEF Seeds
    <3>. QED
        BY <3>2, <3>3
  <2>. QED
      BY <2>1, <2>2, <2>3, <2>4
<1>. QED
    BY <1>2, <1>3, <1>4, <1>5, <1>6, OnItsWay

LEMMA CommitStartKeeps ==
    ASSUME EntryInv, NEW r \in Requests, CommitStart(r)
    PROVE  EntryInv'
<1>1. TypeOK /\ HoldsAlone /\ Knows(r) /\ Seeds(r) /\ SeededHere /\ OneSession /\ OnePerson
      /\ Provided
    BY DEF EntryInv
<1>2. PICK p \in Players : player[r] = {p}
    BY <1>1 DEF CommitStart, Knows, Running
<1>3. PICK n \in Names : copy[r] = {n}
    BY <1>1 DEF CommitStart, Knows, Running
<1>4. /\ name' = [o \in Players |-> IF o = p /\ name[o] = {} THEN {n} ELSE name[o]]
      /\ locked' = IF open[r] THEN locked \cup {p} ELSE locked
      /\ rows' = rows \cup seeds[r]
      /\ sessions' = IF creates[r] THEN sessions \cup {<<r, p>>} ELSE sessions
  <2>1. {r} \X {p} = {<<r, p>>} /\ \A o \in Players : About(r, o) <=> o = p
      BY <1>2 DEF About
  <2>2. name' = [o \in Players |-> IF o = p /\ name[o] = {} THEN {n} ELSE name[o]]
      BY <1>3, <2>1 DEF CommitStart
  <2>. QED
      BY <1>2, <2>1, <2>2 DEF CommitStart, Locks
<1>5. r \in Starts /\ stage[r] = "commit" /\ (open[r] \/ p \in locked)
      /\ stage' = [stage EXCEPT ![r] = "done"] /\ Clear(r)
    BY <1>1, <1>2 DEF CommitStart, Knows, Running, Goto
<1>6. creates[r] => ~HasSession(p) /\ Seeded(r, p)
    BY <1>1, <1>2 DEF Seeds
<1>7. \A s \in sessions : s \in sessions'
    BY <1>4
<1>14. HasSession(p)'
  <2>1. CASE creates[r]
    <3>1. <<r, p>> \in sessions' /\ <<r, p>>[2] = p
        BY <1>4, <2>1
    <3>. QED
        BY <3>1 DEF HasSession
  <2>2. CASE ~creates[r]
    <3>1. HasSession(p)
        BY <1>1, <1>2, <1>5, <2>2 DEF Seeds
    <3>. QED
        BY <1>7, <3>1 DEF HasSession
  <2>. QED
      BY <2>1, <2>2
<1>8. OnePerson'
    BY <1>1, <1>4 DEF OnePerson
<1>9. OneSession'
  <2>. SUFFICES ASSUME NEW s \in sessions', NEW q \in sessions', s[2] = q[2]
                PROVE  s = q
      BY DEF OneSession
  <2>1. CASE creates[r]
    <3>1. \A o \in sessions : o[2] # p
        BY <1>6, <2>1 DEF HasSession
    <3>2. s \in sessions \/ s = <<r, p>>
        BY <1>4, <2>1
    <3>3. q \in sessions \/ q = <<r, p>>
        BY <1>4, <2>1
    <3>. QED
        BY <1>1, <3>1, <3>2, <3>3 DEF OneSession
  <2>2. CASE ~creates[r]
      BY <1>1, <1>4, <2>2 DEF OneSession
  <2>. QED
      BY <2>1, <2>2
<1>10. SeededHere'
  <2>. SUFFICES ASSUME NEW k \in rows', k[2] \in Players
                PROVE  HasSession(k[2])'
      BY DEF SeededHere
  <2>1. CASE k \in rows
      BY <1>1, <1>7, <2>1 DEF SeededHere, HasSession
  <2>2. CASE k \in seeds[r]
      BY <1>1, <1>2, <1>14, <2>2 DEF Seeds
  <2>. QED
      BY <1>4, <2>1, <2>2
<1>15. Provided'
  <2>. SUFFICES ASSUME NEW s \in sessions'
                PROVE  \E v \in Packs : Seed(v, s[2]) \subseteq rows'
      BY DEF Provided, Seed, Faction, Standing, Sheet, QuestTemplates, Assignments, Frame
  <2>1. CASE s \in sessions
      BY <1>1, <1>4, <2>1 DEF Provided
  <2>2. CASE creates[r] /\ s = <<r, p>>
      BY <1>4, <1>6, <2>2 DEF Seeded
  <2>. QED
      BY <1>4, <2>1, <2>2
<1>11. TypeOK'
  <2>1. name' \in [Players -> SUBSET Names] /\ locked' \subseteq Players
        /\ rows' \subseteq Rows /\ sessions' \subseteq Starts \X Players
      BY <1>1, <1>4, <1>5 DEF TypeOK
  <2>2. told' \in [Players -> SUBSET Starts] /\ place' \in [Players -> Places]
      BY <1>1, <1>5 DEF TypeOK, CommitStart, PlaceAfter
  <2>3. events' \subseteq Starts \X Players \X Names
      BY <1>1, <1>2, <1>3, <1>5 DEF TypeOK, CommitStart
  <2>4. overlaps' \subseteq Players /\ travels' = travels /\ pack' = pack
      BY <1>1 DEF TypeOK, CommitStart, Overlapping
  <2>5. \A s \in sessions' : name'[s[2]] # {} /\ s[2] \in locked'
    <3>. SUFFICES ASSUME NEW s \in sessions'
                  PROVE  name'[s[2]] # {} /\ s[2] \in locked'
        OBVIOUS
    <3>1. CASE s \in sessions
      <4>1. s[2] \in Players /\ name[s[2]] # {} /\ s[2] \in locked
          BY <1>1, <3>1 DEF TypeOK
      <4>. QED
          BY <1>4, <4>1
    <3>2. CASE creates[r] /\ s = <<r, p>>
        BY <1>4, <1>5, <3>2
    <3>. QED
        BY <1>4, <3>1, <3>2
  <2>. QED
      BY <1>1, <1>5, <2>1, <2>2, <2>3, <2>4, <2>5, ClearType DEF TypeOK
<1>12. HoldsAlone' /\ Knows(r)' /\ Seeds(r)'
    BY <1>5, ClearType
<1>13. ASSUME NEW q \in Requests \ {r}
       PROVE  Knows(q)' /\ Seeds(q)'
  <2>1. Same(q)
      BY <1>1, <1>5, ClearOthers
  <2>2. Knows(q) /\ Seeds(q)
      BY DEF EntryInv
  <2>3. Knows(q)'
    <3>1. \A o \in Players : name[o] # {} => name'[o] # {}
        BY <1>4
    <3>2. locked \subseteq locked'
        BY <1>4
    <3>. QED
        BY <2>1, <2>2, <3>1, <3>2 DEF Knows, Running, Same
  <2>4. holds[q] => seeds[r] = {} /\ ~creates[r]
      BY <1>1 DEF Seeds, HoldsAlone
  <2>6. \A o \in Players : HasSession(o) => HasSession(o)'
      BY <1>7 DEF HasSession
  <2>7. holds[q] => rows' = rows /\ sessions' = sessions
      BY <1>4, <2>4
  <2>8. \A o \in Players : Seeded(q, o) => Seeded(q, o)'
      BY <1>4, <2>1 DEF Seeded, Same, Seed, Faction, Standing, Sheet, QuestTemplates,
         Assignments, Frame
  <2>9. player[q] \subseteq Players
      BY <1>1 DEF TypeOK
  <2>10. holds[q] => \A o \in Players : ~HasSession(o) => ~HasSession(o)'
      BY <2>7 DEF HasSession
  <2>11. seeds[q] \cap rows' = {}
      BY <2>2, <2>7 DEF Seeds
  <2>12. stage[q] = "look" => \A o \in player[q] : (HasSession(o) \/ (holds[q] /\ Seeded(q, o)))'
      BY <2>1, <2>2, <2>6, <2>8, <2>9 DEF Seeds, Same
  <2>13. creates[q] => holds[q] /\ \A o \in player[q] : (~HasSession(o) /\ Seeded(q, o))'
      BY <2>1, <2>2, <2>8, <2>9, <2>10 DEF Seeds
  <2>5. Seeds(q)'
      BY <2>1, <2>2, <2>6, <2>9, <2>11, <2>12, <2>13 DEF Seeds, Same
  <2>. QED
      BY <2>3, <2>5
<1>. QED
    BY <1>8, <1>9, <1>10, <1>11, <1>12, <1>13, <1>15 DEF EntryInv

LEMMA EntryStep == EntryInv /\ [Next]_vars => EntryInv'
<1>. SUFFICES ASSUME EntryInv, [Next]_vars
              PROVE  EntryInv'
    OBVIOUS
<1>1. TypeOK /\ HoldsAlone /\ SeededHere /\ OneSession /\ OnePerson /\ Provided
      /\ \A r \in Requests : Knows(r) /\ Seeds(r)
    BY DEF EntryInv
\* Steps that move no request.
<1>2. ASSUME UNCHANGED <<locked, told, events, rows, sessions, stage, request, overlaps>>,
             pack' \in Packs, name' \in [Players -> SUBSET Names], OnePerson', place' \in [Players -> Places],
             travels' \in 0 .. MaxTravels, \A p \in Players : name[p] # {} => name'[p] # {}
      PROVE  EntryInv'
  <2>1. TypeOK'
      BY <1>1, <1>2 DEF TypeOK, request
  <2>2. \A r \in Requests : Knows(r)'
      BY <1>1, <1>2 DEF Knows, Running, request, TypeOK
  <2>3. \A r \in Requests : Seeds(r)'
      BY <1>1, <1>2 DEF Seeds, Seeded, HasSession, request
  <2>4. HoldsAlone' /\ SeededHere' /\ OneSession' /\ Provided'
      BY <1>1, <1>2 DEF HoldsAlone, SeededHere, OneSession, Provided, HasSession, request
  <2>. QED
      BY <1>2, <2>1, <2>2, <2>3, <2>4 DEF EntryInv
<1>3. ASSUME NEW p \in Players, Register(p)
      PROVE  EntryInv'
  <2>1. PICK n \in Names : name' = [name EXCEPT ![p] = {n}]
      BY <1>3 DEF Register
  <2>2. name' \in [Players -> SUBSET Names] /\ OnePerson'
        /\ \A o \in Players : name[o] # {} => name'[o] # {}
      BY <1>1, <2>1 DEF TypeOK, OnePerson
  <2>. QED
      BY <1>1, <1>2, <1>3, <2>2 DEF Register, world, TypeOK
<1>4. ASSUME NEW p \in Players, Travel(p)
      PROVE  EntryInv'
  <2>1. place' \in [Players -> Places] /\ travels' \in 0 .. MaxTravels
      BY <1>1, <1>4 DEF Travel, TypeOK
  <2>2. UNCHANGED <<locked, told, events, pack, rows, sessions, stage, request, overlaps>>
        /\ name' = name
      BY <1>4 DEF Travel, profiles
  <2>3. OnePerson' /\ name' \in [Players -> SUBSET Names]
      BY <1>1, <2>2 DEF OnePerson, TypeOK
  <2>. QED
      BY <1>1, <1>2, <2>1, <2>2, <2>3 DEF TypeOK
<1>8. ASSUME NEW v \in Packs, Activate(v)
      PROVE  EntryInv'
  <2>1. name' \in [Players -> SUBSET Names] /\ OnePerson' /\ place' \in [Players -> Places]
        /\ travels' \in 0 .. MaxTravels
      BY <1>1, <1>8 DEF Activate, profiles, TypeOK, OnePerson
  <2>. QED
      BY <1>2, <1>8, <2>1 DEF Activate, profiles
<1>5. ASSUME NEW r \in Requests, CommitPatch(r)
      PROVE  EntryInv'
  <2>1. PICK n \in Names : change[r] = {n}
      BY <1>1, <1>5 DEF CommitPatch, Knows, Running
  <2>2. name' = [p \in Players |-> IF About(r, p) /\ {n} # copy[r] THEN {n} ELSE name[p]]
      BY <1>5, <2>1 DEF CommitPatch
  <2>3. name' \in [Players -> SUBSET Names] /\ OnePerson'
        /\ \A o \in Players : name[o] # {} => name'[o] # {}
      BY <1>1, <2>2 DEF TypeOK, OnePerson
  <2>4. stage' = [stage EXCEPT ![r] = "done"] /\ Clear(r)
        /\ UNCHANGED <<locked, told, events, pack, rows, sessions, place, travels>>
      BY <1>5 DEF CommitPatch, Goto, world
  <2>5. overlaps' \subseteq Players
      BY <1>1, <1>5 DEF CommitPatch, Overlapping, TypeOK
  <2>6. TypeOK'
      BY <1>1, <2>3, <2>4, <2>5, ClearType DEF TypeOK
  <2>7. OneSession' /\ SeededHere' /\ Provided'
      BY <1>1, <2>4 DEF OneSession, SeededHere, Provided, HasSession
  <2>8. \A q \in Requests \ {r} : Knows(q)' /\ Seeds(q)'
    <3>1. \A q \in Requests \ {r} : Same(q)
        BY <1>1, <2>4, ClearOthers
    <3>2. ASSUME NEW q \in Requests \ {r}
          PROVE  Knows(q)' /\ Seeds(q)'
      <4>1. Same(q) /\ Knows(q) /\ Seeds(q) /\ player[q] \subseteq Players
          BY <1>1, <3>1 DEF EntryInv, TypeOK
      <4>2. Knows(q)'
          BY <2>3, <2>4, <4>1 DEF Knows, Running, Same
      <4>3. Seeds(q)'
          BY <2>4, <4>1 DEF Seeds, Seeded, HasSession, Same
      <4>. QED
          BY <4>2, <4>3
    <3>. QED
        BY <3>2
  <2>. QED
      BY <2>3, <2>4, <2>6, <2>7, <2>8, ClearType DEF EntryInv
<1>6. ASSUME NEW r \in Requests, Fail(r)
      PROVE  EntryInv'
  <2>1. stage' = [stage EXCEPT ![r] = "done"] /\ Clear(r)
        /\ UNCHANGED <<profiles, world, travels, overlaps>>
      BY <1>6 DEF Fail, Goto
  <2>2. TypeOK'
      BY <1>1, <2>1, ClearType DEF TypeOK, profiles, world
  <2>3. \A q \in Requests \ {r} : Same(q)
      BY <1>1, <2>1, ClearOthers
  <2>. QED
      BY <2>1, <2>2, <2>3, ClearType, OnItsWay
<1>7. CASE UNCHANGED vars
  <2>1. name' \in [Players -> SUBSET Names] /\ OnePerson' /\ place' \in [Players -> Places]
        /\ travels' \in 0 .. MaxTravels
      BY <1>1, <1>7 DEF vars, profiles, world, TypeOK, OnePerson
  <2>. QED
      BY <1>1, <1>2, <1>7, <2>1 DEF vars, profiles, world, TypeOK
<1>. QED
    BY <1>3, <1>4, <1>5, <1>6, <1>7, <1>8, ReadKeeps, SeedingKeeps, CommitStartKeeps
       DEF Next, Start, Patch

\* Every variable keeps its range; who has a session has a name, a seed and a locked
\* identity.
THEOREM EntryTypeOK == Spec => []TypeOK
<1>1. EntryInv => TypeOK
    BY DEF EntryInv
<1>. QED
    BY <1>1, EntryInit, EntryStep, PTL DEF Spec

\* However many requests start a player's session, and whatever content becomes active
\* meanwhile, he has one session and one of each thing he needs to play.
THEOREM EntryEnteredOnce == Spec => []EnteredOnce
<1>1. ASSUME EntryInv
      PROVE  EnteredOnce
  <2>1. TypeOK /\ OneSession /\ HoldsAlone /\ Provided /\ \A r \in Requests : Seeds(r)
      BY <1>1 DEF EntryInv
  <2>2. ASSUME NEW r \in Requests, NEW q \in Requests \ {r}
        PROVE  seeds[r] \cap seeds[q] = {}
      BY <2>1 DEF Seeds, HoldsAlone
  <2>3. OneSeed
      BY <2>1, <2>2 DEF OneSeed, Seeds
  <2>. QED
      BY <2>1, <2>3 DEF EnteredOnce
<1>. QED
    BY <1>1, EntryInit, EntryStep, PTL DEF Spec

\* A request that resumes a session leaves the player where his turns have brought him.
THEOREM EntryStaysInWorld == Spec => StaysInWorld
<1>. DEFINE Stays == \A p \in Players : HasSession(p) /\ travels' = travels => place'[p] = place[p]
<1>1. ASSUME EntryInv, Next
      PROVE  Stays
  <2>1. TypeOK
      BY <1>1 DEF EntryInv
  <2>2. ASSUME NEW r \in Requests, CommitStart(r), NEW p \in Players, HasSession(p)
        PROVE  place'[p] = place[p]
    <3>1. Seeds(r)
        BY <1>1 DEF EntryInv
    <3>3. About(r, p) => ~creates[r]
        BY <2>2, <3>1 DEF Seeds, About
    <3>. QED
        BY <2>2, <3>3 DEF CommitStart, PlaceAfter
  <2>3. ASSUME NEW p \in Players, Travel(p)
        PROVE  travels' # travels
    <3>1. travels \in Nat
        BY <2>1 DEF TypeOK
    <3>. QED
        BY <2>3, <3>1 DEF Travel
  <2>4. CASE (\A r \in Requests : ~CommitStart(r)) /\ (\A p \in Players : ~Travel(p))
    <3>1. place' = place
        BY <1>1, <2>4 DEF Next, Start, Patch, Register, Fail, ReadProfile, ReadOwnProfile,
           FindSeed, LockSeed, SeedOnce, FindSession, ReadPatch, CommitPatch, world, Activate
    <3>. QED
        BY <3>1
  <2>. QED
      BY <2>2, <2>3, <2>4
<1>2. EntryInv /\ [Next]_vars => [Stays]_vars
    BY <1>1
<1>. QED
    BY <1>2, EntryInit, EntryStep, PTL DEF Spec, StaysInWorld
----------------------------------------------------------------------------
(* What the world is told *)

\* When a start commits, no other request knows its player by another name unless they
\* overlap.
LEMMA CommitStartTells ==
    ASSUME EntryInv, ToldInv, NEW r \in Requests, CommitStart(r)
    PROVE  ToldInv'
<1>1. TypeOK /\ Knows(r) /\ Seeds(r) /\ OnePerson
    BY DEF EntryInv
<1>2. PICK p \in Players : player[r] = {p}
    BY <1>1 DEF CommitStart, Knows, Running
<1>3. PICK n \in Names : copy[r] = {n}
    BY <1>1 DEF CommitStart, Knows, Running
<1>4. \A o \in Players : About(r, o) <=> o = p
    BY <1>2 DEF About
<1>5. /\ name' = [o \in Players |-> IF o = p /\ name[o] = {} THEN {n} ELSE name[o]]
      /\ overlaps \subseteq overlaps'
      /\ sessions \subseteq sessions'
      /\ r \in Starts /\ Running(r)
      /\ Clear(r) /\ stage' = [stage EXCEPT ![r] = "done"]
    BY <1>3, <1>4 DEF CommitStart, Goto, Running
<1>6. player'[r] = {} /\ \A q \in Requests \ {r} : Same(q)
    BY <1>1, <1>5, ClearOthers DEF Clear, TypeOK
<1>7. ASSUME Tells(r)
      PROVE  /\ ~HasSession(p)
             /\ sessions' = sessions \cup {<<r, p>>}
             /\ events' = events \cup {<<r, p, n>>}
             /\ overlaps' = overlaps \cup Overlapping(r)
  <2>1. {r} \X {p} = {<<r, p>>} /\ {r} \X {p} \X {n} = {<<r, p, n>>}
      OBVIOUS
  <2>2. ~HasSession(p)
      BY <1>1, <1>2, <1>7 DEF Tells, Seeds
  <2>. QED
      BY <1>2, <1>3, <1>7, <2>1, <2>2 DEF CommitStart, Tells
<1>8. ASSUME ~Tells(r)
      PROVE  events' = events
    BY <1>8 DEF CommitStart
<1>9. AloneUnnamed'
  <2>. SUFFICES ASSUME NEW a \in Requests, NEW b \in Requests, NEW o \in Players,
                       name'[o] = {}, player'[a] = {o}, player'[b] = {o}
                PROVE  a = b
      BY DEF AloneUnnamed, About
  <2>1. a # r /\ b # r
      BY <1>6
  <2>2. name[o] = {}
      BY <1>5
  <2>. QED
      BY <1>6, <2>1, <2>2 DEF ToldInv, AloneUnnamed, About, Same
<1>10. ASSUME NEW q \in Requests \ {r}, NEW o \in Players
       PROVE  Agrees(q, o)'
  <2>1. Same(q)
      BY <1>6
  <2>. SUFFICES ASSUME player[q] = {o}, Running(q), o \notin overlaps'
                PROVE  /\ q \in Starts => name'[o] \in {{}, copy[q]}
                       /\ q \in Patches => \A e \in events' : e[2] # o
      BY <2>1 DEF Agrees, About, Running, Same
  <2>2. /\ q \in Starts => name[o] \in {{}, copy[q]}
        /\ q \in Patches => \A e \in events : e[2] # o
      BY <1>5 DEF ToldInv, Agrees, About
  <2>3. CASE o # p
      BY <1>5, <1>7, <1>8, <2>2, <2>3
  <2>4. CASE o = p
    <3>1. name[p] # {}
        BY <1>2, <2>4 DEF ToldInv, AloneUnnamed, About
    <3>2. name'[o] = name[o]
        BY <1>5, <2>4, <3>1
    <3>3. ~Tells(r) \/ q \notin Patches
        BY <1>2, <1>5, <1>7, <2>4 DEF Overlapping, About
    <3>4. q \in Patches => \A e \in events' : e[2] # o
        BY <1>8, <2>2, <3>3
    <3>. QED
        BY <2>2, <3>2, <3>4
  <2>. QED
      BY <2>3, <2>4
<1>11. \A o \in Players : Agrees(r, o)'
    BY <1>6 DEF Agrees, About
<1>12. \A e \in events' : HasSession(e[2])'
  <2>1. \A e \in events : HasSession(e[2])'
      BY <1>5 DEF ToldInv, HasSession
  <2>2. CASE Tells(r)
    <3>1. <<r, p>> \in sessions' /\ <<r, p>>[2] = p
        BY <1>7, <2>2
    <3>. QED
        BY <1>7, <2>1, <2>2, <3>1 DEF HasSession
  <2>. QED
      BY <1>8, <2>1, <2>2
<1>13. ToldTruly'
  <2>. SUFFICES ASSUME NEW e \in events', e[2] \notin overlaps'
                PROVE  name'[e[2]] = {e[3]}
      BY DEF ToldTruly
  <2>1. CASE e \in events
    <3>1. name[e[2]] = {e[3]} /\ e[2] \in Players
        BY <1>1, <1>5, <2>1 DEF ToldInv, ToldTruly, TypeOK
    <3>. QED
        BY <1>5, <3>1
  <2>2. CASE Tells(r) /\ e = <<r, p, n>>
    <3>1. name[p] \in {{}, {n}}
        BY <1>2, <1>3, <1>5, <2>2 DEF ToldInv, Agrees, About
    <3>. QED
        BY <1>5, <2>2, <3>1
  <2>. QED
      BY <1>7, <1>8, <2>1, <2>2
<1>. QED
    BY <1>9, <1>10, <1>11, <1>12, <1>13 DEF ToldInv

LEMMA ToldStep == EntryInv /\ ToldInv /\ [Next]_vars => ToldInv'
<1>. SUFFICES ASSUME EntryInv, ToldInv, [Next]_vars
              PROVE  ToldInv'
    OBVIOUS
<1>1. TypeOK /\ OnePerson /\ \A r \in Requests : Knows(r)
    BY DEF EntryInv
\* The tables stay, and each request is about the same player, known as before, or is over.
<1>2. ASSUME UNCHANGED <<name, events, sessions, overlaps>>,
             \A q \in Requests : \/ player'[q] = {}
                                 \/ /\ player'[q] = player[q] /\ copy'[q] = copy[q]
                                    /\ Running(q)' => Running(q)
      PROVE  ToldInv'
  <2>1. ToldTruly' /\ \A e \in events' : HasSession(e[2])'
      BY <1>2 DEF ToldInv, ToldTruly, HasSession
  <2>2. AloneUnnamed'
      BY <1>2 DEF ToldInv, AloneUnnamed, About
  <2>3. \A r \in Requests, p \in Players : Agrees(r, p)'
      BY <1>2 DEF ToldInv, Agrees, About
  <2>. QED
      BY <2>1, <2>2, <2>3 DEF ToldInv
<1>3. ASSUME NEW r \in Requests, FindSeed(r) \/ LockSeed(r) \/ SeedOnce(r) \/ FindSession(r)
      PROVE  ToldInv'
    BY <1>1, <1>2, <1>3 DEF FindSeed, LockSeed, SeedOnce, FindSession, Goto, Running, profiles,
       world, request, TypeOK
<1>4. ASSUME NEW r \in Requests, Fail(r)
      PROVE  ToldInv'
  <2>1. \A q \in Requests \ {r} : Same(q)
      BY <1>1, <1>4, ClearOthers DEF Fail, Goto
  <2>2. player'[r] = {}
      BY <1>1, <1>4 DEF Fail, Clear, TypeOK
  <2>. QED
      BY <1>2, <1>4, <2>1, <2>2 DEF Fail, Same, Running, profiles, world
<1>5. ASSUME NEW p \in Players, Register(p)
      PROVE  ToldInv'
  <2>1. \A o \in Players \ {p} : name'[o] = name[o]
      BY <1>1, <1>5 DEF Register, TypeOK
  <2>2. UNCHANGED <<events, sessions, overlaps, stage, player, copy>>
      BY <1>5 DEF Register, world, request
  <2>3. \A r \in Requests : ~About(r, p)
      BY <1>5 DEF Register
  <2>4. \A e \in events : e[2] # p
      BY <1>1, <1>5 DEF ToldInv, Register, HasSession, TypeOK
  <2>5. ToldTruly' /\ \A e \in events' : HasSession(e[2])'
      BY <1>1, <2>1, <2>2, <2>4 DEF ToldInv, ToldTruly, HasSession, TypeOK
  <2>6. AloneUnnamed'
      BY <2>1, <2>2, <2>3 DEF ToldInv, AloneUnnamed, About
  <2>7. \A r \in Requests, o \in Players : Agrees(r, o)'
      BY <2>1, <2>2, <2>3 DEF ToldInv, Agrees, About, Running
  <2>. QED
      BY <2>5, <2>6, <2>7 DEF ToldInv
<1>6. ASSUME NEW p \in Players, Travel(p)
      PROVE  ToldInv'
  <2>1. UNCHANGED <<name, events, sessions, overlaps, stage, player, copy>>
      BY <1>6 DEF Travel, profiles, request
  <2>. QED
      BY <1>2, <2>1 DEF Running
<1>10. ASSUME NEW v \in Packs, Activate(v)
       PROVE  ToldInv'
    BY <1>2, <1>10 DEF Activate, profiles, request, Running
<1>7. ASSUME NEW r \in Requests, NEW p \in Players,
             ReadProfile(r, p) \/ ReadOwnProfile(r, p) \/ ReadPatch(r, p)
      PROVE  ToldInv'
  <2>1. /\ UNCHANGED <<name, events, sessions, overlaps>>
        /\ ~Running(r)
        /\ player' = [player EXCEPT ![r] = {p}]
        /\ \A q \in Requests \ {r} : /\ stage'[q] = stage[q] /\ player'[q] = player[q]
                                     /\ copy'[q] = copy[q]
      BY <1>1, <1>7 DEF ReadProfile, ReadOwnProfile, ReadPatch, Goto, Running, profiles, world,
         TypeOK
  <2>2. ToldTruly' /\ \A e \in events' : HasSession(e[2])'
      BY <2>1 DEF ToldInv, ToldTruly, HasSession
  <2>3. name[p] # {} \/ \A q \in Requests : ~About(q, p)
      BY <1>7 DEF ReadProfile, ReadOwnProfile, ReadPatch
  <2>4. AloneUnnamed'
    <3>. SUFFICES ASSUME NEW a \in Requests, NEW b \in Requests, NEW o \in Players,
                         name[o] = {}, player'[a] = {o}, player'[b] = {o}
                  PROVE  a = b
        BY <2>1 DEF AloneUnnamed, About
    <3>1. CASE o = p
      <4>1. \A q \in Requests \ {r} : player'[q] # {p}
          BY <2>1, <2>3, <3>1 DEF About
      <4>. QED
          BY <3>1, <4>1
    <3>2. CASE o # p
      <4>1. player'[r] # {o}
          BY <1>1, <2>1, <3>2 DEF TypeOK
      <4>. QED
          BY <2>1, <4>1 DEF ToldInv, AloneUnnamed, About
    <3>. QED
        BY <3>1, <3>2
  <2>5. \A q \in Requests \ {r}, o \in Players : Agrees(q, o)'
      BY <2>1 DEF ToldInv, Agrees, About, Running
  <2>6. \A o \in Players : Agrees(r, o)'
    <3>. SUFFICES ASSUME NEW o \in Players, player'[r] = {o}
                  PROVE  /\ r \in Starts => name[o] \in {{}, copy'[r]}
                         /\ r \in Patches => \A e \in events : e[2] # o
        BY <2>1 DEF Agrees, About
    <3>1. o = p
        BY <1>1, <2>1 DEF TypeOK
    <3>2. CASE ReadProfile(r, p)
        BY <1>1, <3>1, <3>2 DEF ReadProfile, TypeOK
    <3>3. CASE ReadOwnProfile(r, p)
        BY <3>1, <3>3 DEF ReadOwnProfile
    <3>4. CASE ReadPatch(r, p)
      <4>1. p \notin locked
          BY <3>4 DEF ReadPatch, MayPatch
      <4>2. \A e \in events : e[2] # p
          BY <1>1, <4>1 DEF ToldInv, HasSession, TypeOK
      <4>. QED
          BY <3>1, <3>4, <4>2 DEF ReadPatch
    <3>. QED
        BY <1>7, <3>2, <3>3, <3>4
  <2>. QED
      BY <2>2, <2>4, <2>5, <2>6 DEF ToldInv
<1>8. ASSUME NEW r \in Requests, CommitPatch(r)
      PROVE  ToldInv'
  <2>1. PICK p \in Players : player[r] = {p}
      BY <1>1, <1>8 DEF CommitPatch, Knows, Running
  <2>2. /\ \A o \in Players \ {p} : name'[o] = name[o]
        /\ name[p] # {} /\ name'[p] # {}
        /\ r \in Patches /\ Running(r)
        /\ UNCHANGED <<events, sessions>>
        /\ overlaps' = overlaps \cup Overlapping(r)
        /\ player'[r] = {}
        /\ \A q \in Requests \ {r} : Same(q)
    <3>1. /\ name' = [o \in Players |-> IF o = p /\ change[r] # copy[r] THEN change[r] ELSE name[o]]
        BY <1>8, <2>1 DEF CommitPatch, About
    <3>2. r \in Patches /\ Running(r) /\ Clear(r) /\ stage' = [stage EXCEPT ![r] = "done"]
        BY <1>8 DEF CommitPatch, Goto, Running
    <3>3. name[p] # {} /\ change[r] # {}
        BY <1>1, <2>1, <3>2 DEF Knows
    <3>4. player'[r] = {} /\ \A q \in Requests \ {r} : Same(q)
        BY <1>1, <3>2, ClearOthers DEF Clear, TypeOK
    <3>. QED
        BY <1>8, <3>1, <3>2, <3>3, <3>4 DEF CommitPatch, world
  <2>3. \A e \in events : e[2] = p => p \in overlaps
      BY <2>1, <2>2 DEF ToldInv, Agrees, About
  <2>4. ToldTruly' /\ \A e \in events' : HasSession(e[2])'
      BY <1>1, <2>2, <2>3 DEF ToldInv, ToldTruly, HasSession, TypeOK
  <2>5. AloneUnnamed'
    <3>. SUFFICES ASSUME NEW a \in Requests, NEW b \in Requests, NEW o \in Players,
                         name'[o] = {}, player'[a] = {o}, player'[b] = {o}
                  PROVE  a = b
        BY DEF AloneUnnamed, About
    <3>1. a # r /\ b # r /\ o # p
        BY <2>2
    <3>. QED
        BY <2>2, <3>1 DEF ToldInv, AloneUnnamed, About, Same
  <2>6. ASSUME NEW q \in Requests \ {r}, NEW o \in Players
        PROVE  Agrees(q, o)'
    <3>. SUFFICES ASSUME player[q] = {o}, Running(q), o \notin overlaps'
                  PROVE  /\ q \in Starts => name'[o] \in {{}, copy[q]}
                         /\ q \in Patches => \A e \in events : e[2] # o
        BY <2>2 DEF Agrees, About, Running, Same
    <3>1. /\ q \in Starts => name[o] \in {{}, copy[q]}
          /\ q \in Patches => \A e \in events : e[2] # o
        BY <2>2 DEF ToldInv, Agrees, About
    <3>2. q \in Starts => o # p
        BY <2>1, <2>2 DEF Overlapping, About
    <3>. QED
        BY <2>2, <3>1, <3>2
  <2>7. \A o \in Players : Agrees(r, o)'
      BY <2>2 DEF Agrees, About
  <2>. QED
      BY <2>4, <2>5, <2>6, <2>7 DEF ToldInv
<1>9. CASE UNCHANGED vars
    BY <1>2, <1>9 DEF vars, profiles, world, request, Running
<1>. QED
    BY <1>3, <1>4, <1>5, <1>6, <1>7, <1>8, <1>9, <1>10, CommitStartTells DEF Next, Start, Patch

\* The world was told the player's identity as it is, unless a patch of it and his first
\* start ran together.
THEOREM EntryToldTruly == Spec => []ToldTruly
<1>1. Init => EntryInv /\ ToldInv
  <2>1. Init => ToldInv
      BY DEF Init, ToldInv, ToldTruly, AloneUnnamed, Agrees, About, Running
  <2>. QED
      BY <2>1, EntryInit
<1>2. EntryInv /\ ToldInv /\ [Next]_vars => (EntryInv /\ ToldInv)'
    BY EntryStep, ToldStep
<1>3. ToldInv => ToldTruly
    BY DEF ToldInv
<1>. QED
    BY <1>1, <1>2, <1>3, PTL DEF Spec
-------------------------------------------------------------------------------
(* PlayerClient *)

\* A socket that can carry anything is the one in use; what the server has registered it has
\* accepted; and a socket it greets or listens to stays registered.
SocketInv ==
    /\ \A c \in Conns : line[c] \in {"dialing", "open"} => c = socket
    /\ \A c \in Conns : c > socket => line[c] = "none"
    /\ \A c \in hub : line[c] \in {"open", "closed"}
    /\ \A c \in Conns : wire[c] # <<>> => line[c] = "open"
    /\ \A c \in Conns : line[c] = "open" /\ endpoint[c] \in {"greeting", "listening"} => c \in hub

\* Turns are sent in the order of their numbers.
UnsentInv == \A t \in Turns : t > owner => turn[t] = "unsent"

WordsTrue ==
    \A c \in Conns : \A i \in 1 .. Len(wire[c]) :
        wire[c][i].event = "turn.resolved" => wire[c][i].turn \in Resolved

\* Who is told a result is told of a turn that is applied; an answer that no result has
\* overtaken contains all results received.
TruthInv ==
    /\ WordsTrue
    /\ received \subseteq Resolved
    /\ \A f \in Fetches : fetch[f] = "answered" /\ f \notin passed => received \subseteq answer[f]
    /\ ShowsWhatItWasTold

\* The only word that can be under way is that of the turn that locks the form.
UnlockInv ==
    ~gaveUp =>
        /\ \A t \in Turns : t < owner => t \in announced
        /\ ~pending /\ owner # NoTurn => owner \in announced
        /\ \A c \in Conns : wire[c] # <<>> =>
              pending /\ Len(wire[c]) = 1 /\ wire[c][1].turn = owner /\ owner \in announced

HIDE EntryConstants
USE ClientConstants DEF Turns, NoTurn, Conns, NoConn

LEMMA WireSend ==
    ASSUME PageTypeOK, NEW word \in {<<>>} \cup {<<Word(t)>> : t \in Turns},
           EmitToAll(word) \/ EmitRaises(word)
    PROVE  /\ hub' \subseteq hub
           /\ \A c \in hub : ~Gone(c) => c \in hub'
           /\ wire' \in [Conns -> Seq(Words)]
           /\ \A c \in Conns : wire'[c] # wire[c] => c \in hub /\ ~Gone(c) /\ wire'[c] = wire[c] \o word
<1>1. \A t \in Turns : Word(t) \in Words
    BY DEF Word, Words
<1>2. word \in Seq(Words)
  <2>1. CASE word = <<>>
      BY <2>1
  <2>2. CASE word # <<>>
    <3>1. PICK t \in Turns : word = <<Word(t)>>
        BY <2>2
    <3>. QED
        BY <1>1, <3>1
  <2>. QED
      BY <2>1, <2>2
<1>3. PICK reached \in SUBSET hub : Send(word, reached)
  <2>1. CASE EmitToAll(word)
      BY <2>1 DEF EmitToAll
  <2>2. CASE EmitRaises(word)
      BY <2>2 DEF EmitRaises
  <2>. QED
      BY <2>1, <2>2
<1>4. hub' \subseteq hub /\ \A c \in hub : ~Gone(c) => c \in hub'
    BY <1>3 DEF Send
<1>5. wire' = [c \in Conns |-> IF c \in reached /\ ~Gone(c) THEN wire[c] \o word ELSE wire[c]]
    BY <1>3 DEF Send
<1>6. \A c \in Conns : wire[c] \in Seq(Words) /\ wire[c] \o word \in Seq(Words)
  <2>1. \A c \in Conns : wire[c] \in Seq(Words)
      BY DEF PageTypeOK
  <2>. QED
      BY <1>2, <2>1, ConcatProperties
<1>7. wire' \in [Conns -> Seq(Words)]
    BY <1>5, <1>6
<1>. QED
    BY <1>3, <1>4, <1>5, <1>7

LEMMA ReceiveFirst ==
    ASSUME PageTypeOK, Receive
    PROVE  /\ socket \in Conns /\ wire[socket] # <<>>
           /\ wire[socket] \in Seq(Words) /\ Len(wire[socket]) >= 1
           /\ wire' = [wire EXCEPT ![socket] = Tail(wire[socket])]
           /\ wire[socket][1] \in Words
           /\ Tail(wire[socket]) \in Seq(Words)
           /\ Len(Tail(wire[socket])) = Len(wire[socket]) - 1
           /\ \A i \in 1 .. Len(wire[socket]) - 1 : Tail(wire[socket])[i] = wire[socket][i + 1]
           /\ heard' = heard \cup {wire[socket][1].turn}
           /\ IF wire[socket][1].event = "turn.resolved" THEN ReceiveResolved(wire[socket][1].turn)
                                                         ELSE ReceiveFailed(wire[socket][1].turn)
           /\ UNCHANGED <<server, hub, endpoint, line, socket, hydrating>>
<1>1. socket \in Conns /\ wire[socket] # <<>> /\ wire[socket] \in Seq(Words)
    BY DEF Receive, PageTypeOK
<1>2. Len(wire[socket]) >= 1 /\ Head(wire[socket]) = wire[socket][1] /\ wire[socket][1] \in Words
    BY <1>1
<1>3. /\ Tail(wire[socket]) \in Seq(Words) /\ Len(Tail(wire[socket])) = Len(wire[socket]) - 1
      /\ \A i \in 1 .. Len(wire[socket]) - 1 : Tail(wire[socket])[i] = wire[socket][i + 1]
    BY <1>1
<1>. QED
    BY <1>1, <1>2, <1>3 DEF Receive

LEMMA PageTypeStep == PageTypeOK /\ UnsentInv /\ [PageNext]_pageVars => PageTypeOK'
<1>. SUFFICES ASSUME PageTypeOK, UnsentInv, [PageNext]_pageVars
              PROVE  PageTypeOK'
    OBVIOUS
<1>. USE DEF server, sockets, requests, view, form, Fates
<1>1. CASE StartSession
    BY <1>1 DEF StartSession, Dial, PageTypeOK
<1>2. CASE RenewToken
    BY <1>2 DEF RenewToken, Dial, PageTypeOK
<1>3. CASE Receive
  <2>1. /\ wire[socket][1].turn \in Turns
        /\ wire' = [wire EXCEPT ![socket] = Tail(wire[socket])]
        /\ Tail(wire[socket]) \in Seq(Words)
        /\ heard' = heard \cup {wire[socket][1].turn}
        /\ UNCHANGED <<turn, announced, hub, endpoint, line, socket, hydrating>>
      BY <1>3, ReceiveFirst DEF Words
  <2>2. wire' \in [Conns -> Seq(Words)]
      BY <2>1 DEF PageTypeOK
  <2>3. heard' \subseteq Turns
      BY <2>1 DEF PageTypeOK
  <2>4. CASE ReceiveResolved(wire[socket][1].turn)
    <3>1. shown' \subseteq Turns /\ story' \subseteq Turns /\ received' \subseteq Turns
        BY <2>1, <2>4 DEF ReceiveResolved, Merged, PageTypeOK
    <3>2. fetch' \in [Fetches -> {"none", "sent", "answered", "over"}] /\ passed' \subseteq Fetches
        BY <2>1, <2>4 DEF ReceiveResolved, PageTypeOK, Overtaken
    <3>. QED
        BY <2>1, <2>2, <2>3, <2>4, <3>1, <3>2 DEF ReceiveResolved, PageTypeOK
  <2>5. CASE ReceiveFailed(wire[socket][1].turn)
      BY <2>1, <2>2, <2>3, <2>5 DEF ReceiveFailed, PageTypeOK
  <2>. QED
      BY <1>3, <2>4, <2>5, ReceiveFirst
<1>4. ASSUME NEW c \in Conns, Break(c) \/ Connect(c) \/ Drop(c) \/ Disconnect(c)
      PROVE  PageTypeOK'
  <2>1. <<>> \in Seq(Words)
      OBVIOUS
  <2>2. CASE Break(c) \/ Drop(c)
    <3>1. line' = [line EXCEPT ![c] = "closed"] /\ wire' = [wire EXCEPT ![c] = <<>>]
          /\ UNCHANGED <<server, hub, endpoint, socket, requests, view, form, hydrating, heard>>
        BY <2>2 DEF Break, Drop
    <3>2. wire' \in [Conns -> Seq(Words)]
        BY <2>1, <3>1 DEF PageTypeOK
    <3>3. line' \in [Conns -> {"none", "dialing", "open", "closed"}]
        BY <3>1 DEF PageTypeOK
    <3>. QED
        BY <3>1, <3>2, <3>3 DEF PageTypeOK
  <2>3. CASE Connect(c) \/ Disconnect(c)
    <3>1. /\ line' \in {line, [line EXCEPT ![c] = "open"]}
          /\ endpoint' \in {[endpoint EXCEPT ![c] = "greeting"], [endpoint EXCEPT ![c] = "ended"]}
          /\ hub' \in {hub \cup {c}, hub \ {c}}
          /\ UNCHANGED <<server, wire, socket, requests, view, form, hydrating, heard>>
        BY <2>3 DEF Connect, Disconnect, Unregister
    <3>2. /\ line' \in [Conns -> {"none", "dialing", "open", "closed"}]
          /\ endpoint' \in [Conns -> {"none", "greeting", "listening", "ended"}]
          /\ hub' \subseteq Conns
        BY <3>1 DEF PageTypeOK
    <3>. QED
        BY <3>1, <3>2 DEF PageTypeOK
  <2>. QED
      BY <1>4, <2>2, <2>3
<1>5. ASSUME NEW c \in Conns, Greet(c)
      PROVE  PageTypeOK'
  <2>1. /\ EmitToAll(<<>>) \/ EmitRaises(<<>>)
        /\ endpoint' \in {[endpoint EXCEPT ![c] = "listening"], [endpoint EXCEPT ![c] = "ended"]}
        /\ UNCHANGED <<server, line, socket, requests, view, form, hydrating, heard>>
      BY <1>5 DEF Greet
  <2>2. hub' \subseteq Conns /\ wire' \in [Conns -> Seq(Words)]
      BY <2>1, WireSend DEF PageTypeOK
  <2>3. endpoint' \in [Conns -> {"none", "greeting", "listening", "ended"}]
      BY <2>1 DEF PageTypeOK
  <2>. QED
      BY <2>1, <2>2, <2>3 DEF PageTypeOK
<1>6. ASSUME NEW t \in Turns, Submit(t) \/ AnswerAccepted(t) \/ AnswerError(t) \/ NeverTell(t)
      PROVE  PageTypeOK'
  <2>1. CASE Submit(t)
    <3>1. t \notin announced /\ t \in Turns
      <4>1. owner \in Nat /\ t \in Turns /\ t = owner + 1
          BY <2>1 DEF Submit, PageTypeOK
      <4>2. turn[t] = "unsent"
          BY <4>1 DEF UnsentInv
      <4>. QED
          BY <4>2 DEF PageTypeOK
    <3>2. turn' = [turn EXCEPT ![t] = "posted"] /\ announced' = announced
        BY <2>1 DEF Submit
    <3>3. announced' \subseteq {o \in Turns : turn'[o] \in Fates}
        BY <3>1, <3>2 DEF PageTypeOK
    <3>. QED
        BY <2>1, <3>2, <3>3 DEF Submit, PageTypeOK
  <2>2. CASE AnswerAccepted(t) \/ AnswerError(t)
      BY <2>2 DEF AnswerAccepted, AnswerError, PageTypeOK
  <2>3. CASE NeverTell(t)
      BY <2>3 DEF NeverTell, PageTypeOK
  <2>. QED
      BY <1>6, <2>1, <2>2, <2>3
<1>7. ASSUME NEW t \in Turns, Accept(t) \/ Reject(t) \/ Resolve(t)
      PROVE  PageTypeOK'
  <2>1. /\ turn[t] \in {"posted", "running"}
        /\ \E fate \in {"running", "rejected"} \cup Fates : turn' = [turn EXCEPT ![t] = fate]
        /\ UNCHANGED <<announced, sockets, requests, view, form, hydrating, heard>>
      BY <1>7 DEF Accept, Reject, Resolve
  <2>2. /\ turn' \in [Turns -> {"unsent", "posted", "rejected", "running"} \cup Fates]
        /\ turn[t] \notin Fates /\ \A o \in Turns \ {t} : turn'[o] = turn[o]
      BY <2>1 DEF PageTypeOK
  <2>3. announced' \subseteq {o \in Turns : turn'[o] \in Fates}
      BY <2>1, <2>2 DEF PageTypeOK
  <2>. QED
      BY <2>1, <2>2, <2>3 DEF PageTypeOK
<1>8. ASSUME NEW t \in Turns, Tell(t)
      PROVE  PageTypeOK'
  <2>1. /\ turn[t] \in Fates /\ announced' = announced \cup {t}
        /\ EmitToAll(<<Word(t)>>) \/ EmitRaises(<<Word(t)>>)
        /\ UNCHANGED <<turn, endpoint, line, socket, requests, view, form, hydrating, heard>>
      BY <1>8 DEF Tell, Settled
  <2>2. hub' \subseteq Conns /\ wire' \in [Conns -> Seq(Words)]
      BY <2>1, WireSend DEF PageTypeOK
  <2>. QED
      BY <2>1, <2>2 DEF PageTypeOK
<1>9. ASSUME NEW f \in Fetches, Answer(f) \/ ApplyAnswer(f) \/ FetchFails(f)
      PROVE  PageTypeOK'
  <2>1. CASE Answer(f)
      BY <2>1 DEF Answer, PageTypeOK, Resolved
  <2>2. CASE ApplyAnswer(f)
    <3>1. /\ shown' \subseteq Turns /\ story' \subseteq Turns
          /\ loaded' \in BOOLEAN /\ stale' \in BOOLEAN /\ halfway' \in BOOLEAN
      <4>1. answer[f] \subseteq Turns /\ (f \in passed) \in BOOLEAN
          BY DEF PageTypeOK
      <4>2. CASE f = StoryAtStart
          BY <2>2, <4>1, <4>2 DEF ApplyAnswer, PageTypeOK
      <4>3. CASE f # StoryAtStart
          BY <2>2, <4>1, <4>3 DEF ApplyAnswer, PageTypeOK
      <4>. QED
          BY <4>2, <4>3
    <3>2. /\ fetch' \in [Fetches -> {"none", "sent", "answered", "over"}]
          /\ answer' \in [Fetches -> SUBSET Turns] /\ passed' \subseteq Fetches
        BY <2>2 DEF ApplyAnswer, Over, PageTypeOK
    <3>3. hydrating' \in BOOLEAN
        BY <2>2 DEF ApplyAnswer, Hydrated, PageTypeOK
    <3>. QED
        BY <2>2, <3>1, <3>2, <3>3 DEF ApplyAnswer, PageTypeOK
  <2>3. CASE FetchFails(f)
      BY <2>3 DEF FetchFails, Over, Hydrated, PageTypeOK
  <2>. QED
      BY <1>9, <2>1, <2>2, <2>3
<1>10. CASE UNCHANGED pageVars
    BY <1>10 DEF pageVars, PageTypeOK
<1>. QED
    BY <1>1, <1>2, <1>3, <1>4, <1>5, <1>6, <1>7, <1>8, <1>9, <1>10
       DEF PageNext, Serve, Fetch, ServerStep

LEMMA SocketStep == PageTypeOK /\ SocketInv /\ [PageNext]_pageVars => SocketInv'
<1>. SUFFICES ASSUME PageTypeOK, SocketInv, [PageNext]_pageVars
              PROVE  SocketInv'
    OBVIOUS
<1>. USE DEF server, sockets, requests, view, form
<1>1. socket \in Conns \cup {NoConn} /\ hub \subseteq Conns
      /\ line \in [Conns -> {"none", "dialing", "open", "closed"}]
      /\ wire \in [Conns -> Seq(Words)]
      /\ endpoint \in [Conns -> {"none", "greeting", "listening", "ended"}]
    BY DEF PageTypeOK
<1>2. ASSUME NEW c \in Conns, Dial(c), c > socket, UNCHANGED <<hub, endpoint>>, socket \in {NoConn, c - 1}
      PROVE  SocketInv'
    BY <1>1, <1>2 DEF Dial, SocketInv
<1>3. CASE StartSession
    BY <1>2, <1>3 DEF StartSession
<1>4. CASE RenewToken
    BY <1>1, <1>2, <1>4 DEF RenewToken
<1>5. CASE Receive
  <2>1. socket \in Conns /\ wire[socket] # <<>> /\ UNCHANGED <<hub, endpoint, line, socket>>
        /\ wire' = [wire EXCEPT ![socket] = Tail(wire[socket])]
      BY <1>5, ReceiveFirst
  <2>2. \A c \in Conns : wire'[c] # <<>> => wire[c] # <<>>
      BY <1>1, <2>1
  <2>. QED
      BY <2>1, <2>2 DEF SocketInv
<1>6. ASSUME NEW c \in Conns, Break(c) \/ Drop(c)
      PROVE  SocketInv'
  <2>1. /\ line[c] \in {"dialing", "open"}
        /\ line' = [line EXCEPT ![c] = "closed"] /\ wire' = [wire EXCEPT ![c] = <<>>]
        /\ UNCHANGED <<hub, endpoint, socket>>
      BY <1>6 DEF Break, Drop
  <2>2. \A d \in Conns \ {c} : line'[d] = line[d] /\ wire'[d] = wire[d]
      BY <1>1, <2>1
  <2>3. line'[c] = "closed" /\ wire'[c] = <<>> /\ ~(c > socket)
      BY <1>1, <2>1 DEF SocketInv
  <2>. QED
      BY <2>1, <2>2, <2>3 DEF SocketInv
<1>7. ASSUME NEW c \in Conns, Connect(c) \/ Disconnect(c)
      PROVE  SocketInv'
  <2>1. CASE Connect(c)
    <3>1. /\ line[c] = "dialing" /\ line' = [line EXCEPT ![c] = "open"]
          /\ endpoint' = [endpoint EXCEPT ![c] = "greeting"] /\ hub' = hub \cup {c}
          /\ UNCHANGED <<wire, socket>>
        BY <2>1 DEF Connect
    <3>. QED
        BY <1>1, <3>1 DEF SocketInv
  <2>2. CASE Disconnect(c)
    <3>1. /\ line[c] = "closed" /\ endpoint' = [endpoint EXCEPT ![c] = "ended"]
          /\ hub' = hub \ {c} /\ UNCHANGED <<line, wire, socket>>
        BY <2>2 DEF Disconnect, Unregister
    <3>. QED
        BY <1>1, <3>1 DEF SocketInv
  <2>. QED
      BY <1>7, <2>1, <2>2
<1>8. ASSUME NEW word \in {<<>>} \cup {<<Word(t)>> : t \in Turns},
             EmitToAll(word) \/ EmitRaises(word), UNCHANGED <<line, socket>>,
             \A c \in Conns : endpoint'[c] \in {"greeting", "listening"} =>
                                  endpoint[c] \in {"greeting", "listening"}
      PROVE  SocketInv'
  <2>1. /\ hub' \subseteq hub
        /\ \A c \in hub : ~Gone(c) => c \in hub'
        /\ \A c \in Conns : wire'[c] # wire[c] => c \in hub /\ ~Gone(c)
      BY <1>8, WireSend
  <2>2. \A c \in hub : ~Gone(c) => line[c] = "open"
      BY DEF SocketInv, Gone
  <2>3. \A c \in Conns : line[c] = "open" /\ endpoint[c] \in {"greeting", "listening"} => ~Gone(c)
      BY DEF Gone
  <2>4. \A c \in Conns : wire'[c] # <<>> => line[c] = "open"
      BY <2>1, <2>2 DEF SocketInv
  <2>. QED
      BY <1>1, <1>8, <2>1, <2>2, <2>3, <2>4 DEF SocketInv
<1>9. ASSUME NEW c \in Conns, Greet(c)
      PROVE  SocketInv'
  <2>1. EmitToAll(<<>>) \/ EmitRaises(<<>>)
      BY <1>9 DEF Greet
  <2>2. \A d \in Conns : endpoint'[d] \in {"greeting", "listening"} =>
                              endpoint[d] \in {"greeting", "listening"}
      BY <1>1, <1>9 DEF Greet
  <2>. QED
      BY <1>8, <1>9, <2>1, <2>2 DEF Greet
<1>10. ASSUME NEW t \in Turns, Tell(t)
       PROVE  SocketInv'
    BY <1>8, <1>10 DEF Tell
<1>11. CASE UNCHANGED <<hub, endpoint, line, wire, socket>>
    BY <1>11 DEF SocketInv
<1>12. ASSUME NEW t \in Turns, \/ Submit(t) \/ AnswerAccepted(t) \/ AnswerError(t) \/ NeverTell(t)
                               \/ Accept(t) \/ Reject(t) \/ Resolve(t)
       PROVE  SocketInv'
    BY <1>11, <1>12 DEF Submit, AnswerAccepted, AnswerError, NeverTell, Accept, Reject, Resolve
<1>13. ASSUME NEW f \in Fetches, Answer(f) \/ ApplyAnswer(f) \/ FetchFails(f)
       PROVE  SocketInv'
    BY <1>11, <1>13 DEF Answer, ApplyAnswer, FetchFails
<1>14. CASE UNCHANGED pageVars
    BY <1>11, <1>14 DEF pageVars
<1>. QED
    BY <1>3, <1>4, <1>5, <1>6, <1>7, <1>9, <1>10, <1>12, <1>13, <1>14
       DEF PageNext, Serve, Fetch, ServerStep

LEMMA UnsentStep == PageTypeOK /\ UnsentInv /\ [PageNext]_pageVars => UnsentInv'
<1>. SUFFICES ASSUME PageTypeOK, UnsentInv, [PageNext]_pageVars
              PROVE  UnsentInv'
    OBVIOUS
<1>. USE DEF server, sockets, requests, view, form
<1>1. owner \in Nat /\ turn \in [Turns -> {"unsent", "posted", "rejected", "running"} \cup Fates]
    BY DEF PageTypeOK
<1>2. CASE UNCHANGED <<turn, owner>>
    BY <1>2 DEF UnsentInv
<1>3. ASSUME NEW t \in Turns, Submit(t)
      PROVE  UnsentInv'
    BY <1>1, <1>3 DEF Submit, UnsentInv
<1>4. ASSUME NEW t \in Turns, Accept(t) \/ Reject(t) \/ Resolve(t)
      PROVE  UnsentInv'
    BY <1>1, <1>4 DEF Accept, Reject, Resolve, UnsentInv
<1>5. CASE StartSession \/ RenewToken \/ UNCHANGED pageVars
    BY <1>2, <1>5 DEF StartSession, RenewToken, pageVars
<1>6. CASE Receive
    BY <1>2, <1>6 DEF Receive, ReceiveResolved, ReceiveFailed
<1>7. ASSUME NEW c \in Conns, Break(c) \/ Serve(c) \/ Drop(c)
      PROVE  UnsentInv'
    BY <1>2, <1>7 DEF Break, Serve, Connect, Greet, Disconnect, Drop
<1>8. ASSUME NEW t \in Turns, Tell(t) \/ NeverTell(t) \/ AnswerAccepted(t) \/ AnswerError(t)
      PROVE  UnsentInv'
    BY <1>2, <1>8 DEF Tell, NeverTell, AnswerAccepted, AnswerError
<1>9. ASSUME NEW f \in Fetches, Fetch(f) \/ FetchFails(f)
      PROVE  UnsentInv'
    BY <1>2, <1>9 DEF Fetch, Answer, ApplyAnswer, FetchFails
<1>. QED
    BY <1>3, <1>4, <1>5, <1>6, <1>7, <1>8, <1>9 DEF PageNext, ServerStep

\* What holds of the words under way still holds when the turns' fates stay, and no word is
\* put on a wire but that of a turn that is settled.
LEMMA TruthStep == PageTypeOK /\ UnsentInv /\ TruthInv /\ [PageNext]_pageVars => TruthInv'
<1>. SUFFICES ASSUME PageTypeOK, UnsentInv, TruthInv, [PageNext]_pageVars
              PROVE  TruthInv'
    OBVIOUS
<1>. USE DEF server, sockets, requests, view, form
<1>1. /\ owner \in Nat
      /\ turn \in [Turns -> {"unsent", "posted", "rejected", "running"} \cup Fates]
      /\ wire \in [Conns -> Seq(Words)]
      /\ fetch \in [Fetches -> {"none", "sent", "answered", "over"}]
      /\ answer \in [Fetches -> SUBSET Turns]
      /\ received \subseteq Turns
    BY DEF PageTypeOK
\* The page is left alone: only the fates and the wires matter.
<1>2. ASSUME UNCHANGED <<view, requests>>, Resolved \subseteq Resolved', WordsTrue'
      PROVE  TruthInv'
    BY <1>2 DEF TruthInv, ShowsWhatItWasTold
<1>3. ASSUME UNCHANGED <<turn, view, requests>>,
             \A c \in Conns : wire'[c] \in {wire[c], <<>>}
      PROVE  TruthInv'
  <2>1. Resolved' = Resolved
      BY <1>3 DEF Resolved
  <2>2. WordsTrue'
      BY <1>3, <2>1 DEF TruthInv, WordsTrue
  <2>. QED
      BY <1>2, <1>3, <2>1, <2>2
<1>4. ASSUME Resolved \subseteq Resolved', UNCHANGED <<view, requests, wire>>
      PROVE  TruthInv'
    BY <1>2, <1>4 DEF TruthInv, WordsTrue
<1>5. CASE StartSession
  <2>1. \A c \in Conns : wire'[c] \in {wire[c], <<>>}
      BY <1>1, <1>5 DEF StartSession, Dial
  <2>2. Resolved' = Resolved /\ UNCHANGED <<view, answer, passed>>
      BY <1>5 DEF StartSession, Resolved
  <2>3. WordsTrue'
      BY <2>1, <2>2 DEF TruthInv, WordsTrue
  <2>4. \A f \in Fetches : fetch'[f] # "answered"
      BY <1>5 DEF StartSession
  <2>. QED
      BY <2>2, <2>3, <2>4 DEF TruthInv, ShowsWhatItWasTold
<1>6. CASE RenewToken
  <2>1. \A c \in Conns : wire'[c] \in {wire[c], <<>>}
      BY <1>1, <1>6 DEF RenewToken, Dial
  <2>. QED
      BY <1>3, <1>6, <2>1 DEF RenewToken
<1>7. CASE Receive
  <2>. DEFINE t == wire[socket][1].turn
  <2>1. /\ socket \in Conns /\ wire[socket] \in Seq(Words) /\ Len(wire[socket]) >= 1
        /\ wire' = [wire EXCEPT ![socket] = Tail(wire[socket])]
        /\ Len(Tail(wire[socket])) = Len(wire[socket]) - 1
        /\ \A i \in 1 .. Len(wire[socket]) - 1 : Tail(wire[socket])[i] = wire[socket][i + 1]
        /\ turn' = turn
        /\ wire[socket][1] \in Words
      BY <1>7, ReceiveFirst
  <2>2. Resolved' = Resolved
      BY <2>1 DEF Resolved
  <2>3. WordsTrue'
    <3>. SUFFICES ASSUME NEW c \in Conns, NEW i \in 1 .. Len(wire'[c]),
                         wire'[c][i].event = "turn.resolved"
                  PROVE  wire'[c][i].turn \in Resolved
        BY <2>2 DEF WordsTrue
    <3>1. CASE c # socket
        BY <1>1, <2>1, <3>1 DEF TruthInv, WordsTrue
    <3>2. CASE c = socket
      <4>1. Len(wire[socket]) \in Nat /\ wire'[c] = Tail(wire[socket])
          BY <1>1, <2>1, <3>2
      <4>2. i \in 1 .. Len(wire[socket]) - 1 /\ i + 1 \in 1 .. Len(wire[socket])
        <5>1. Len(wire'[c]) = Len(wire[socket]) - 1
            BY <2>1, <4>1
        <5>2. i \in 1 .. Len(wire[socket]) - 1
            BY <5>1
        <5>. QED
            BY <4>1, <5>2
      <4>3. wire'[c][i] = wire[socket][i + 1]
          BY <2>1, <4>1, <4>2
      <4>. QED
          BY <2>1, <4>2, <4>3 DEF TruthInv, WordsTrue
    <3>. QED
        BY <3>1, <3>2
  <2>4. CASE wire[socket][1].event = "turn.resolved"
    <3>1. t \in Resolved
        BY <2>1, <2>4 DEF TruthInv, WordsTrue
    <3>2. ReceiveResolved(t)
        BY <1>7, <2>4, ReceiveFirst
    <3>3. \A f \in Fetches : fetch'[f] = "answered" => f \in passed'
        BY <1>1, <3>2 DEF ReceiveResolved, Overtaken
    <3>4. received' \subseteq Resolved'
        BY <2>2, <3>1, <3>2 DEF ReceiveResolved, TruthInv
    <3>5. ShowsWhatItWasTold'
        BY <3>2 DEF ReceiveResolved, Merged, TruthInv, ShowsWhatItWasTold
    <3>. QED
        BY <2>3, <3>3, <3>4, <3>5 DEF TruthInv
  <2>5. CASE wire[socket][1].event # "turn.resolved"
    <3>1. ReceiveFailed(t)
        BY <1>7, <2>5, ReceiveFirst
    <3>. QED
        BY <1>2, <2>2, <2>3, <3>1 DEF ReceiveFailed
  <2>. QED
      BY <2>4, <2>5
<1>8. ASSUME NEW c \in Conns, Break(c) \/ Drop(c)
      PROVE  TruthInv'
  <2>1. \A d \in Conns : wire'[d] \in {wire[d], <<>>}
      BY <1>1, <1>8 DEF Break, Drop
  <2>. QED
      BY <1>3, <1>8, <2>1 DEF Break, Drop
<1>9. ASSUME NEW c \in Conns, Connect(c) \/ Disconnect(c)
      PROVE  TruthInv'
    BY <1>3, <1>9 DEF Connect, Disconnect
<1>10. ASSUME NEW c \in Conns, Greet(c)
       PROVE  TruthInv'
  <2>1. EmitToAll(<<>>) \/ EmitRaises(<<>>)
      BY <1>10 DEF Greet
  <2>2. \A d \in Conns : wire'[d] # wire[d] => wire'[d] = wire[d] \o <<>>
      BY <2>1, WireSend
  <2>3. \A d \in Conns : wire[d] \o <<>> = wire[d]
      BY <1>1, ConcatEmptySeq
  <2>4. \A d \in Conns : wire'[d] \in {wire[d], <<>>}
      BY <2>2, <2>3
  <2>. QED
      BY <1>3, <1>10, <2>4 DEF Greet
<1>11. ASSUME NEW t \in Turns, Tell(t)
       PROVE  TruthInv'
  <2>1. EmitToAll(<<Word(t)>>) \/ EmitRaises(<<Word(t)>>)
      BY <1>11 DEF Tell
  <2>2. \A d \in Conns : wire'[d] # wire[d] => wire'[d] = wire[d] \o <<Word(t)>>
      BY <2>1, WireSend
  <2>3. turn[t] \in Fates /\ Resolved' = Resolved /\ UNCHANGED <<view, requests>>
      BY <1>11 DEF Tell, Settled, Resolved
  <2>4. Word(t).turn = t /\ (Word(t).event = "turn.resolved" => t \in Resolved)
      BY <2>3 DEF Word, Resolved, Fates
  <2>5. WordsTrue'
    <3>. SUFFICES ASSUME NEW c \in Conns, NEW i \in 1 .. Len(wire'[c]),
                         wire'[c][i].event = "turn.resolved"
                  PROVE  wire'[c][i].turn \in Resolved
        BY <2>3 DEF WordsTrue
    <3>1. CASE wire'[c] = wire[c]
        BY <3>1 DEF TruthInv, WordsTrue
    <3>2. CASE wire'[c] = wire[c] \o <<Word(t)>>
      <4>1. wire[c] \in Seq(Words) /\ Word(t) \in Words
          BY <1>1 DEF Word, Words
      <4>2. Len(wire'[c]) = Len(wire[c]) + 1
            /\ \A k \in 1 .. Len(wire[c]) + 1 :
                  wire'[c][k] = IF k <= Len(wire[c]) THEN wire[c][k] ELSE Word(t)
        <5>1. <<Word(t)>> \in Seq(Words) /\ Len(<<Word(t)>>) = 1 /\ <<Word(t)>>[1] = Word(t)
            BY <4>1
        <5>2. \A k \in 1 .. Len(wire[c]) + 1 :
                 ~(k <= Len(wire[c])) => k - Len(wire[c]) = 1
            BY <4>1
        <5>. QED
            BY <3>2, <4>1, <5>1, <5>2, ConcatProperties
      <4>3. CASE i <= Len(wire[c])
          BY <4>1, <4>2, <4>3 DEF TruthInv, WordsTrue
      <4>4. CASE i > Len(wire[c])
          BY <2>4, <4>1, <4>2, <4>4
      <4>. QED
          BY <4>1, <4>3, <4>4
    <3>. QED
        BY <2>2, <3>1, <3>2
  <2>. QED
      BY <1>2, <2>3, <2>5
<1>12. ASSUME NEW t \in Turns, Submit(t)
       PROVE  TruthInv'
  <2>1. turn[t] = "unsent" /\ turn' = [turn EXCEPT ![t] = "posted"]
      BY <1>1, <1>12 DEF Submit, UnsentInv
  <2>2. Resolved \subseteq Resolved'
      BY <1>1, <2>1 DEF Resolved
  <2>. QED
      BY <1>4, <1>12, <2>2 DEF Submit
<1>13. ASSUME NEW t \in Turns, Accept(t) \/ Reject(t) \/ Resolve(t)
       PROVE  TruthInv'
  <2>1. Resolved \subseteq Resolved'
      BY <1>1, <1>13 DEF Accept, Reject, Resolve, Resolved
  <2>. QED
      BY <1>4, <1>13, <2>1 DEF Accept, Reject, Resolve
<1>14. ASSUME NEW t \in Turns, NeverTell(t) \/ AnswerAccepted(t) \/ AnswerError(t)
       PROVE  TruthInv'
    BY <1>3, <1>14 DEF NeverTell, AnswerAccepted, AnswerError
<1>15. ASSUME NEW f \in Fetches, Answer(f)
       PROVE  TruthInv'
  <2>1. /\ answer' = [answer EXCEPT ![f] = Resolved] /\ fetch' = [fetch EXCEPT ![f] = "answered"]
        /\ UNCHANGED <<turn, wire, view, passed>>
      BY <1>15 DEF Answer
  <2>2. Resolved' = Resolved
      BY <2>1 DEF Resolved
  <2>3. WordsTrue'
      BY <2>1, <2>2 DEF TruthInv, WordsTrue
  <2>. QED
      BY <1>1, <2>1, <2>2, <2>3 DEF TruthInv, ShowsWhatItWasTold
<1>16. ASSUME NEW f \in Fetches, ApplyAnswer(f) \/ FetchFails(f)
       PROVE  TruthInv'
  <2>1. /\ fetch' = [fetch EXCEPT ![f] = "over"] /\ answer' = [answer EXCEPT ![f] = {}]
        /\ passed' = passed \ {f} /\ UNCHANGED <<turn, wire, received>>
      BY <1>16 DEF ApplyAnswer, FetchFails, Over
  <2>2. Resolved' = Resolved
      BY <2>1 DEF Resolved
  <2>3. WordsTrue'
      BY <2>1, <2>2 DEF TruthInv, WordsTrue
  <2>4. \A g \in Fetches : fetch'[g] = "answered" /\ g \notin passed' => received' \subseteq answer'[g]
      BY <1>1, <2>1 DEF TruthInv
  <2>5. CASE FetchFails(f)
      BY <2>1, <2>2, <2>3, <2>4, <2>5 DEF FetchFails, TruthInv, ShowsWhatItWasTold
  <2>6. CASE ApplyAnswer(f)
    <3>1. f \notin passed => received \subseteq answer[f]
        BY <2>6 DEF ApplyAnswer, TruthInv
    <3>2. ShowsWhatItWasTold'
        BY <2>1, <2>6, <3>1 DEF ApplyAnswer, TruthInv, ShowsWhatItWasTold
    <3>. QED
        BY <2>1, <2>2, <2>3, <2>4, <3>2 DEF TruthInv
  <2>. QED
      BY <1>16, <2>5, <2>6
<1>17. CASE UNCHANGED pageVars
    BY <1>3, <1>17 DEF pageVars
<1>. QED
    BY <1>5, <1>6, <1>7, <1>8, <1>9, <1>10, <1>11, <1>12, <1>13, <1>14, <1>15, <1>16, <1>17
       DEF PageNext, Serve, Fetch, ServerStep

LEMMA UnlockStep ==
    PageTypeOK /\ SocketInv /\ UnsentInv /\ UnlockInv /\ [PageNext]_pageVars => UnlockInv'
<1>. SUFFICES ASSUME PageTypeOK, SocketInv, UnsentInv, UnlockInv, [PageNext]_pageVars, ~gaveUp'
              PROVE  UnlockInv'
    BY DEF UnlockInv
<1>. USE DEF server, sockets, requests, view, form
<1>1. /\ owner \in Turns \cup {NoTurn} /\ announced \subseteq {t \in Turns : turn[t] \in Fates}
      /\ wire \in [Conns -> Seq(Words)] /\ pending \in BOOLEAN
    BY DEF PageTypeOK
<1>2. ASSUME UNCHANGED <<announced, pending, owner, gaveUp>>,
             \A c \in Conns : wire'[c] \in {wire[c], <<>>}
      PROVE  UnlockInv'
    BY <1>2 DEF UnlockInv
<1>3. CASE StartSession \/ RenewToken
  <2>1. \A c \in Conns : wire'[c] \in {wire[c], <<>>}
      BY <1>1, <1>3 DEF StartSession, RenewToken, Dial
  <2>. QED
      BY <1>2, <1>3, <2>1 DEF StartSession, RenewToken
<1>4. CASE Receive
  <2>1. /\ socket \in Conns /\ wire[socket] # <<>> /\ wire[socket] \in Seq(Words)
        /\ wire' = [wire EXCEPT ![socket] = Tail(wire[socket])]
        /\ Tail(wire[socket]) \in Seq(Words)
        /\ Len(Tail(wire[socket])) = Len(wire[socket]) - 1
      BY <1>4, ReceiveFirst
  <2>2. UNCHANGED <<announced, owner, gaveUp>> /\ pending' = FALSE
      BY <1>4 DEF Receive, ReceiveResolved, ReceiveFailed
  <2>3. Len(wire[socket]) = 1 /\ owner \in announced /\ \A t \in Turns : t < owner => t \in announced
      BY <2>1, <2>2 DEF UnlockInv
  <2>4. wire'[socket] = <<>>
      BY <1>1, <2>1, <2>3, EmptySeq
  <2>5. \A c \in Conns \ {socket} : wire'[c] = <<>>
      BY <1>1, <2>1 DEF SocketInv
  <2>. QED
      BY <2>2, <2>3, <2>4, <2>5 DEF UnlockInv
<1>5. ASSUME NEW c \in Conns, Break(c) \/ Connect(c) \/ Disconnect(c) \/ Drop(c)
      PROVE  UnlockInv'
  <2>1. \A d \in Conns : wire'[d] \in {wire[d], <<>>}
      BY <1>1, <1>5 DEF Break, Connect, Disconnect, Drop
  <2>. QED
      BY <1>2, <1>5, <2>1 DEF Break, Connect, Disconnect, Drop
<1>6. ASSUME NEW c \in Conns, Greet(c)
      PROVE  UnlockInv'
  <2>1. EmitToAll(<<>>) \/ EmitRaises(<<>>)
      BY <1>6 DEF Greet
  <2>2. \A d \in Conns : wire'[d] # wire[d] => wire'[d] = wire[d] \o <<>>
      BY <2>1, WireSend
  <2>3. \A d \in Conns : wire[d] \o <<>> = wire[d]
      BY <1>1, ConcatEmptySeq
  <2>4. \A d \in Conns : wire'[d] \in {wire[d], <<>>}
      BY <2>2, <2>3
  <2>. QED
      BY <1>2, <1>6, <2>4 DEF Greet
<1>7. ASSUME NEW t \in Turns, Tell(t)
      PROVE  UnlockInv'
  <2>1. EmitToAll(<<Word(t)>>) \/ EmitRaises(<<Word(t)>>)
      BY <1>7 DEF Tell
  <2>2. turn[t] \in Fates /\ t \notin announced /\ announced' = announced \cup {t}
        /\ UNCHANGED <<pending, owner, gaveUp>>
      BY <1>7 DEF Tell, Settled
  <2>3. ~gaveUp
      BY <2>2
  <2>4. t = owner
    <3>1. ~(t < owner)
        BY <2>2, <2>3 DEF UnlockInv
    <3>2. ~(t > owner)
        BY <2>2 DEF UnsentInv, Fates
    <3>. QED
        BY <1>1, <3>1, <3>2
  <2>5. pending /\ \A c \in Conns : wire[c] = <<>>
      BY <1>1, <2>2, <2>3, <2>4 DEF UnlockInv
  <2>6. \A c \in Conns : wire'[c] # <<>> => wire'[c] = <<Word(t)>>
    <3>1. \A c \in Conns : wire'[c] # wire[c] => wire'[c] = wire[c] \o <<Word(t)>>
        BY <2>1, WireSend
    <3>2. <<Word(t)>> \in Seq(Words)
        BY DEF Word, Words
    <3>3. <<>> \o <<Word(t)>> = <<Word(t)>>
        BY <3>2, ConcatEmptySeq
    <3>. QED
        BY <2>5, <3>1, <3>3
  <2>7. Len(<<Word(t)>>) = 1 /\ <<Word(t)>>[1].turn = t
      BY DEF Word
  <2>. QED
      BY <2>2, <2>3, <2>4, <2>5, <2>6, <2>7 DEF UnlockInv
<1>8. ASSUME NEW t \in Turns, Submit(t)
      PROVE  UnlockInv'
  <2>1. ~pending /\ pending' = TRUE /\ t = owner + 1 /\ owner' = t
        /\ UNCHANGED <<announced, wire, gaveUp>>
      BY <1>8 DEF Submit
  <2>2. \A c \in Conns : wire[c] = <<>>
      BY <2>1 DEF UnlockInv
  <2>3. \A o \in Turns : o < owner' => o \in announced
    <3>. SUFFICES ASSUME NEW o \in Turns, o < owner + 1
                  PROVE  o \in announced
        BY <2>1
    <3>1. o < owner \/ o = owner
        BY <1>1
    <3>. QED
        BY <2>1, <3>1 DEF UnlockInv
  <2>. QED
      BY <2>1, <2>2, <2>3 DEF UnlockInv
<1>9. ASSUME NEW t \in Turns, NeverTell(t)
      PROVE  UnlockInv'
    BY <1>9 DEF NeverTell, UnlockInv
<1>10. ASSUME NEW t \in Turns, Accept(t) \/ Reject(t) \/ Resolve(t) \/ AnswerAccepted(t)
       PROVE  UnlockInv'
    BY <1>2, <1>10 DEF Accept, Reject, Resolve, AnswerAccepted
<1>11. ASSUME NEW t \in Turns, AnswerError(t)
       PROVE  UnlockInv'
    BY <1>11 DEF AnswerError
<1>12. ASSUME NEW f \in Fetches, Fetch(f) \/ FetchFails(f)
       PROVE  UnlockInv'
    BY <1>2, <1>12 DEF Fetch, Answer, ApplyAnswer, FetchFails
<1>13. CASE UNCHANGED pageVars
    BY <1>2, <1>13 DEF pageVars
<1>. QED
    BY <1>3, <1>4, <1>5, <1>6, <1>7, <1>8, <1>9, <1>10, <1>11, <1>12, <1>13
       DEF PageNext, Serve, ServerStep

PageInv == PageTypeOK /\ UnsentInv /\ SocketInv /\ TruthInv /\ UnlockInv

LEMMA PageInvInit == PageInit => PageInv
<1>. SUFFICES ASSUME PageInit
              PROVE  PageInv
    OBVIOUS
<1>1. <<>> \in Seq(Words)
    OBVIOUS
<1>2. PageTypeOK
    BY <1>1 DEF PageInit, PageTypeOK
<1>3. UnsentInv /\ SocketInv
    BY DEF PageInit, UnsentInv, SocketInv
<1>4. TruthInv
    BY DEF PageInit, TruthInv, WordsTrue, ShowsWhatItWasTold
<1>5. UnlockInv
    BY DEF PageInit, UnlockInv
<1>. QED
    BY <1>2, <1>3, <1>4, <1>5 DEF PageInv

LEMMA PageInvStep == PageInv /\ [PageNext]_pageVars => PageInv'
BY PageTypeStep, UnsentStep, SocketStep, TruthStep, UnlockStep DEF PageInv

\* Type correctness for any number of turns and sockets.
THEOREM PageTypeCorrect == PageSpec => []PageTypeOK
<1>1. PageInv => PageTypeOK
    BY DEF PageInv
<1>. QED
    BY <1>1, PageInvInit, PageInvStep, PTL DEF PageSpec

\* A socket that is open at both ends is registered: no disconnect, failed send or failed
\* greeting of another socket takes it away.
THEOREM PageHeardWhileOpen == PageSpec => []HeardWhileOpen
<1>1. PageInv => HeardWhileOpen
    BY DEF PageInv, SocketInv, HeardWhileOpen
<1>. QED
    BY <1>1, PageInvInit, PageInvStep, PTL DEF PageSpec

\* The state and the story on the page have every result received, unless an answer was
\* applied that a result had overtaken.
THEOREM PageShowsWhatItWasTold == PageSpec => []ShowsWhatItWasTold
<1>1. PageInv => ShowsWhatItWasTold
    BY DEF PageInv, TruthInv
<1>. QED
    BY <1>1, PageInvInit, PageInvStep, PTL DEF PageSpec

\* Only an answer with an error and a word that is received unlock the form.
LEMMA UnlockedBy ==
    ASSUME PageTypeOK, [PageNext]_pageVars, pending, ~pending', ~gaveUp'
    PROVE  Receive
<1>. USE DEF server, sockets, requests, view, form
<1>1. pending' # pending /\ gaveUp' # TRUE
    OBVIOUS
<1>2. ~(StartSession \/ RenewToken \/ UNCHANGED pageVars)
    BY <1>1 DEF StartSession, RenewToken, pageVars
<1>3. \A c \in Conns : ~(Break(c) \/ Serve(c) \/ Drop(c))
    BY <1>1 DEF Break, Serve, Connect, Greet, Disconnect, Drop
<1>4. \A t \in Turns : ~(Submit(t) \/ ServerStep(t) \/ AnswerAccepted(t) \/ AnswerError(t))
    BY <1>1 DEF Submit, ServerStep, Accept, Reject, Resolve, Tell, NeverTell, AnswerAccepted, AnswerError
<1>5. \A f \in Fetches : ~(Fetch(f) \/ FetchFails(f))
    BY <1>1 DEF Fetch, Answer, ApplyAnswer, FetchFails
<1>. QED
    BY <1>2, <1>3, <1>4, <1>5 DEF PageNext

\* As long as the page has given up on no request, only the final word of the turn that
\* locked the form unlocks it.
THEOREM PageUnlockedByOwn == PageSpec => UnlockedByOwn
<1>. DEFINE Own == pending /\ ~pending' /\ ~gaveUp'
                     => /\ turn[owner] \in Fates
                        /\ owner \in announced
                        /\ \A t \in Turns \ {owner} : turn[t] \in Fates => t \in announced
<1>1. ASSUME PageInv, [PageNext]_pageVars
      PROVE  [Own]_pageVars
  <2>. SUFFICES ASSUME pending, ~pending', ~gaveUp'
                PROVE  /\ turn[owner] \in Fates
                       /\ owner \in announced
                       /\ \A t \in Turns \ {owner} : turn[t] \in Fates => t \in announced
      OBVIOUS
  <2>1. Receive
      BY <1>1, UnlockedBy DEF PageInv
  <2>2. socket \in Conns /\ wire[socket] # <<>> /\ gaveUp' = gaveUp
      BY <1>1, <2>1, ReceiveFirst DEF PageInv, Receive, ReceiveResolved, ReceiveFailed, form
  <2>3. owner \in announced /\ \A t \in Turns : t < owner => t \in announced
      BY <1>1, <2>2 DEF PageInv, UnlockInv
  <2>4. turn[owner] \in Fates
      BY <1>1, <2>3 DEF PageInv, PageTypeOK
  <2>5. \A t \in Turns : turn[t] \in Fates => ~(t > owner)
      BY <1>1 DEF PageInv, UnsentInv, Fates
  <2>6. owner \in Nat
      BY <1>1 DEF PageInv, PageTypeOK
  <2>7. ASSUME NEW t \in Turns \ {owner}, turn[t] \in Fates
        PROVE  t \in announced
    <3>1. t < owner
        BY <2>5, <2>6, <2>7
    <3>. QED
        BY <2>3, <3>1
  <2>. QED
      BY <2>3, <2>4, <2>7
<1>. QED
    BY <1>1, PageInvInit, PageInvStep, PTL DEF PageSpec, UnlockedByOwn
=============================================================================
