----------------------------- MODULE TurnReview -----------------------------
(***************************************************************************)
(* How a player's free text becomes canonical.  A model narrates the turn; *)
(* deterministic code, the harness, compares what the narration claims     *)
(* with the state the turn loaded (a dry run), has it repaired once, falls *)
(* back to a narration of its own, and at last applies the claims to the   *)
(* database.  Minutes may pass between the load and the application, and   *)
(* nothing keeps two turns of one player apart, so the model's answers,   *)
(* the world and the other turn may all have moved in between.             *)
(*                                                                         *)
(* A turn is one transaction at READ COMMITTED, except that its row locks  *)
(* are left out: they delay a second writer but do not make it look again. *)
(***************************************************************************)
EXTENDS Naturals

CONSTANTS
    Turns,          \* turns of one player
    Places, Start,  \* locations; where the player begins
    Road,           \* pairs of adjacent places (LocationRoute)
    Gated,          \* roads that are open or not as the world's state has it
    Items,          \* the player's reward items, at first unused
    People,         \* people one can meet
    Names,          \* what a narration may call a place
    Called,         \* the names a place has in its world pack
    Translations,   \* pairs of names that translate each other
    Within,         \* pairs of names, the first of which is part of the second
    Longest,        \* picks the longest of a set of names
    Goals,          \* destinations a player's text may name, None for no movement
    Proposals,      \* what a model may answer
    None

\* A proposal claims a place by a name (None: no claim) and perhaps a key, people who
\* are present, people who are spoken to, of whom it may say that they are not here,
\* items that are used and how often it names them; "leak" is internal metadata in
\* its text.
Claim == [name : Names \cup {None}, hint : Places \cup {None},
          people : SUBSET People, called : SUBSET People, absent : BOOLEAN,
          items : [Items -> 0 .. 2], leak : BOOLEAN]

ASSUME ReviewConstants ==
    /\ None \notin Places
    /\ Start \in Places
    /\ Road \subseteq {r \in Places \X Places : r[1] # r[2]}
    /\ Gated \subseteq Road
    /\ None \notin Names
    /\ Called \in [Places -> (SUBSET Names) \ {{}}]
    /\ Translations \subseteq Names \X Names
    /\ \A n \in Names : <<n, n>> \in Within
    /\ \A N \in SUBSET Names : N # {} => Longest[N] \in N
    /\ Goals \subseteq Places \cup {None}
    /\ Proposals \subseteq Claim

VARIABLES
    at,         \* committed: where the player is
    used,       \* committed: items that have been used
    open,       \* committed: gated roads that can be passed
    where,      \* committed: where people are
    stage,      \* where each turn is
    goal,       \* the destination its text names
    copy,       \* the player's place as it loaded it
    exits,      \* the destinations it saw
    bag,        \* the usable items it saw
    met,        \* the people it saw at its place and at the end of each way
    cards,      \* people the context planner asked about, and where they were then
    payload,    \* the narration under review
    place,      \* the place it applied
    uses,       \* the items it used
    refused,    \* objections raised while it was applied
    stale       \* history: what others changed since it began

world == <<at, used, open, where>>
sight == <<goal, copy, exits, bag, met, cards>>
effect == <<place, uses, refused>>
vars == <<world, stage, sight, payload, effect, stale>>

Objection == {"way", "item", "person", "called", "leak"}
Running(t) == stage[t] \notin {"idle", "resolved", "failed"}
Silent == [name |-> None, hint |-> None, people |-> {}, called |-> {}, absent |-> FALSE,
           items |-> [i \in Items |-> 0], leak |-> FALSE]
Nobody == [p \in Places |-> {}]
----------------------------------------------------------------------------
(* Names of places *)

\* The pack's glossary and the texts translated so far.
Translated(n) == {m \in Names : <<n, m>> \in Translations \/ <<m, n>> \in Translations}

\* What the alias index holds for a place: its names and their translations.
Aliases(p) == Called[p] \cup UNION {Translated(n) : n \in Called[p]}

\* A name speaks of a place when one of the aliases is part of it ...
Mentions(n, p) == \E a \in Aliases(p) : <<a, n>> \in Within

\* ... and is looked up among all places the other way round as well.
Similar(n) == {a \in UNION {Aliases(p) : p \in Places} : <<a, n>> \in Within \/ <<n, a>> \in Within}
Owners(a) == {p \in Places : a \in Aliases(p)}

\* A key the model gives counts if it is a candidate, or else the longest alias does.
Match(n, hint) ==
    IF \E a \in Similar(n) : hint \in Owners(a) THEN hint
    ELSE IF Similar(n) = {} THEN None
    ELSE CHOOSE p \in Places : p \in Owners(Longest[Similar(n)])
----------------------------------------------------------------------------
(* The harness *)

Passable(from, to) == <<from, to>> \in Road /\ (<<from, to>> \in Gated => <<from, to>> \in open)
Exits(from) == {to \in Places : Passable(from, to)}

Named(p) == {i \in Items : p.items[i] > 0}

\* list_local_figures and list_npc_locations read where people are at the time.
Figures(p) == {q \in People : where[q] = p}
Away(p) == {q \in People : where[q] # p}

\* The place a narration claims, if it is not the one the turn loaded, or else the
\* one the player's text names, is a destination when the turn saw a way to it.
Elsewhere(t, p) == p.name # None /\ ~Mentions(p.name, copy[t])
Heading(t, p) == IF Elsewhere(t, p) THEN Match(p.name, p.hint) ELSE goal[t]
Target(t, p) == IF Heading(t, p) \in exits[t] THEN Heading(t, p) ELSE copy[t]
NoWay(t, p) == Elsewhere(t, p) /\ Heading(t, p) \notin exits[t]

\* People spoken to who are somewhere else, unless the narration says so, or claims
\* them to be present, which is an objection of its own.
Misaddressed(p, here) == IF p.absent THEN {} ELSE (p.called \cap Away(here)) \ p.people

\* The claims that do not hold: no way to the place, items the player cannot use,
\* people who are not where the turn ends.
Objections(p, noWay, unusable, here) ==
    {o \in Objection :
        \/ o = "way" /\ noWay
        \/ o = "item" /\ unusable # {}
        \/ o = "person" /\ ~(p.people \subseteq Figures(here))
        \/ o = "called" /\ Misaddressed(p, here) # {}
        \/ o = "leak" /\ p.leak}

\* The dry run takes ways and items from what the turn saw.
DryRun(t, p) == Objections(p, NoWay(t, p), Named(p) \ bag[t], Target(t, p))
----------------------------------------------------------------------------
\* A turn that is over leaves nothing behind but what it committed.
Forget(t) ==
    /\ goal' = [goal EXCEPT ![t] = None]
    /\ copy' = [copy EXCEPT ![t] = Start]
    /\ exits' = [exits EXCEPT ![t] = {}]
    /\ bag' = [bag EXCEPT ![t] = {}]
    /\ met' = [met EXCEPT ![t] = Nobody]
    /\ cards' = [cards EXCEPT ![t] = {}]
    /\ payload' = [payload EXCEPT ![t] = Silent]
    /\ place' = [place EXCEPT ![t] = Start]
    /\ uses' = [uses EXCEPT ![t] = {}]
    /\ refused' = [refused EXCEPT ![t] = {}]

Init ==
    /\ at = Start
    /\ used = {}
    /\ open \in SUBSET Gated
    /\ where \in [People -> Places]
    /\ stage = [t \in Turns |-> "idle"]
    /\ goal = [t \in Turns |-> None]
    /\ copy = [t \in Turns |-> Start]
    /\ exits = [t \in Turns |-> {}]
    /\ bag = [t \in Turns |-> {}]
    /\ met = [t \in Turns |-> Nobody]
    /\ cards = [t \in Turns |-> {}]
    /\ payload = [t \in Turns |-> Silent]
    /\ place = [t \in Turns |-> Start]
    /\ uses = [t \in Turns |-> {}]
    /\ refused = [t \in Turns |-> {}]
    /\ stale = [t \in Turns |-> {}]

\* load_prepared_turn_context_for_job loads the player.
Load(t, g) ==
    /\ stage[t] = "idle"
    /\ stage' = [stage EXCEPT ![t] = "loaded"]
    /\ goal' = [goal EXCEPT ![t] = g]
    /\ copy' = [copy EXCEPT ![t] = at]
    /\ UNCHANGED <<world, exits, bag, met, cards, payload, effect, stale>>

\* Fault: for each way the people of the loaded place are looked up once more.
SceneOfHere(t, ways) ==
    [p \in Places |-> IF p = copy[t] \/ p \in ways THEN Figures(copy[t]) ELSE {}]

\* Who is at the loaded place and, for each way, who will be met on arrival.
Scene(t, ways) == [p \in Places |-> IF p = copy[t] \/ p \in ways THEN Figures(p) ELSE {}]

\* The session state: ways from the place that was loaded, usable items, people.
Look(t) ==
    /\ stage[t] = "loaded"
    /\ stage' = [stage EXCEPT ![t] = "planning"]
    /\ exits' = [exits EXCEPT ![t] = Exits(copy[t])]
    /\ bag' = [bag EXCEPT ![t] = Items \ used]
    /\ met' = [met EXCEPT ![t] = Scene(t, Exits(copy[t]))]
    /\ UNCHANGED <<world, goal, copy, cards, payload, effect, stale>>

\* The directory of the whole world says of everybody where he is.
Directory == {<<q, where[q]>> : q \in People}

\* Of the references to people those that can be resolved and are not in the scene.
SceneKeys(t) == met[t][copy[t]]
Resolved(t, refs) == {c \in Directory : c[1] \in refs \ SceneKeys(t)}

\* The directory is read, and a planner chooses references from it; a planner that
\* fails leaves no cards.
Plan(t, refs) ==
    /\ stage[t] = "planning"
    /\ stage' = [stage EXCEPT ![t] = "asking"]
    /\ cards' = [cards EXCEPT ![t] = Resolved(t, refs)]
    /\ UNCHANGED <<world, goal, copy, exits, bag, met, payload, effect, stale>>

\* A model answers: the first call, its repair when it was unusable, or the repair
\* of a narration the dry run objected to.
Answer(t, p) ==
    /\ stage[t] \in {"asking", "mending", "repairing"}
    /\ stage' = [stage EXCEPT ![t] = IF @ = "repairing" THEN "second review" ELSE "review"]
    /\ payload' = [payload EXCEPT ![t] = p]
    /\ UNCHANGED <<world, sight, effect, stale>>

\* Its answer cannot be used.  The first call is repaired, unless the text was
\* refused for safety; a repair is not, and the turn fails (Abort).
NoAnswer(t) ==
    /\ stage[t] = "asking"
    /\ stage' = [stage EXCEPT ![t] = "mending"]
    /\ UNCHANGED <<world, sight, payload, effect, stale>>

\* The dry run approves the narration, ...
Approve(t) ==
    /\ stage[t] \in {"review", "second review"}
    /\ DryRun(t, payload[t]) = {}
    /\ stage' = [stage EXCEPT ![t] = "approved"]
    /\ UNCHANGED <<world, sight, payload, effect, stale>>

\* ... or sends it to repair, ...
Reject(t) ==
    /\ stage[t] = "review"
    /\ DryRun(t, payload[t]) # {}
    /\ stage' = [stage EXCEPT ![t] = "repairing"]
    /\ UNCHANGED <<world, sight, payload, effect, stale>>

\* Fault: the second narration is taken as it is.
FallBackNever(t) ==
    /\ stage[t] = "second review"
    /\ DryRun(t, payload[t]) # {}
    /\ stage' = [stage EXCEPT ![t] = "approved"]
    /\ UNCHANGED <<world, sight, payload, effect, stale>>

\* ... or, the second time, replaces it by a narration that claims only the loaded
\* place, by its name in the player's language; this one is not reviewed.
FallBack(t) ==
    /\ stage[t] = "second review"
    /\ DryRun(t, payload[t]) # {}
    /\ stage' = [stage EXCEPT ![t] = "approved"]
    /\ \E n \in Aliases(copy[t]) : payload' = [payload EXCEPT ![t] = [Silent EXCEPT !.name = n]]
    /\ UNCHANGED <<world, sight, effect, stale>>

\* Fault: items are taken from the turn's copy of the inventory.
UsableFromCopy(t) == bag[t]

\* The items the application finds unused: it reads them again (use_reward_item).
StillUsable(t) == bag[t] \ used

\* Each of them is used once, however often the narration names it.
Use(t) == Named(payload[t]) \cap StillUsable(t)

\* The harness applies the claims.  The way is looked up again from the loaded
\* place (travel_to_location); every claim that fails is recorded, the rest is
\* applied and the turn goes on.
Apply(t) ==
    LET p == payload[t]
        target == Target(t, p)
        closed == target # copy[t] /\ ~Passable(copy[t], target)
        here == IF closed THEN copy[t] ELSE target
        unusable == {i \in Named(p) : i \notin StillUsable(t) \/ p.items[i] > 1}
    IN  /\ stage[t] = "approved"
        /\ stage' = [stage EXCEPT ![t] = "applied"]
        /\ place' = [place EXCEPT ![t] = here]
        /\ uses' = [uses EXCEPT ![t] = Use(t)]
        /\ refused' = [refused EXCEPT ![t] =
                         Objections(p, closed \/ NoWay(t, p), unusable, here)]
        /\ UNCHANGED <<world, sight, payload, stale>>

\* What a commit or a change of the world means for the turns in flight.
Disturbed(t, what) ==
    stale[t] \cup (IF Running(t) THEN what ELSE {})
Late(t) == IF stage[t] = "applied" THEN {"late turn"} ELSE {}

\* Fault: the player is put where the turn found him even when he did not move.
CommitPlace(t) == place[t]

\* The player's row is written only when the turn changed its place.
NewPlace(t) == IF place[t] # copy[t] THEN place[t] ELSE at

Commit(t) ==
    /\ stage[t] = "applied"
    /\ stage' = [stage EXCEPT ![t] = "resolved"]
    /\ at' = NewPlace(t)
    /\ used' = used \cup uses[t]
    /\ stale' = [u \in Turns |-> IF u = t THEN {} ELSE Disturbed(u, {"turn"} \cup Late(u))]
    /\ Forget(t)
    /\ UNCHANGED <<open, where>>

\* There is no usable answer and the turn fails with a refund, or anything raises:
\* the transaction is rolled back, and the attempt is repeated from the start or
\* the turn fails.
Abort(t) ==
    /\ Running(t)
    /\ \E s \in {"idle", "failed"} : stage' = [stage EXCEPT ![t] = s]
    /\ stale' = [stale EXCEPT ![t] = {}]
    /\ Forget(t)
    /\ UNCHANGED world

\* Turns of other players move the world, and a gated road opens or closes.
Turnpike(r) ==
    /\ open' = IF r \in open THEN open \ {r} ELSE open \cup {r}
    /\ stale' = [t \in Turns |-> Disturbed(t, {"world"})]
    /\ UNCHANGED <<at, used, where, stage, sight, payload, effect>>

\* The idle pass moves people along the roads of their routines.
Walk(q, to) ==
    /\ <<where[q], to>> \in Road
    /\ where' = [where EXCEPT ![q] = to]
    /\ stale' = [t \in Turns |-> Disturbed(t, {"world"})]
    /\ UNCHANGED <<at, used, open, stage, sight, payload, effect>>

\* The steps of one turn: the job loads its context, looks at the session, has a planner
\* and a model answer, has the answer judged and repaired, applies it and commits.
Resolve(t) ==
    \/ \E g \in Goals : Load(t, g)
    \/ Look(t)
    \/ \E refs \in SUBSET People : Plan(t, refs)
    \/ \E p \in Proposals : Answer(t, p)
    \/ NoAnswer(t) \/ Approve(t) \/ Reject(t) \/ FallBack(t)
    \/ Apply(t) \/ Commit(t) \/ Abort(t)

Next ==
    \/ \E t \in Turns : Resolve(t)
    \/ \E r \in Gated : Turnpike(r)
    \/ \E q \in People, to \in Places : Walk(q, to)

Spec == Init /\ [][Next]_vars
----------------------------------------------------------------------------
(* Properties *)

TypeOK ==
    /\ at \in Places
    /\ used \subseteq Items
    /\ open \subseteq Gated
    /\ where \in [People -> Places]
    /\ stage \in [Turns -> {"idle", "loaded", "planning", "asking", "mending", "review",
                            "repairing", "second review", "approved", "applied", "resolved",
                            "failed"}]
    /\ goal \in [Turns -> Places \cup {None}]
    /\ copy \in [Turns -> Places]
    /\ exits \in [Turns -> SUBSET Places]
    /\ bag \in [Turns -> SUBSET Items]
    /\ met \in [Turns -> [Places -> SUBSET People]]
    /\ cards \in [Turns -> SUBSET (People \X Places)]
    /\ payload \in [Turns -> Claim]
    /\ place \in [Turns -> Places]
    /\ uses \in [Turns -> SUBSET Items]
    /\ refused \in [Turns -> SUBSET Objection]
    /\ stale \in [Turns -> SUBSET {"turn", "late turn", "world"}]

\* A turn whose player stays where he is never undoes a move another turn made, and
\* one that moves him moves him along a road from where it found him, which is where
\* he still is if no other turn of his committed meanwhile: however old its view of
\* the world and whatever the models answered.
OneStep ==
    [][\A t \in Turns :
         stage[t] = "applied" /\ stage'[t] = "resolved" =>
           IF place[t] = copy[t]
           THEN at' = at
           ELSE /\ at' = place[t] /\ <<copy[t], at'>> \in Road
                /\ "turn" \notin stale[t] => at = copy[t]]_vars

\* An item is used twice only by turns that overlap in the application itself: a use
\* that was committed while the models were asked is respected.
NotUsedAgain ==
    [][\A t \in Turns :
         stage[t] = "applied" /\ stage'[t] = "resolved" /\ "late turn" \notin stale[t] =>
           uses[t] \cap used = {}]_vars

\* While nothing changed under a turn, its application objects to nothing the review
\* let pass: the narration the player reads is what happened, except that an item
\* named twice is used once.  The fallback is not reviewed and passes as well.
AsReviewed ==
    \A t \in Turns :
        stage[t] = "applied" /\ stale[t] = {} =>
          \/ refused[t] = {}
          \/ refused[t] = {"item"} /\ \E i \in uses[t] : payload[t].items[i] > 1

\* The names that can be taken for no other place.
Plain(p) == {n \in Aliases(p) : \A a \in Similar(n) : Owners(a) = {p}}

\* Whom the models were told to be at a place: in the scene and at the end of each way,
\* or in the cards.
Shown(t, p) == met[t][p]
Referenced(t, p) == {q \in People : <<q, p>> \in cards[t]}
Known(t, p) == Shown(t, p) \cup Referenced(t, p)

\* A narration that repeats what the models were told: it stays, unless the player's
\* text wants him to go, or takes one of the ways, names only people who were said to
\* be where it ends, and uses items that were said to be usable.
Repeats(t, p) ==
    \E q \in {copy[t]} \cup exits[t] :
        /\ p.name \in Plain(q) \/ (p.name = None /\ q = copy[t])
        /\ q = copy[t] => goal[t] \notin exits[t]
        /\ p.people \cup p.called \subseteq Known(t, q)
        /\ Named(p) \subseteq bag[t]
        /\ ~p.leak

\* As long as nothing changed under a turn, the review objects to no narration that
\* repeats what the models were told: what _public_session_context shows, who the
\* planner's cards say is where, and what the harness looks up afterwards agree.
ToldIsAccepted ==
    \A t \in Turns :
        stage[t] \in {"review", "second review"} /\ stale[t] = {} /\ Repeats(t, payload[t]) =>
          DryRun(t, payload[t]) = {}
=============================================================================
