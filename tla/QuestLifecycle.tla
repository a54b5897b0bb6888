--------------------------- MODULE QuestLifecycle ---------------------------
(***************************************************************************)
(* The quests of one player.  The pack seeds an active quest; the game     *)
(* master's answer to a turn may resolve it, set it aside, take it up      *)
(* again, or propose a further quest.  A turn looks at the quests when it  *)
(* starts (what it saw decides whether a proposal is let through) and     *)
(* reads them again, one SELECT at a time, when minutes later it applies   *)
(* the answer: first the resolution, then the change of focus, then the    *)
(* proposals, then the scene, which settles what the current chapter is,   *)
(* in one transaction at READ COMMITTED.  An UPDATE waits for the row but  *)
(* writes what was decided before the wait.  The idle passes of the world  *)
(* scheduler, another process, frame the scene as well.                    *)
(*                                                                         *)
(* An UPDATE that changes only what is told of a row is here for its lock: *)
(* it leaves the status the row has when it gets it.  The row of the scene *)
(* frame is not: it is the last one a job writes.                          *)
(*                                                                         *)
(* Only what turns really call is here.  accept_quest, decline_quest and   *)
(* ignore_quest of apply_quest_lifecycle_action and the resolution hint    *)
(* have no caller, so no proposal ever becomes active, only the seeded     *)
(* quest has a chapter, and that chapter is its epilogue.                  *)
(***************************************************************************)
EXTENDS Naturals

CONSTANTS
    Jobs,       \* turns and idle passes under way at a time, each any number of times
    Turns,      \* those of them that may be turns of the player
    Passes,     \* those of them that may be idle passes of the world scheduler
    Starter     \* the quest that is active when a session starts

ASSUME QuestConstants ==
    /\ Turns \subseteq Jobs /\ Passes \subseteq Jobs
    /\ Starter \notin Jobs

\* The quest a turn proposes is named after the turn.
Quests == Jobs \cup {Starter}

VARIABLES
    status,     \* committed: QuestAssignment.status, "none" when there is no row
    items,      \* committed: reward items of the seeded quest
    epilogue,   \* committed: ChapterTrack.status of its epilogue, "none" without one
    stage,      \* where each turn is
    busy,       \* it saw a quest that was active or paused
    aftermath,  \* it saw the epilogue as the current chapter
    framed,     \* so it did when it came to the scene
    onto,       \* the offered quest its proposal is like
    needy,      \* it read that no reward had been issued
    draft,      \* rows it has written and not committed, "none" for the others
    prize,      \* it has written a reward item
    chapter,    \* the epilogue it has written and not committed, or "none"
    late        \* history: another one committed since this one began to apply

store == <<status, items, epilogue>>
sight == <<busy, aftermath, framed, onto>>
work == <<needy, draft, prize, chapter>>
vars == <<store, stage, sight, work, late>>

\* The statuses that keep a new quest away.
Live == {"offered", "active", "paused"}
Status == Live \cup {"none", "completed"}

\* Stages in which a turn applies its answer.
Tail == {"found", "touching", "granting", "retouching", "resolved", "leaving", "resuming",
         "directed", "merging", "following", "joining", "proposed", "framing", "closing",
         "reopening", "rewording", "applied"}
----------------------------------------------------------------------------
\* A transaction sees the committed rows and its own.
Seen(t, q) == IF draft[t][q] # "none" THEN draft[t][q] ELSE status[q]
Chapter(t) == IF chapter[t] # "none" THEN chapter[t] ELSE epilogue

\* A row that another transaction has written cannot be written before it ends.
Free(t, q) == \A u \in Jobs \ {t} : draft[u][q] = "none"
FreeChapter(t) == \A u \in Jobs \ {t} : chapter[u] = "none"

Init ==
    /\ status = [q \in Quests |-> IF q = Starter THEN "active" ELSE "none"]
    /\ items = 0
    /\ epilogue = "none"
    /\ stage = [t \in Jobs |-> "idle"]
    /\ busy = [t \in Jobs |-> FALSE]
    /\ aftermath = [t \in Jobs |-> FALSE]
    /\ framed = [t \in Jobs |-> FALSE]
    /\ onto = [t \in Jobs |-> Starter]
    /\ needy = [t \in Jobs |-> FALSE]
    /\ draft = [t \in Jobs |-> [q \in Quests |-> "none"]]
    /\ prize = [t \in Jobs |-> FALSE]
    /\ chapter = [t \in Jobs |-> "none"]
    /\ late = [t \in Jobs |-> FALSE]

\* Fault: a turn that is rolled back keeps its row locks.
ForgetButRows(t) ==
    /\ stage' = [stage EXCEPT ![t] = "idle"]
    /\ busy' = [busy EXCEPT ![t] = FALSE]
    /\ aftermath' = [aftermath EXCEPT ![t] = FALSE]
    /\ framed' = [framed EXCEPT ![t] = FALSE]
    /\ onto' = [onto EXCEPT ![t] = Starter]
    /\ needy' = [needy EXCEPT ![t] = FALSE]
    /\ prize' = [prize EXCEPT ![t] = FALSE]
    /\ chapter' = [chapter EXCEPT ![t] = "none"]
    /\ UNCHANGED draft

\* The end of a transaction: nothing of it is left but what it committed.
Forget(t) ==
    /\ stage' = [stage EXCEPT ![t] = "idle"]
    /\ busy' = [busy EXCEPT ![t] = FALSE]
    /\ aftermath' = [aftermath EXCEPT ![t] = FALSE]
    /\ framed' = [framed EXCEPT ![t] = FALSE]
    /\ onto' = [onto EXCEPT ![t] = Starter]
    /\ needy' = [needy EXCEPT ![t] = FALSE]
    /\ draft' = [draft EXCEPT ![t] = [q \in Quests |-> "none"]]
    /\ prize' = [prize EXCEPT ![t] = FALSE]
    /\ chapter' = [chapter EXCEPT ![t] = "none"]

RollBack(t) ==
    /\ Forget(t)
    /\ late' = [late EXCEPT ![t] = FALSE]
    /\ UNCHANGED store

Move(t, from, to) == stage[t] = from /\ stage' = [stage EXCEPT ![t] = to]
----------------------------------------------------------------------------
(* The session state, before the models are asked *)

LookAtQuests(t) ==
    /\ t \in Turns
    /\ Move(t, "idle", "looking")
    /\ busy' = [busy EXCEPT ![t] = \E q \in Quests : status[q] \in {"active", "paused"}]
    /\ UNCHANGED <<store, aftermath, framed, onto, work, late>>

LookAtChapter(t) ==
    /\ Move(t, "looking", "playing")
    /\ aftermath' = [aftermath EXCEPT ![t] = epilogue = "open"]
    /\ UNCHANGED <<store, busy, framed, onto, work, late>>
----------------------------------------------------------------------------
(* apply_active_quest_resolution *)

Resolvable(t) == Seen(t, Starter) = "active"

\* The answer says that the active quest is resolved, and there is one.
FindActive(t) ==
    /\ Move(t, "playing", "found")
    /\ Resolvable(t)
    /\ late' = [late EXCEPT ![t] = FALSE]
    /\ UNCHANGED <<store, sight, work>>

\* It says nothing of the kind, or there is none.
NoResolution(t) ==
    /\ Move(t, "playing", "resolved")
    /\ late' = [late EXCEPT ![t] = FALSE]
    /\ UNCHANGED <<store, sight, work>>

\* _open_epilogue_chapter_for_assignment takes an open epilogue or inserts one, always
\* under the same key: a closed one is in the way (uq_chapter_tracks_owner_key).
MayOpen == epilogue # "closed"

\* _issue_quest_reward_if_needed looks for a reward.  When there is one, the rows of the
\* quest and of its epilogue are written in one flush, whose order is the ORM's: either.
FindReward(t) ==
    /\ Move(t, "found", "granting") \/ (items # 0 /\ Move(t, "found", "touching"))
    /\ MayOpen
    /\ needy' = [needy EXCEPT ![t] = items = 0]
    /\ UNCHANGED <<store, sight, draft, prize, chapter, late>>

\* The UPDATE of the summary of an epilogue that is open already.
Touch(t) ==
    /\ Move(t, "touching", "granting") \/ Move(t, "retouching", "resolved")
    /\ FreeChapter(t)
    /\ chapter' = [chapter EXCEPT ![t] = Chapter(t)]
    /\ UNCHANGED <<store, sight, needy, draft, prize, late>>

\* An IntegrityError, which is not retried.
EpilogueTaken(t) ==
    /\ stage[t] = "found"
    /\ ~MayOpen
    /\ RollBack(t)

\* Fault: nothing keeps a second reward out of the table.
MayInsertAlways(t) == TRUE

\* uq_items_source_assignment: one item per assignment.
MayInsert(t) == needy[t] => items = 0

\* The UPDATE of the quest gets the row and the INSERT of the item does not meet
\* another one; the epilogue is inserted with the item.
Complete(t) ==
    /\ \/ (needy[t] \/ chapter[t] # "none") /\ Move(t, "granting", "resolved")
       \/ ~needy[t] /\ chapter[t] = "none" /\ Move(t, "granting", "retouching")
    /\ Free(t, Starter)
    /\ MayInsert(t)
    /\ draft' = [draft EXCEPT ![t][Starter] = "completed"]
    /\ prize' = [prize EXCEPT ![t] = needy[t]]
    /\ chapter' = [chapter EXCEPT ![t] = IF needy[t] THEN "open" ELSE @]
    /\ UNCHANGED <<store, sight, needy, late>>

\* The item is there by now: an IntegrityError as well.
RewardTaken(t) ==
    /\ stage[t] = "granting"
    /\ Free(t, Starter)
    /\ ~MayInsert(t)
    /\ RollBack(t)
----------------------------------------------------------------------------
(* apply_quest_lifecycle_directive *)

\* Fault: the quest is looked up in the session state of the turn.
LeavableFromState(t) == draft[t][Starter] = "none" /\ busy[t] /\ ~aftermath[t]

\* leave_quest: the active quest, unless the current chapter is an epilogue.
Leavable(t) == Seen(t, Starter) = "active" /\ Chapter(t) # "open"

FindLeave(t) ==
    /\ Move(t, "resolved", "leaving")
    /\ Leavable(t)
    /\ UNCHANGED <<store, sight, work, late>>

\* resume_quest: the quest that was paused last.
FindResume(t) ==
    /\ Move(t, "resolved", "resuming")
    /\ Seen(t, Starter) = "paused"
    /\ UNCHANGED <<store, sight, work, late>>

\* No directive, or nothing it could apply to.
NoDirective(t) ==
    /\ Move(t, "resolved", "directed")
    /\ UNCHANGED <<store, sight, work, late>>

Leave(t) ==
    /\ Move(t, "leaving", "directed")
    /\ Free(t, Starter)
    /\ draft' = [draft EXCEPT ![t][Starter] = "paused"]
    /\ UNCHANGED <<store, sight, needy, prize, chapter, late>>

Resume(t) ==
    /\ Move(t, "resuming", "directed")
    /\ Free(t, Starter)
    /\ draft' = [draft EXCEPT ![t][Starter] = "active"]
    /\ UNCHANGED <<store, sight, needy, prize, chapter, late>>
----------------------------------------------------------------------------
(* _evaluate_and_create_dynamic_quest_offers *)

\* A turn may make a proposal of its own and one that follows a quest.
After == [directed |-> "following", following |-> "proposed"]

\* The gate looks at the session state: a proposal of its own needs a player without
\* an active or paused quest, a follow-up the epilogue of the quest it follows.
Allowed(t) == IF stage[t] = "directed" THEN ~busy[t] ELSE aftermath[t]

\* The quest that is followed is still completed.
Followed(t) == stage[t] = "following" => Seen(t, Starter) = "completed"

\* Fault: only the session state is asked.
RoomAlways(t) == Seen(t, t) = "none"

\* create_dynamic_quest_offer looks at the rows: nothing is created beside a live one.
Room(t) == \A q \in Quests : Seen(t, q) \notin Live

Propose(t) ==
    /\ stage[t] \in DOMAIN After
    /\ Allowed(t) /\ Room(t) /\ Followed(t)
    /\ stage' = [stage EXCEPT ![t] = After[@]]
    /\ draft' = [draft EXCEPT ![t][t] = "offered"]
    /\ UNCHANGED <<store, sight, needy, prize, chapter, late>>

\* A proposal that is like an offered quest, if less so than the gate minds, is merged
\* into its row (_merge_dynamic_quest_offer).
FindSimilar(t, q) ==
    /\ stage[t] \in DOMAIN After
    /\ Allowed(t)
    /\ Seen(t, q) = "offered"
    /\ stage' = [stage EXCEPT ![t] = IF @ = "directed" THEN "merging" ELSE "joining"]
    /\ onto' = [onto EXCEPT ![t] = q]
    /\ UNCHANGED <<store, busy, aftermath, framed, work, late>>

\* The UPDATE leaves the status as it is.
Merge(t) ==
    /\ stage[t] \in {"merging", "joining"}
    /\ Free(t, onto[t])
    /\ stage' = [stage EXCEPT ![t] = IF @ = "merging" THEN "following" ELSE "proposed"]
    /\ draft' = [draft EXCEPT ![t][onto[t]] = "offered"]
    /\ onto' = [onto EXCEPT ![t] = Starter]
    /\ UNCHANGED <<store, busy, aftermath, framed, needy, prize, chapter, late>>

\* No proposal, or one that is refused.
NoProposal(t) ==
    /\ stage[t] \in DOMAIN After
    /\ stage' = [stage EXCEPT ![t] = After[@]]
    /\ UNCHANGED <<store, sight, work, late>>
----------------------------------------------------------------------------
(* apply_scene_updates *)

\* Fault: the scene is framed with the session state of the start of the turn.
LookAtOldScene(t) ==
    /\ Move(t, "proposed", "framing")
    /\ framed' = [framed EXCEPT ![t] = aftermath[t]]
    /\ UNCHANGED <<store, busy, aftermath, onto, work, late>>

\* The session state is built anew for the scene, and the old one is of no more use.
LookAtScene(t) ==
    /\ Move(t, "proposed", "framing")
    /\ busy' = [busy EXCEPT ![t] = FALSE]
    /\ aftermath' = [aftermath EXCEPT ![t] = FALSE]
    /\ framed' = [framed EXCEPT ![t] = Chapter(t) = "open"]
    /\ UNCHANGED <<store, onto, work, late>>

\* An idle pass looks at the world, asks the models and frames the scene.
LookAtWorld(t) ==
    /\ t \in Passes
    /\ Move(t, "idle", "framing")
    /\ framed' = [framed EXCEPT ![t] = epilogue = "open"]
    /\ late' = [late EXCEPT ![t] = FALSE]
    /\ UNCHANGED <<store, busy, aftermath, onto, work>>

\* The current chapter is not the one the state has: it is to be resolved.
FindOther(t) ==
    /\ Move(t, "framing", "closing")
    /\ ~framed[t] /\ Chapter(t) = "open"
    /\ UNCHANGED <<store, sight, work, late>>

\* The chapter the state has is not active: it is to be.
FindResolved(t) ==
    /\ Move(t, "framing", "reopening")
    /\ framed[t] /\ Chapter(t) = "closed"
    /\ UNCHANGED <<store, sight, work, late>>

\* The chapter the state has is the current one and tells the same, or there is none.
KeepChapter(t) ==
    /\ Move(t, "framing", "applied")
    /\ framed[t] <=> Chapter(t) = "open"
    /\ UNCHANGED <<store, sight, work, late>>

\* It is the current one, and its summary is another one by now.
FindReworded(t) ==
    /\ Move(t, "framing", "rewording")
    /\ framed[t] /\ Chapter(t) = "open"
    /\ UNCHANGED <<store, sight, work, late>>

\* The UPDATE writes the summary, the status is that of the row.
RewordChapter(t) ==
    /\ Move(t, "rewording", "applied")
    /\ FreeChapter(t)
    /\ chapter' = [chapter EXCEPT ![t] = Chapter(t)]
    /\ UNCHANGED <<store, sight, needy, draft, prize, late>>

CloseChapter(t) ==
    /\ Move(t, "closing", "applied")
    /\ FreeChapter(t)
    /\ chapter' = [chapter EXCEPT ![t] = "closed"]
    /\ UNCHANGED <<store, sight, needy, draft, prize, late>>

ReopenChapter(t) ==
    /\ Move(t, "reopening", "applied")
    /\ FreeChapter(t)
    /\ chapter' = [chapter EXCEPT ![t] = "open"]
    /\ UNCHANGED <<store, sight, needy, draft, prize, late>>
----------------------------------------------------------------------------
Commit(t) ==
    /\ stage[t] = "applied"
    /\ status' = [q \in Quests |-> Seen(t, q)]
    /\ items' = items + (IF prize[t] THEN 1 ELSE 0)
    /\ epilogue' = Chapter(t)
    /\ late' = [u \in Jobs |-> IF u = t THEN FALSE ELSE late[u] \/ stage[u] \in Tail]
    /\ Forget(t)

\* Anything fails, or the server stops: the transaction is rolled back.
Abort(t) ==
    /\ stage[t] # "idle"
    /\ RollBack(t)

Step(t) ==
    \/ LookAtChapter(t)
    \/ FindActive(t) \/ NoResolution(t) \/ FindReward(t) \/ EpilogueTaken(t)
    \/ Touch(t) \/ Complete(t) \/ RewardTaken(t)
    \/ FindLeave(t) \/ FindResume(t) \/ NoDirective(t) \/ Leave(t) \/ Resume(t)
    \/ Propose(t) \/ (\E q \in Quests : FindSimilar(t, q)) \/ Merge(t) \/ NoProposal(t)
    \/ LookAtScene(t) \/ FindOther(t) \/ FindResolved(t) \/ KeepChapter(t) \/ FindReworded(t)
    \/ CloseChapter(t) \/ ReopenChapter(t) \/ RewordChapter(t)
    \/ Commit(t)

Next == \E t \in Jobs : LookAtQuests(t) \/ LookAtWorld(t) \/ Step(t) \/ Abort(t)

Spec == Init /\ [][Next]_vars
----------------------------------------------------------------------------
(* Properties *)

TypeOK ==
    /\ status \in [Quests -> Status]
    /\ items \in Nat
    /\ epilogue \in {"none", "open", "closed"}
    /\ stage \in [Jobs -> {"idle", "looking", "playing"} \cup Tail]
    /\ busy \in [Jobs -> BOOLEAN]
    /\ aftermath \in [Jobs -> BOOLEAN]
    /\ framed \in [Jobs -> BOOLEAN]
    /\ onto \in [Jobs -> Quests]
    /\ needy \in [Jobs -> BOOLEAN]
    /\ draft \in [Jobs -> [Quests -> Status]]
    /\ prize \in [Jobs -> BOOLEAN]
    /\ chapter \in [Jobs -> {"none", "open", "closed"}]
    /\ late \in [Jobs -> BOOLEAN]

\* A job that waits for a row another one has written.
WaitsFor(t, u) ==
    /\ u # t
    /\ \/ stage[t] \in {"granting", "leaving", "resuming"} /\ draft[u][Starter] # "none"
       \/ stage[t] \in {"merging", "joining"} /\ draft[u][onto[t]] # "none"
       \/ stage[t] \in {"touching", "retouching", "closing", "reopening", "rewording"}
             /\ chapter[u] # "none"

\* A turn that resolves a reopened quest has written the epilogue that was there, and has
\* rows to write yet that the others take first.
Again(t) == chapter[t] # "none" /\ ~prize[t] /\ stage[t] # "applied"

\* However turns overlap, fail and reopen it, a quest is rewarded once: it has one
\* item and an epilogue from the moment it is completed first, and neither before.
Settled ==
    /\ items \in {0, 1}
    /\ items = 1 <=> epilogue # "none"
    /\ status[Starter] = "completed" => items = 1

\* A resolved quest is taken back only by a turn that applied its answer while
\* another one committed.  That it looked at the quests minutes before, when the
\* quest was active, does no harm.
ReopenedLate ==
    [][\A t \in Jobs :
         /\ stage[t] = "applied" /\ stage'[t] = "idle"
         /\ status[Starter] = "completed" /\ status'[Starter] # "completed"
         => late[t]]_vars

\* A second quest goes live beside another one only by a turn that applied its
\* answer while another one committed.
OneLive ==
    [][\A t \in Jobs, p, q \in Quests :
         /\ stage[t] = "applied" /\ stage'[t] = "idle"
         /\ p # q /\ status'[p] \in Live /\ status'[q] \in Live
         => late[t] \/ {status[p], status[q]} \subseteq Live]_vars

\* An epilogue is closed only by a turn that applied its answer, or an idle pass that
\* ran, while another one committed: no turn closes the epilogue it opened itself.
ClosedLate ==
    [][\A t \in Jobs :
         /\ stage[t] = "applied" /\ stage'[t] = "idle"
         /\ epilogue # "closed" /\ epilogue' = "closed"
         => late[t]]_vars

\* Jobs wait for each other's rows, the seeded quest's before an offered one's and that
\* before the chapter's, so of any jobs one waits for none of them, and for no job that is
\* over.  The exceptions (PostgreSQL then aborts one of the jobs) are a turn that resolves
\* a quest again, which has the row of its epilogue before the others, and, where two
\* quests are offered, two turns that merge two proposals each in opposite order.
NobodyStuck ==
    (\A p, q \in Quests : status[p] = "offered" /\ status[q] = "offered" => p = q)
    => \A waiting \in SUBSET {t \in Jobs : stage[t] # "idle" /\ ~Again(t)} :
          waiting # {} =>
             \E t \in waiting : \A u \in Jobs :
                WaitsFor(t, u) => u \notin waiting /\ stage[u] # "idle"
=============================================================================
