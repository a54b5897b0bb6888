------------------------ MODULE QuestLifecycleProofs ------------------------
(***************************************************************************)
(* QuestLifecycle for any number of turns and idle passes that overlap.     *)
(***************************************************************************)
EXTENDS QuestLifecycle, TLAPS

\* Stages after the proposals.
Framing == {"proposed", "framing", "closing", "reopening", "rewording", "applied"}

Proposing == {"merging", "following", "joining"}

\* Stages in which a job writes the chapter's row next.
AtChapter == {"touching", "retouching", "closing", "reopening", "rewording"}

\* Only the seeded quest is ever more than offered.
Offered ==
    /\ status[Starter] # "offered"
    /\ \A q \in Jobs : status[q] \in {"none", "offered"}

\* The rows a turn may have written, stage by stage: besides the seeded quest's, its own
\* proposal and those it has merged one into.
Rows(t) ==
    /\ \A q \in Jobs : draft[t][q] \in {"none", "offered"}
    /\ \A q \in Jobs \ {t} : draft[t][q] = "offered" => status[q] = "offered"
    /\ stage[t] \notin {"following", "joining"} \cup Framing => \A q \in Jobs : draft[t][q] = "none"
    /\ draft[t][Starter] # "offered"
    /\ stage[t] \notin {"retouching", "resolved", "directed"} \cup Proposing \cup Framing =>
          draft[t][Starter] = "none"
    /\ stage[t] = "retouching" => draft[t][Starter] = "completed"
    /\ stage[t] = "resolved" => draft[t][Starter] \in {"none", "completed"}
    /\ stage[t] \in {"merging", "joining"} =>
          /\ onto[t] \in Jobs
          /\ onto[t] # t \/ draft[t][t] = "none" => status[onto[t]] = "offered"

\* A completion brings the reward and the epilogue, or finds both in the store.
Paid(t) ==
    /\ prize[t] => items = 0 /\ draft[t][Starter] = "completed" /\ chapter[t] # "none"
    /\ chapter[t] # "none" /\ ~prize[t] => items = 1
    /\ stage[t] \in AtChapter /\ ~prize[t] => items = 1
    /\ chapter[t] # "none" =>
          stage[t] \in {"granting", "applied"} \/ draft[t][Starter] = "completed"
    /\ draft[t][Starter] = "completed" => items = 1 \/ prize[t]
    /\ stage[t] = "granting" /\ needy[t] => chapter[t] = "none"
    /\ stage[t] = "touching" => ~needy[t]
    /\ stage[t] = "granting" /\ ~needy[t] => items = 1

\* As long as no other turn has committed, what was read is true.
Fresh(t) ==
    stage[t] \in Tail /\ ~late[t] =>
        /\ stage[t] \in {"found", "touching", "granting", "leaving"} => status[Starter] = "active"
        /\ stage[t] = "resuming" => status[Starter] = "paused"
        /\ draft[t][Starter] \in {"completed", "paused"} => status[Starter] = "active"
        /\ draft[t][Starter] = "active" => status[Starter] = "paused"
        /\ draft[t][t] = "offered" =>
              status[t] = "offered" \/ \A q \in Quests \ {t} : Seen(t, q) \notin Live
        /\ stage[t] = "framing" => (framed[t] <=> Chapter(t) = "open")
        /\ stage[t] \notin {"closing", "reopening"}
        /\ stage[t] \in {"touching", "retouching", "granting", "rewording"} => Chapter(t) # "closed"
        /\ chapter[t] # "closed"

TInv(t) == Rows(t) /\ Paid(t) /\ Fresh(t)

\* One transaction at a time has written a quest's row.
Alone == \A t, u \in Jobs, q \in Quests : t # u => draft[t][q] = "none" \/ draft[u][q] = "none"

\* And one the chapter's.
OneAuthor == \A t, u \in Jobs : t # u => chapter[t] = "none" \/ chapter[u] = "none"

Sound == Settled /\ Offered /\ Alone /\ OneAuthor

IInv == TypeOK /\ Sound /\ \A t \in Jobs : TInv(t)

USE QuestConstants DEF Quests
----------------------------------------------------------------------------
(* Types *)

\* One proposal after the other.
LEMMA AfterProposal ==
    /\ DOMAIN After = {"directed", "following"}
    /\ After["directed"] = "following" /\ After["following"] = "proposed"
BY DEF After

LEMMA QuestTypeStep == TypeOK /\ [Next]_vars => TypeOK'
<1>. SUFFICES ASSUME TypeOK, [Next]_vars
              PROVE  TypeOK'
    OBVIOUS
<1>. USE DEF TypeOK, vars, store, sight, work, Move, Tail
<1>. {"none", "offered", "active", "paused", "completed"} \subseteq Status
    BY DEF Status, Live
<1>1. ASSUME NEW t \in Jobs, LookAtQuests(t)
      PROVE  TypeOK'
    BY <1>1 DEF LookAtQuests
<1>2. ASSUME NEW t \in Jobs, LookAtChapter(t)
      PROVE  TypeOK'
    BY <1>2 DEF LookAtChapter
<1>3. ASSUME NEW t \in Jobs, FindActive(t) \/ NoResolution(t)
      PROVE  TypeOK'
    BY <1>3 DEF FindActive, NoResolution
<1>13. ASSUME NEW t \in Jobs, LookAtScene(t)
       PROVE  TypeOK'
    BY <1>13 DEF LookAtScene
<1>14. ASSUME NEW t \in Jobs, FindOther(t) \/ FindResolved(t) \/ KeepChapter(t) \/ FindReworded(t)
       PROVE  TypeOK'
    BY <1>14 DEF FindOther, FindResolved, KeepChapter, FindReworded
<1>16. ASSUME NEW t \in Jobs, LookAtWorld(t)
       PROVE  TypeOK'
    BY <1>16 DEF LookAtWorld
<1>15. ASSUME NEW t \in Jobs, CloseChapter(t) \/ ReopenChapter(t)
       PROVE  TypeOK'
    BY <1>15 DEF CloseChapter, ReopenChapter
<1>20. ASSUME NEW t \in Jobs, Touch(t) \/ RewordChapter(t)
       PROVE  TypeOK'
  <2>1. PICK s \in {"granting", "resolved", "applied"} : stage' = [stage EXCEPT ![t] = s]
      BY <1>20 DEF Touch, RewordChapter
  <2>2. stage' \in [Jobs -> {"idle", "looking", "playing"} \cup Tail]
      BY <2>1
  <2>3. PICK c \in {"none", "open", "closed"} : chapter' = [chapter EXCEPT ![t] = c]
      BY <1>20 DEF Touch, RewordChapter, Chapter
  <2>4. chapter' \in [Jobs -> {"none", "open", "closed"}]
      BY <2>3
  <2>. QED
      BY <1>20, <2>2, <2>4 DEF Touch, RewordChapter
<1>4. ASSUME NEW t \in Jobs, FindReward(t)
      PROVE  TypeOK'
    BY <1>4 DEF FindReward
<1>5. ASSUME NEW t \in Jobs, Complete(t)
      PROVE  TypeOK'
    BY <1>5 DEF Complete
<1>6. ASSUME NEW t \in Jobs, RewardTaken(t) \/ EpilogueTaken(t)
      PROVE  TypeOK'
  <2>1. CASE RewardTaken(t)
      BY <2>1 DEF RewardTaken, RollBack, Forget
  <2>2. CASE EpilogueTaken(t)
      BY <2>2 DEF EpilogueTaken, RollBack, Forget
  <2>. QED
      BY <1>6, <2>1, <2>2
<1>7. ASSUME NEW t \in Jobs, FindLeave(t) \/ FindResume(t) \/ NoDirective(t)
      PROVE  TypeOK'
    BY <1>7 DEF FindLeave, FindResume, NoDirective
<1>19. ASSUME NEW t \in Jobs, NoProposal(t)
       PROVE  TypeOK'
  <2>1. After[stage[t]] \in {"following", "proposed"}
      BY <1>19, AfterProposal DEF NoProposal
  <2>. QED
      BY <1>19, <2>1 DEF NoProposal
<1>8. ASSUME NEW t \in Jobs, Leave(t) \/ Resume(t)
      PROVE  TypeOK'
  <2>1. CASE Leave(t)
      BY <2>1 DEF Leave
  <2>2. CASE Resume(t)
      BY <2>2 DEF Resume
  <2>. QED
      BY <1>8, <2>1, <2>2
<1>9. ASSUME NEW t \in Jobs, Propose(t)
      PROVE  TypeOK'
    BY <1>9, AfterProposal DEF Propose
<1>17. ASSUME NEW t \in Jobs, NEW q \in Quests, FindSimilar(t, q)
       PROVE  TypeOK'
    BY <1>17 DEF FindSimilar
<1>18. ASSUME NEW t \in Jobs, Merge(t)
       PROVE  TypeOK'
    BY <1>18 DEF Merge
<1>10. ASSUME NEW t \in Jobs, Commit(t)
       PROVE  TypeOK'
  <2>1. status' \in [Quests -> Status]
      BY <1>10 DEF Commit, Seen
  <2>2. items' \in Nat /\ epilogue' \in {"none", "open", "closed"}
      BY <1>10 DEF Commit, Chapter
  <2>3. draft' \in [Jobs -> [Quests -> Status]]
      BY <1>10 DEF Commit, Forget
  <2>. QED
      BY <1>10, <2>1, <2>2, <2>3 DEF Commit, Forget
<1>11. ASSUME NEW t \in Jobs, Abort(t)
       PROVE  TypeOK'
    BY <1>11 DEF Abort, RollBack, Forget
<1>12. CASE UNCHANGED vars
    BY <1>12
<1>. QED
    BY <1>1, <1>2, <1>3, <1>4, <1>5, <1>6, <1>7, <1>8, <1>9, <1>10, <1>11, <1>12, <1>13,
       <1>14, <1>15, <1>16, <1>17, <1>18, <1>19, <1>20 DEF Next, Step

LEMMA QuestTypeInit == Init => TypeOK
BY DEF Init, TypeOK, Status, Live

\* Every variable keeps its range.
THEOREM QuestTypeOK == Spec => []TypeOK
BY QuestTypeInit, QuestTypeStep, PTL DEF Spec
----------------------------------------------------------------------------
(* The inductive invariant *)

\* A step of one turn that writes nothing to the store leaves what holds of the
\* others alone.
LEMMA OthersKeep ==
    ASSUME IInv, NEW t \in Jobs, NEW u \in Jobs, u # t, UNCHANGED store,
           stage'[u] = stage[u], needy'[u] = needy[u], draft'[u] = draft[u],
           prize'[u] = prize[u], chapter'[u] = chapter[u], late'[u] = late[u],
           framed'[u] = framed[u], onto'[u] = onto[u]
    PROVE  TInv(u)'
BY DEF IInv, TInv, Rows, Paid, Fresh, Seen, Chapter, store

LEMMA QuestInvInit == Init => IInv
BY QuestTypeInit DEF Init, IInv, Sound, Settled, Offered, Alone, OneAuthor, TInv, Rows, Paid, Fresh, Tail,
                         Framing, AtChapter

\* The steps that read, or decide that there is nothing to do.
LEMMA ReadingKeeps ==
    ASSUME IInv, NEW t \in Jobs,
           \/ LookAtQuests(t) \/ LookAtChapter(t)
           \/ FindActive(t) \/ NoResolution(t) \/ FindReward(t)
           \/ FindLeave(t) \/ FindResume(t) \/ NoDirective(t)
    PROVE  Sound' /\ \A u \in Jobs : TInv(u)'
<1>. USE DEF LookAtQuests, LookAtChapter, FindActive, NoResolution, FindReward,
             FindLeave, FindResume, NoDirective, Move, store, sight, work, IInv, TypeOK
<1>1. Sound'
    BY DEF Sound, Settled, Offered, Alone, OneAuthor
<1>2. ASSUME NEW u \in Jobs, u # t
      PROVE  TInv(u)'
    BY <1>2, OthersKeep
<1>3. TInv(t)
    OBVIOUS
<1>0. /\ draft' = draft
      /\ stage'[t] \in {"looking", "playing", "found", "touching", "granting", "resolved", "leaving",
                         "resuming"} => draft[t][Starter] = "none"
      /\ stage[t] \notin Framing \cup Proposing
  <2>1. stage[t] # "resolved" => draft[t][Starter] = "none"
      BY <1>3 DEF TInv, Rows, Framing, Proposing
  <2>2. FindLeave(t) \/ FindResume(t) => draft[t][Starter] = "none"
      BY <1>3 DEF TInv, Rows, Seen, Leavable
  <2>. QED
      BY <2>1, <2>2 DEF Framing, Proposing
<1>4. Rows(t)'
    BY <1>3, <1>0 DEF TInv, Rows, Framing, Proposing
<1>5. Paid(t)'
  <2>1. stage[t] \notin {"granting", "applied"} /\ stage'[t] \notin AtChapter \ {"touching"}
      BY DEF AtChapter
  <2>2. prize' = prize /\ chapter' = chapter /\ items' = items /\ draft' = draft
      OBVIOUS
  <2>3. stage'[t] \in {"granting", "touching"} => (needy'[t] <=> items = 0) /\ chapter[t] = "none"
      BY <1>0, <1>3, <2>1 DEF TInv, Paid
  <2>4. stage'[t] = "touching" => items # 0
      OBVIOUS
  <2>. QED
      BY <1>3, <2>1, <2>2, <2>3, <2>4 DEF TInv, Paid, Sound, Settled
<1>6. Fresh(t)'
    BY <1>3, <1>0 DEF TInv, Rows, Fresh, Tail, Framing, Proposing, Seen, Resolvable, Leavable, Paid,
                      MayOpen, Chapter
<1>. QED
    BY <1>1, <1>2, <1>4, <1>5, <1>6 DEF TInv

LEMMA CompletingKeeps ==
    ASSUME IInv, NEW t \in Jobs, Complete(t)
    PROVE  Sound' /\ \A u \in Jobs : TInv(u)'
<1>. USE DEF Complete, Move, store, sight, IInv, TypeOK
<1>1. Sound'
  <2>1. Settled' /\ Offered'
      BY DEF Sound, Settled, Offered
  <2>2. \A u \in Jobs \ {t} : draft'[u] = draft[u] /\ draft[u][Starter] = "none"
      BY DEF Free
  <2>3. \A q \in Jobs : draft'[t][q] = draft[t][q]
      OBVIOUS
  <2>4. Alone'
      BY <2>2, <2>3, Quests = Jobs \cup {Starter} DEF Sound, Alone
  <2>5. ASSUME NEW u \in Jobs \ {t}, needy[t]
        PROVE  chapter[u] = "none"
    <3>1. Paid(u) /\ items = 0
        BY <2>5 DEF TInv, MayInsert
    <3>. QED
        BY <2>2, <3>1 DEF Paid
  <2>6. OneAuthor'
      BY <2>5 DEF Sound, OneAuthor
  <2>. QED
      BY <2>1, <2>4, <2>6 DEF Sound
<1>2. ASSUME NEW u \in Jobs, u # t
      PROVE  TInv(u)'
    BY <1>2, OthersKeep
<1>3. TInv(t)
    OBVIOUS
<1>4. Rows(t)'
    BY <1>3 DEF TInv, Rows, Framing, Proposing
<1>5. Paid(t)'
    BY <1>3 DEF TInv, Paid, Rows, Sound, Settled, MayInsert, AtChapter
<1>6. Fresh(t)'
    BY <1>3 DEF TInv, Rows, Fresh, Tail, Framing, Seen, Chapter
<1>. QED
    BY <1>1, <1>2, <1>4, <1>5, <1>6 DEF TInv

\* An epilogue that was there is told anew.
LEMMA TouchingKeeps ==
    ASSUME IInv, NEW t \in Jobs, Touch(t)
    PROVE  Sound' /\ \A u \in Jobs : TInv(u)'
<1>. USE DEF Touch, Move, store, sight, IInv, TypeOK
<1>1. Sound'
  <2>1. Settled' /\ Offered' /\ Alone'
      BY DEF Sound, Settled, Offered, Alone
  <2>2. \A u \in Jobs \ {t} : chapter'[u] = chapter[u] /\ chapter[u] = "none"
      BY DEF FreeChapter
  <2>. QED
      BY <2>1, <2>2 DEF Sound, OneAuthor
<1>2. ASSUME NEW u \in Jobs, u # t
      PROVE  TInv(u)'
    BY <1>2, OthersKeep
<1>3. TInv(t)
    OBVIOUS
<1>4. Rows(t)'
    BY <1>3 DEF TInv, Rows, Framing, Proposing
<1>5. Paid(t)'
  <2>1. items' = items /\ prize' = prize /\ draft' = draft /\ needy' = needy
      OBVIOUS
  <2>2. chapter'[t] = Chapter(t) /\ (chapter[t] # "none" => Chapter(t) # "none")
      BY DEF Chapter
  <2>3. stage[t] \in AtChapter /\ stage'[t] \notin AtChapter \cup {"applied"}
      BY DEF AtChapter
  <2>4. stage[t] = "touching" => ~prize[t] /\ ~needy[t]
      BY <1>3 DEF TInv, Paid, Rows, Framing, Proposing
  <2>5. stage'[t] # "granting" => draft[t][Starter] = "completed"
      BY <1>3 DEF TInv, Rows
  <2>. QED
      BY <1>3, <2>1, <2>2, <2>3, <2>4, <2>5 DEF TInv, Paid
<1>6. Fresh(t)'
    BY <1>3 DEF TInv, Rows, Fresh, Tail, Framing, Proposing, Seen, Chapter
<1>. QED
    BY <1>1, <1>2, <1>4, <1>5, <1>6 DEF TInv

LEMMA TurningKeeps ==
    ASSUME IInv, NEW t \in Jobs, Leave(t) \/ Resume(t)
    PROVE  Sound' /\ \A u \in Jobs : TInv(u)'
<1>. USE DEF Leave, Resume, Move, store, sight, IInv, TypeOK
<1>1. Sound'
  <2>1. Settled' /\ Offered'
      BY DEF Sound, Settled, Offered
  <2>2. \A u \in Jobs \ {t} : draft'[u] = draft[u] /\ draft[u][Starter] = "none"
      BY DEF Free
  <2>3. \A q \in Jobs : draft'[t][q] = draft[t][q]
      OBVIOUS
  <2>4. ASSUME NEW u \in Jobs, NEW w \in Jobs, NEW q \in Quests, u # w
        PROVE  draft'[u][q] = "none" \/ draft'[w][q] = "none"
    <3>1. CASE q = Starter
        BY <2>2, <2>4, <3>1
    <3>2. CASE q \in Jobs
      <4>1. draft'[u][q] = draft[u][q] /\ draft'[w][q] = draft[w][q]
          BY <2>2, <2>3, <3>2
      <4>. QED
          BY <2>4, <4>1 DEF Sound, Alone
    <3>. QED
        BY <3>1, <3>2
  <2>. QED
      BY <2>1, <2>4 DEF Sound, Alone, OneAuthor
<1>2. ASSUME NEW u \in Jobs, u # t
      PROVE  TInv(u)'
    BY <1>2, OthersKeep
<1>3. TInv(t)
    OBVIOUS
<1>4. Rows(t)'
    BY <1>3 DEF TInv, Rows, Framing, Proposing
<1>5. Paid(t)'
    BY <1>3 DEF TInv, Paid, AtChapter, Rows, Framing, Proposing
<1>6. Fresh(t)'
    BY <1>3 DEF TInv, Rows, Fresh, Tail, Framing, Proposing, Seen, Chapter
<1>. QED
    BY <1>1, <1>2, <1>4, <1>5, <1>6 DEF TInv

\* No proposal, or one that is found to be like another.
LEMMA SearchingKeeps ==
    ASSUME IInv, NEW t \in Jobs, NoProposal(t) \/ \E q \in Quests : FindSimilar(t, q)
    PROVE  Sound' /\ \A u \in Jobs : TInv(u)'
<1>. USE AfterProposal DEF NoProposal, FindSimilar, store, sight, work, IInv, TypeOK
<1>1. Sound'
    BY DEF Sound, Settled, Offered, Alone, OneAuthor
<1>2. ASSUME NEW u \in Jobs, u # t
      PROVE  TInv(u)'
    BY <1>2, OthersKeep
<1>3. TInv(t)
    OBVIOUS
<1>4. Rows(t)'
  <2>1. CASE NoProposal(t)
    <3>1. \/ stage[t] = "directed" /\ stage'[t] = "following"
          \/ stage[t] = "following" /\ stage'[t] = "proposed"
        BY <2>1
    <3>. QED
        BY <1>3, <2>1, <3>1 DEF TInv, Rows, Framing, Proposing
  <2>2. ASSUME NEW q \in Quests, FindSimilar(t, q)
        PROVE  Rows(t)'
    <3>1. q \in Jobs /\ (q # t \/ draft[t][t] = "none" => status[q] = "offered")
        BY <1>3, <2>2 DEF TInv, Rows, Sound, Offered, Seen
    <3>. QED
        BY <1>3, <2>2, <3>1 DEF TInv, Rows, Framing, Proposing
  <2>. QED
      BY <2>1, <2>2
<1>5. Paid(t)'
    BY <1>3 DEF TInv, Paid, AtChapter
<1>6. Fresh(t)'
    BY <1>3 DEF TInv, Fresh, Tail, Seen, Chapter
<1>. QED
    BY <1>1, <1>2, <1>4, <1>5, <1>6 DEF TInv

\* A new quest is proposed beside none that is live.
LEMMA ProposingKeeps ==
    ASSUME IInv, NEW t \in Jobs, Propose(t)
    PROVE  Sound' /\ \A u \in Jobs : TInv(u)'
<1>. USE AfterProposal DEF Propose, store, sight, IInv, TypeOK
<1>0. /\ \A u \in Jobs \ {t} : draft'[u] = draft[u]
      /\ \A q \in Quests \ {t} : draft'[t][q] = draft[t][q]
      /\ draft'[t][t] = "offered"
    OBVIOUS
<1>1. Sound'
  <2>1. Settled' /\ Offered'
      BY DEF Sound, Settled, Offered
  <2>2. status[t] # "offered" /\ draft[t][t] = "none"
      BY DEF Room, Seen, Live, TInv, Rows
  <2>3. ASSUME NEW u \in Jobs, u # t
        PROVE  draft[u][t] = "none"
      BY <2>2, <2>3 DEF TInv, Rows
  <2>4. Alone'
      BY <1>0, <2>3 DEF Sound, Alone
  <2>. QED
      BY <2>1, <2>4 DEF Sound, OneAuthor
<1>2. ASSUME NEW u \in Jobs, u # t
      PROVE  TInv(u)'
    BY <1>2, OthersKeep
<1>3. TInv(t)
    OBVIOUS
<1>4. Rows(t)'
    BY <1>0, <1>3 DEF TInv, Rows, Framing, Proposing
<1>5. Paid(t)'
    BY <1>0, <1>3 DEF TInv, Paid, AtChapter
<1>6. Fresh(t)'
    BY <1>0, <1>3 DEF TInv, Fresh, Tail, Room, Seen, Chapter
<1>. QED
    BY <1>1, <1>2, <1>4, <1>5, <1>6 DEF TInv

\* One that is merged into an offered quest leaves it offered.
LEMMA MergingKeeps ==
    ASSUME IInv, NEW t \in Jobs, Merge(t)
    PROVE  Sound' /\ \A u \in Jobs : TInv(u)'
<1>. USE DEF Merge, store, sight, IInv, TypeOK
<1>. DEFINE o == onto[t]
<1>3. TInv(t)
    OBVIOUS
<1>0. /\ o \in Jobs
      /\ o # t \/ draft[t][t] = "none" => status[o] = "offered"
      /\ \A u \in Jobs \ {t} : draft'[u] = draft[u] /\ draft[u][o] = "none"
      /\ \A q \in Quests \ {o} : draft'[t][q] = draft[t][q]
      /\ draft'[t][o] = "offered"
    BY <1>3 DEF TInv, Rows, Free
<1>. HIDE DEF o
<1>1. Sound'
  <2>1. Settled' /\ Offered'
      BY DEF Sound, Settled, Offered
  <2>2. ASSUME NEW u \in Jobs, NEW w \in Jobs, NEW q \in Quests, u # w
        PROVE  draft'[u][q] = "none" \/ draft'[w][q] = "none"
    <3>1. draft[u][q] = "none" \/ draft[w][q] = "none"
        BY <2>2 DEF Sound, Alone
    <3>2. CASE q = o
        BY <1>0, <2>2, <3>2
    <3>3. CASE q # o
      <4>1. draft'[u][q] = draft[u][q] /\ draft'[w][q] = draft[w][q]
          BY <1>0, <3>3
      <4>. QED
          BY <3>1, <4>1
    <3>. QED
        BY <3>2, <3>3
  <2>3. Alone'
      BY <2>2 DEF Alone
  <2>. QED
      BY <2>1, <2>3 DEF Sound, OneAuthor
<1>2. ASSUME NEW u \in Jobs, u # t
      PROVE  TInv(u)'
    BY <1>2, OthersKeep
<1>4. Rows(t)'
    BY <1>0, <1>3 DEF TInv, Rows, Framing, Proposing
<1>5. Paid(t)'
    BY <1>0, <1>3 DEF TInv, Paid, AtChapter
<1>6. Fresh(t)'
  <2>. SUFFICES ASSUME ~late[t]
                PROVE  Fresh(t)'
      BY DEF Fresh
  <2>1. Fresh(t) /\ stage[t] \in Tail
      BY <1>3 DEF TInv, Tail
  <2>2. \A q \in Quests \ {o} : Seen(t, q)' = Seen(t, q)
      BY <1>0 DEF Seen
  <2>3. status[o] = "offered" => Seen(t, o) \in Live
      BY <1>0, <1>3 DEF TInv, Rows, Seen, Live
  <2>4. draft'[t][t] = "offered" =>
            status[t] = "offered" \/ \A q \in Quests \ {t} : Seen(t, q)' \notin Live
    <3>1. CASE o = t /\ draft[t][t] = "offered"
      <4>1. status[t] = "offered" \/ \A q \in Quests \ {t} : Seen(t, q) \notin Live
          BY <2>1, <3>1 DEF Fresh
      <4>. QED
          BY <2>2, <3>1, <4>1
    <3>3. CASE o = t /\ draft[t][t] # "offered"
      <4>1. draft[t][t] = "none"
          BY <1>3, <3>3 DEF TInv, Rows
      <4>. QED
          BY <1>0, <3>3, <4>1
    <3>2. CASE o # t
        BY <1>0, <2>1, <2>3, <3>2 DEF Fresh
    <3>. QED
        BY <3>1, <3>2, <3>3
  <2>. QED
      BY <1>0, <2>1, <2>4 DEF Fresh, Chapter
<1>. QED
    BY <1>1, <1>2, <1>4, <1>5, <1>6 DEF TInv

\* The scene: what a turn wrote to the chapter it wrote because of another's commit.
LEMMA FramingKeeps ==
    ASSUME IInv, NEW t \in Jobs,
           \/ LookAtScene(t) \/ LookAtWorld(t) \/ FindOther(t) \/ FindResolved(t) \/ KeepChapter(t)
           \/ FindReworded(t) \/ CloseChapter(t) \/ ReopenChapter(t) \/ RewordChapter(t)
    PROVE  Sound' /\ \A u \in Jobs : TInv(u)'
<1>. USE DEF LookAtScene, LookAtWorld, FindOther, FindResolved, KeepChapter, FindReworded, CloseChapter,
             ReopenChapter, RewordChapter, Move, store, sight, work, IInv, TypeOK
<1>1. Sound'
  <2>1. Settled' /\ Offered' /\ Alone'
      BY DEF Sound, Settled, Offered, Alone
  <2>2. \A u \in Jobs \ {t} : chapter'[u] = chapter[u] /\ (chapter'[t] = chapter[t] \/ chapter[u] = "none")
      BY DEF FreeChapter
  <2>. QED
      BY <2>1, <2>2 DEF Sound, OneAuthor
<1>2. ASSUME NEW u \in Jobs, u # t
      PROVE  TInv(u)'
    BY <1>2, OthersKeep
<1>3. TInv(t)
    OBVIOUS
<1>4. Rows(t)'
    BY <1>3 DEF TInv, Rows, Framing, Proposing
<1>5. Paid(t)'
  <2>1. items' = items /\ prize' = prize /\ draft' = draft /\ stage'[t] # "granting"
      OBVIOUS
  <2>2. stage'[t] \in AtChapter /\ ~prize[t] => items = 1
      BY <1>3 DEF TInv, Paid, Sound, Settled, Chapter, AtChapter
  <2>3. stage'[t] # "applied" => chapter' = chapter /\ stage[t] \notin {"granting", "applied"}
      OBVIOUS
  <2>4. chapter'[t] # "none" /\ ~prize[t] => items = 1
      BY <1>3 DEF TInv, Paid, AtChapter
  <2>5. chapter[t] # "none" => chapter'[t] # "none"
      BY DEF Chapter
  <2>. QED
      BY <1>3, <2>1, <2>2, <2>3, <2>4, <2>5 DEF TInv, Paid
<1>6. Fresh(t)'
  <2>1. CASE LookAtWorld(t)
    <3>1. draft[t][Starter] = "none" /\ draft[t][t] = "none" /\ chapter[t] = "none"
        BY <1>3, <2>1 DEF TInv, Rows, Paid, Framing, Proposing
    <3>. QED
        BY <2>1, <3>1 DEF Fresh, Chapter
  <2>2. CASE ~LookAtWorld(t)
    <3>. SUFFICES ASSUME ~late[t]
                  PROVE  Fresh(t)'
        BY <2>2 DEF Fresh
    <3>1. stage[t] \notin {"closing", "reopening"} /\ chapter[t] # "closed"
        BY <1>3, <2>2 DEF TInv, Fresh, Tail
    <3>2. /\ draft' = draft /\ stage[t] \in Tail
          /\ chapter'[t] = chapter[t] \/ (chapter'[t] = Chapter(t) /\ stage'[t] = "applied")
        BY <2>2, <3>1 DEF Tail
    <3>3. stage[t] = "framing" => (framed[t] <=> Chapter(t) = "open")
        BY <1>3, <3>2 DEF TInv, Fresh
    <3>4. stage'[t] \notin {"closing", "reopening"}
        BY <2>2, <3>1, <3>3
    <3>5. stage'[t] = "framing" => (framed'[t] <=> Chapter(t) = "open") /\ chapter' = chapter
        BY <2>2, <3>1
    <3>6. Chapter(t)' = Chapter(t) /\ \A q \in Quests : Seen(t, q)' = Seen(t, q)
        BY <3>2 DEF Chapter, Seen
    <3>7. stage'[t] \notin {"found", "touching", "granting", "retouching", "leaving", "resuming"}
        BY <2>2
    <3>8. stage'[t] = "rewording" => Chapter(t) # "closed"
        BY <2>2, <3>1 DEF Chapter
    <3>9. chapter'[t] # "closed"
        BY <1>3, <2>2, <3>1 DEF TInv, Fresh, Tail, Chapter
    <3>. QED
        BY <1>3, <3>1, <3>2, <3>4, <3>5, <3>6, <3>7, <3>8, <3>9 DEF TInv, Fresh
  <2>. QED
      BY <2>1, <2>2
<1>. QED
    BY <1>1, <1>2, <1>4, <1>5, <1>6 DEF TInv

\* A transaction that ends without a commit.
LEMMA RollbackKeeps ==
    ASSUME IInv, NEW t \in Jobs, Abort(t) \/ RewardTaken(t) \/ EpilogueTaken(t)
    PROVE  Sound' /\ \A u \in Jobs : TInv(u)'
<1>. USE DEF Abort, RewardTaken, EpilogueTaken, RollBack, Forget, store, IInv, TypeOK
<1>. /\ stage'[t] = "idle" /\ prize'[t] = FALSE /\ chapter'[t] = "none"
     /\ \A q \in Quests : draft'[t][q] = "none"
     /\ \A u \in Jobs \ {t} : draft'[u] = draft[u]
    OBVIOUS
<1>1. Sound'
  <2>1. Settled' /\ Offered'
      BY DEF Sound, Settled, Offered
  <2>2. ASSUME NEW u \in Jobs, NEW v \in Jobs, NEW q \in Quests, u # v
        PROVE  draft'[u][q] = "none" \/ draft'[v][q] = "none"
    <3>1. CASE t \in {u, v}
        BY <3>1
    <3>2. CASE t \notin {u, v}
        BY <2>2, <3>2 DEF Sound, Alone
    <3>. QED
        BY <3>1, <3>2
  <2>3. \A u \in Jobs \ {t} : chapter'[u] = chapter[u]
      OBVIOUS
  <2>4. OneAuthor'
      BY <2>3 DEF Sound, OneAuthor
  <2>. QED
      BY <2>1, <2>2, <2>4 DEF Sound, Alone
<1>2. ASSUME NEW u \in Jobs, u # t
      PROVE  TInv(u)'
    BY <1>2, OthersKeep, ZenonT(30)
<1>3. TInv(t)'
  <2>1. Rows(t)'
      BY DEF Rows, Framing, Proposing
  <2>2. Paid(t)' /\ Fresh(t)'
      BY DEF Paid, Fresh, Tail, AtChapter
  <2>. QED
      BY <2>1, <2>2 DEF TInv
<1>. QED
    BY <1>1, <1>2, <1>3

\* A commit: the store moves, and the turns that were applying their answer are told.
LEMMA CommitKeeps ==
    ASSUME IInv, NEW t \in Jobs, Commit(t)
    PROVE  Sound' /\ \A u \in Jobs : TInv(u)'
<1>. USE DEF Commit, Forget, IInv, TypeOK
<1>1. TInv(t)
    OBVIOUS
<1>2. Settled'
    BY <1>1 DEF Sound, Settled, TInv, Paid, Seen, Chapter
<1>6. /\ \A q \in Quests : draft'[t][q] = "none" /\ status'[q] = Seen(t, q)
      /\ \A u \in Jobs \ {t} : draft'[u] = draft[u]
      /\ stage'[t] = "idle" /\ prize'[t] = FALSE /\ chapter'[t] = "none"
    OBVIOUS
<1>7. Offered' /\ \A q \in Jobs : status[q] = "offered" => status'[q] = "offered"
    BY <1>1, <1>6 DEF Sound, Offered, TInv, Rows, Seen
<1>3. Alone' /\ OneAuthor'
    BY <1>6 DEF Sound, Alone, OneAuthor
<1>4. TInv(t)'
    BY <1>6 DEF TInv, Rows, Paid, Fresh, Tail, Framing, Proposing, AtChapter
<1>5. ASSUME NEW u \in Jobs, u # t
      PROVE  TInv(u)'
  <2>1. TInv(u)
      OBVIOUS
  <2>2. /\ stage'[u] = stage[u] /\ needy'[u] = needy[u] /\ draft'[u] = draft[u]
        /\ prize'[u] = prize[u] /\ chapter'[u] = chapter[u] /\ onto'[u] = onto[u]
        /\ stage[u] \in Tail => late'[u]
      BY <1>5
  <2>3. Rows(u)'
      BY <1>5, <1>7, <2>1, <2>2 DEF TInv, Rows
  <2>4. prize[t] => draft[u][Starter] = "none" /\ items = 0 /\ items' = 1
      BY <1>1, <1>5 DEF TInv, Paid, Sound, Alone
  <2>5. ~prize[t] => items' = items
      OBVIOUS
  <2>6. Paid(u)'
      BY <2>1, <2>2, <2>4, <2>5 DEF TInv, Paid
  <2>7. Fresh(u)'
      BY <2>2 DEF Fresh
  <2>. QED
      BY <2>3, <2>6, <2>7 DEF TInv
<1>. QED
    BY <1>2, <1>3, <1>4, <1>5, <1>7 DEF Sound

LEMMA QuestInvStep == IInv /\ [Next]_vars => IInv'
<1>. SUFFICES ASSUME IInv, [Next]_vars
              PROVE  IInv'
    OBVIOUS
<1>1. TypeOK'
    BY QuestTypeStep DEF IInv
<1>2. CASE Next
  <2>1. PICK t \in Jobs : LookAtQuests(t) \/ LookAtWorld(t) \/ Step(t) \/ Abort(t)
      BY <1>2 DEF Next
  <2>2. Sound' /\ \A u \in Jobs : TInv(u)'
      BY <2>1, ReadingKeeps, CompletingKeeps, TouchingKeeps, TurningKeeps, SearchingKeeps, ProposingKeeps,
         MergingKeeps, FramingKeeps, RollbackKeeps, CommitKeeps DEF Step
  <2>. QED
      BY <1>1, <2>2 DEF IInv
<1>3. CASE UNCHANGED vars
  <2>1. Sound'
      BY <1>3 DEF vars, store, work, IInv, Sound, Settled, Offered, Alone, OneAuthor
  <2>2. ASSUME NEW t \in Jobs
        PROVE  TInv(t)'
    <3>1. TInv(t)
        BY DEF IInv
    <3>. QED
        BY <1>3, <3>1 DEF vars, store, sight, work, TInv, Rows, Paid, Fresh, Seen, Chapter
  <2>. QED
      BY <1>1, <2>1, <2>2 DEF IInv
<1>. QED
    BY <1>2, <1>3

THEOREM QuestInv == Spec => []IInv
BY QuestInvInit, QuestInvStep, PTL DEF Spec
----------------------------------------------------------------------------
(* What follows from it *)

\* A quest is rewarded once, however turns overlap, fail and reopen it.
THEOREM QuestSettled == Spec => []Settled
<1>1. IInv => Settled
    BY DEF IInv, Sound
<1>. QED
    BY <1>1, QuestInv, PTL

\* Only a commit ends a turn that has made its proposals otherwise than by rollback.
LEMMA EndChangesStore ==
    ASSUME IInv, [Next]_vars, NEW t \in Jobs, stage[t] = "applied", stage'[t] = "idle"
    PROVE  Commit(t) \/ UNCHANGED <<status, epilogue>>
<1>1. CASE UNCHANGED vars
    BY <1>1 DEF vars, store
<1>2. ASSUME NEW u \in Jobs, u # t, LookAtQuests(u) \/ LookAtWorld(u) \/ Step(u) \/ Abort(u)
      PROVE  stage'[t] = stage[t]
    BY <1>2 DEF Step, LookAtQuests, LookAtChapter, FindActive, NoResolution, FindReward,
         Complete, RewardTaken, EpilogueTaken, FindLeave, FindResume, NoDirective, Leave, Resume, Propose,
         FindSimilar, Merge, NoProposal, LookAtScene, FindOther, FindResolved, KeepChapter, FindReworded,
         CloseChapter, ReopenChapter, RewordChapter, Touch, LookAtWorld, RollBack, Commit, Abort, Forget, Move, IInv, TypeOK
<1>3. CASE LookAtQuests(t) \/ LookAtWorld(t) \/ Step(t) \/ Abort(t)
    BY <1>3 DEF Step, LookAtQuests, LookAtChapter, FindActive, NoResolution, FindReward,
         Complete, RewardTaken, EpilogueTaken, FindLeave, FindResume, NoDirective, Leave, Resume, Propose,
         FindSimilar, Merge, NoProposal, LookAtScene, FindOther, FindResolved, KeepChapter, FindReworded,
         CloseChapter, ReopenChapter, RewordChapter, Touch, LookAtWorld, RollBack, Abort, Move, store
<1>. QED
    BY <1>1, <1>2, <1>3 DEF Next

\* A resolved quest is taken back only by a turn whose application another commit
\* overtook.
THEOREM QuestReopenedLate == Spec => ReopenedLate
<1>1. ASSUME IInv, [Next]_vars, NEW t \in Jobs,
             stage[t] = "applied", stage'[t] = "idle",
             status[Starter] = "completed", status'[Starter] # "completed"
      PROVE  late[t]
  <2>1. Commit(t)
      BY <1>1, EndChangesStore
  <2>2. Fresh(t) /\ draft[t] \in [Quests -> Status]
      BY <1>1 DEF IInv, TInv, TypeOK
  <2>3. status'[Starter] = Seen(t, Starter)
      BY <2>1 DEF Commit
  <2>4. draft[t][Starter] \in {"offered", "paused", "active"}
      BY <1>1, <2>2, <2>3 DEF Seen, Status, Live
  <2>5. Rows(t)
      BY <1>1 DEF IInv, TInv
  <2>. QED
      BY <1>1, <2>2, <2>4, <2>5 DEF Fresh, Rows, Tail
<1>2. IInv /\ [Next]_vars =>
        [\A t \in Jobs :
           /\ stage[t] = "applied" /\ stage'[t] = "idle"
           /\ status[Starter] = "completed" /\ status'[Starter] # "completed"
           => late[t]]_vars
    BY <1>1
<1>. QED
    BY <1>2, QuestInv, PTL DEF Spec, ReopenedLate

\* An epilogue is closed only by a turn whose application another commit overtook.
THEOREM QuestClosedLate == Spec => ClosedLate
<1>1. ASSUME IInv, [Next]_vars, NEW t \in Jobs,
             stage[t] = "applied", stage'[t] = "idle",
             epilogue # "closed", epilogue' = "closed"
      PROVE  late[t]
  <2>1. Commit(t)
      BY <1>1, EndChangesStore
  <2>2. Fresh(t)
      BY <1>1 DEF IInv, TInv
  <2>3. chapter[t] = "closed"
      BY <1>1, <2>1 DEF Commit, Chapter
  <2>. QED
      BY <1>1, <2>2, <2>3 DEF Fresh, Tail
<1>2. IInv /\ [Next]_vars =>
        [\A t \in Jobs :
           /\ stage[t] = "applied" /\ stage'[t] = "idle"
           /\ epilogue # "closed" /\ epilogue' = "closed"
           => late[t]]_vars
    BY <1>1
<1>. QED
    BY <1>2, QuestInv, PTL DEF Spec, ClosedLate

\* A second live quest is the work of a turn whose application another commit overtook.
THEOREM QuestOneLive == Spec => OneLive
<1>1. ASSUME IInv, [Next]_vars, NEW t \in Jobs, NEW p \in Quests, NEW q \in Quests,
             stage[t] = "applied", stage'[t] = "idle",
             p # q, status'[p] \in Live, status'[q] \in Live, ~late[t]
      PROVE  {status[p], status[q]} \subseteq Live
  <2>1. CASE status' = status
      BY <1>1, <2>1
  <2>2. CASE Commit(t)
    <3>1. Rows(t) /\ Fresh(t) /\ draft[t] \in [Quests -> Status]
        BY <1>1 DEF IInv, TInv, TypeOK
    <3>2. \A r \in Quests : status'[r] = Seen(t, r)
        BY <2>2 DEF Commit
    <3>3. draft[t][t] = "offered" => status[t] = "offered"
        BY <1>1, <3>1, <3>2 DEF Fresh, Tail
    <3>4. \A r \in Quests : status'[r] \in Live => status[r] \in Live
        BY <1>1, <3>1, <3>2, <3>3 DEF Rows, Fresh, Tail, Seen, Live, Status
    <3>. QED
        BY <1>1, <3>4
  <2>. QED
      BY <1>1, <2>1, <2>2, EndChangesStore
<1>2. IInv /\ [Next]_vars =>
        [\A t \in Jobs, p, q \in Quests :
           /\ stage[t] = "applied" /\ stage'[t] = "idle"
           /\ p # q /\ status'[p] \in Live /\ status'[q] \in Live
           => late[t] \/ {status[p], status[q]} \subseteq Live]_vars
    BY <1>1
<1>. QED
    BY <1>2, QuestInv, PTL DEF Spec, OneLive
----------------------------------------------------------------------------
(* No deadlock *)

\* What a job holds.  Who holds nothing waits for the seeded quest's row, and the chapter's
\* row is held by one that has inserted the epilogue, so that no one else knows of it, by
\* one that has nothing else to write, or by one that resolves the quest again.
LEMMA HeldRows ==
    ASSUME IInv, NEW t \in Jobs
    PROVE  /\ stage[t] \in {"idle", "granting", "leaving", "resuming"} =>
                \A q \in Quests : draft[t][q] = "none"
           /\ stage[t] = "idle" => chapter[t] = "none"
           /\ chapter[t] # "none" /\ stage[t] # "applied" /\ ~Again(t) =>
                items = 0 /\ draft[t][Starter] # "none"
           /\ stage[t] \in AtChapter /\ draft[t][Starter] = "none" => items = 1
<1>1. Rows(t) /\ Paid(t) /\ draft[t] \in [Quests -> Status]
    BY DEF IInv, TypeOK, TInv
<1>2. stage[t] \in {"idle", "granting", "leaving", "resuming"} =>
        \A q \in Quests : draft[t][q] = "none"
    BY <1>1 DEF Rows, Framing, Proposing
<1>. QED
    BY <1>1, <1>2 DEF Paid, Again

\* With one quest offered, who waits to merge a proposal waits for that quest's row, and
\* does not hold it.
LEMMA WaitsForOffer ==
    ASSUME IInv, NEW t \in Jobs, NEW u \in Jobs, stage[t] \in {"merging", "joining"},
           WaitsFor(t, u)
    PROVE  /\ onto[t] \in Jobs /\ status[onto[t]] = "offered"
           /\ draft[t][onto[t]] = "none" /\ draft[u][onto[t]] # "none"
<1>1. u # t /\ draft[u][onto[t]] # "none"
    BY DEF WaitsFor, AtChapter
<1>2. onto[t] \in Jobs /\ Rows(t)
    BY DEF IInv, TInv, Rows
<1>3. draft[t][onto[t]] = "none"
    BY <1>1, <1>2 DEF IInv, Sound, Alone
<1>. QED
    BY <1>1, <1>2, <1>3 DEF Rows

\* However many turns and passes overlap, as long as one quest is offered at most no jobs
\* wait for each other's rows only, unless one of them resolves a quest again: all others
\* take the seeded quest's row before an offered one's, and that before the chapter's.
THEOREM QuestNobodyStuck == Spec => []NobodyStuck
<1>1. ASSUME IInv,
             \A p, q \in Quests : status[p] = "offered" /\ status[q] = "offered" => p = q,
             NEW waiting \in SUBSET {t \in Jobs : stage[t] # "idle" /\ ~Again(t)},
             waiting # {},
             \A t \in waiting : \E u \in waiting : WaitsFor(t, u)
      PROVE  FALSE
  <2>1. ASSUME NEW t \in waiting, stage[t] \in AtChapter, NEW u \in waiting, WaitsFor(t, u)
        PROVE  FALSE
    <3>1. u # t /\ chapter[u] # "none" /\ stage[u] # "applied"
        BY <1>1, <2>1 DEF WaitsFor, AtChapter
    <3>2. items = 0 /\ draft[u][Starter] # "none"
        BY <1>1, <3>1, HeldRows
    <3>3. draft[t][Starter] = "none"
        BY <1>1, <3>1, <3>2 DEF IInv, Sound, Alone
    <3>. QED
        BY <1>1, <2>1, <3>2, <3>3, HeldRows
  <2>2. ASSUME NEW t \in waiting, stage[t] \in {"merging", "joining"}
        PROVE  FALSE
    <3>1. PICK u \in waiting : WaitsFor(t, u)
        BY <1>1
    <3>2. /\ onto[t] \in Jobs /\ status[onto[t]] = "offered"
          /\ draft[u][onto[t]] # "none"
        BY <1>1, <2>2, <3>1, WaitsForOffer
    <3>3. stage[u] \notin {"granting", "leaving", "resuming"}
        BY <1>1, <3>2, HeldRows
    <3>4. PICK w \in waiting : WaitsFor(u, w)
        BY <1>1
    <3>5. stage[u] \in {"merging", "joining"}
        BY <2>1, <3>3, <3>4 DEF WaitsFor, AtChapter
    <3>6. onto[u] \in Jobs /\ status[onto[u]] = "offered" /\ draft[u][onto[u]] = "none"
        BY <1>1, <3>4, <3>5, WaitsForOffer
    <3>. QED
        BY <1>1, <3>2, <3>6
  <2>3. ASSUME NEW t \in waiting
        PROVE  stage[t] \in {"granting", "leaving", "resuming"}
    <3>1. PICK u \in waiting : WaitsFor(t, u)
        BY <1>1
    <3>. QED
        BY <2>1, <2>2, <3>1 DEF WaitsFor, AtChapter
  <2>4. PICK t \in waiting : TRUE
      BY <1>1
  <2>5. PICK u \in waiting : WaitsFor(t, u)
      BY <1>1, <2>4
  <2>6. draft[u][Starter] # "none"
      BY <2>3, <2>4, <2>5 DEF WaitsFor
  <2>. QED
      BY <1>1, <2>3, <2>6, HeldRows
<1>2. ASSUME IInv, NEW t \in Jobs, NEW u \in Jobs, WaitsFor(t, u)
      PROVE  stage[u] # "idle"
  <2>1. onto[t] \in Quests
      BY <1>2 DEF IInv, TypeOK
  <2>. QED
      BY <1>2, <2>1, HeldRows DEF WaitsFor
<1>3. IInv => NobodyStuck
  <2>. SUFFICES ASSUME IInv,
                       \A p, q \in Quests : status[p] = "offered" /\ status[q] = "offered" => p = q,
                       NEW waiting \in SUBSET {t \in Jobs : stage[t] # "idle" /\ ~Again(t)},
                       waiting # {}
                PROVE  \E t \in waiting : \A u \in Jobs :
                          WaitsFor(t, u) => u \notin waiting /\ stage[u] # "idle"
      BY DEF NobodyStuck
  <2>1. PICK t \in waiting : \A u \in waiting : ~WaitsFor(t, u)
      BY <1>1
  <2>. QED
      BY <1>2, <2>1
<1>. QED
    BY <1>3, QuestInv, PTL
=============================================================================
