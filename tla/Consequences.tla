---------------------------- MODULE Consequences ----------------------------
(***************************************************************************)
(* The consequence threads of one player: promises, rumours and scrutiny   *)
(* that stay in the air.  A turn reads them, lets the rules decide what    *)
(* the tags of the answer do to them, and writes a relationship, a thread  *)
(* and, by the rules of the pack, another relationship.  An idle pass of   *)
(* the world read them when it built its state and changes one of them and *)
(* one relationship on its way through two NPCs.  Both look for a thread   *)
(* of the kind they want, take it or insert one, and then cool the oldest  *)
(* ones until three are active.  No key keeps two threads of one kind      *)
(* apart, every SELECT sees what is committed by then, and an UPDATE waits *)
(* for the row but contains only the columns that differ from what was     *)
(* read.  A transaction keeps the rows it has written to its end, and they *)
(* are not taken in one order: the server ends deadlocks.                  *)
(*                                                                         *)
(* "debt", the fourth kind, is never chosen by rule or pass.  The standing  *)
(* with the faction, a row taken as a relationship is, is left out.        *)
(***************************************************************************)
EXTENDS FiniteSets, Naturals

CONSTANTS
    Turns,      \* turns under way at a time, each any number of times
    Passes,     \* idle passes under way at a time
    Npcs,       \* those the player has a relationship with
    Nobody,     \* none of them
    Kinds,      \* kinds of threads: the code has all three of AllKinds
    Cap         \* active threads that _enforce_active_thread_cap leaves: 3 in the code

AllKinds == {"promise", "rumor", "scrutiny"}

ASSUME ConsequenceConstants ==
    /\ Turns \cap Passes = {}
    /\ Nobody \notin Npcs
    /\ Kinds \subseteq AllKinds
    /\ Cap \in Nat \ {0}

Jobs == Turns \cup Passes

\* The row of a kind that a job inserted: it inserts one when it sees none of the kind.
Threads == Kinds \X Jobs

VARIABLES
    status,     \* committed: status of each row, "none" before it is inserted
    phase,      \* where each job is
    known,      \* of a pass: the kinds that were in the air when it built its state
    task,       \* what it is about to do to a thread and to whom
    target,     \* the row it found, or {}
    read,       \* the status it read in that row
    draft,      \* what it has written and not committed; "same": the row, not its status
    bonds,      \* relationships it has written
    victims,    \* rows it is about to cool
    told,       \* the status it gave the thread it changed, or "none"
    spent,      \* of a pass: which of its means are used, and how many NPCs it has seen
    late        \* history: another job committed since it looked for its thread

txn == <<known, task, target, read, victims, told, spent>>
threadVars == <<status, phase, txn, draft, bonds, late>>

Status == {"none", "active", "cooling", "resolved"}

\* What a job sees: the committed rows and its own.
Seen(j, r) == IF draft[j][r] \in Status \ {"none"} THEN draft[j][r] ELSE status[r]

InTheAir(j) == {k \in Kinds : \E i \in Jobs : Seen(j, <<k, i>>) \in {"active", "cooling"}}

\* A row another one has written is free when that one has ended.
FreeRow(j, r) == \A i \in Jobs \ {j} : draft[i][r] = "none"
FreeBond(j, n) == \A i \in Jobs \ {j} : n \notin bonds[i]

NoTask == [kind |-> "none", to |-> "none", with |-> Nobody]
Fresh == [bond |-> FALSE, thread |-> FALSE, seen |-> 0]

ThreadInit ==
    /\ status = [r \in Threads |-> "none"]
    /\ phase = [j \in Jobs |-> "idle"]
    /\ known = [j \in Jobs |-> {}]
    /\ task = [j \in Jobs |-> NoTask]
    /\ target = [j \in Jobs |-> {}]
    /\ read = [j \in Jobs |-> "none"]
    /\ draft = [j \in Jobs |-> [r \in Threads |-> "none"]]
    /\ bonds = [j \in Jobs |-> {}]
    /\ victims = [j \in Jobs |-> {}]
    /\ told = [j \in Jobs |-> "none"]
    /\ spent = [j \in Jobs |-> Fresh]
    /\ late = [j \in Jobs |-> FALSE]

Move(j, from, to) == phase[j] = from /\ phase' = [phase EXCEPT ![j] = to]
----------------------------------------------------------------------------
(* A turn: apply_consequence_updates *)

\* What ConsequenceRuleEngine makes of the tags, one case after the other, when the
\* kinds K are in the air; whether the relationship changes.
Outcomes(K) ==
    LET thread(kind, to) == [kind |-> kind, to |-> to, bond |-> TRUE]
        kept == IF "promise" \in K THEN thread("promise", "resolved") ELSE thread("none", "none")
        watched == IF "scrutiny" \in K THEN thread("scrutiny", "cooling") ELSE thread("none", "none")
    IN  { thread("scrutiny", "active"),         \* overreach
          thread("promise", "active"),          \* missed_timing
          thread("rumor", "active"),            \* public_attention
          IF "promise" \notin K /\ "rumor" \in K THEN thread("rumor", "cooling")
          ELSE IF "promise" \notin K THEN watched ELSE kept,  \* reward_item_respect
          kept,                                 \* kept_promise
          thread("none", "none"),               \* earned_trust
          watched,                              \* careful_observation
          [kind |-> "none", to |-> "none", bond |-> FALSE] }

Evaluate(j) ==
    /\ j \in Turns
    /\ \E guide \in Npcs, o \in Outcomes(InTheAir(j)) :
         /\ o.kind \in Kinds \cup {"none"}
         /\ Move(j, "idle", IF o.bond THEN "bonding" ELSE "matching")
         /\ task' = [task EXCEPT ![j] = [kind |-> o.kind, to |-> o.to,
                                         with |-> IF o.bond THEN guide ELSE Nobody]]
    /\ UNCHANGED <<status, known, target, read, victims, told, spent, draft, bonds, late>>
----------------------------------------------------------------------------
(* An idle pass: _run_idle_pass_inner *)

\* build_session_state: of the kinds in the air these two make a difference.
LookAtState(j) ==
    /\ j \in Passes
    /\ Move(j, "idle", "passing")
    /\ known' = [known EXCEPT ![j] = InTheAir(j) \cap {"promise", "scrutiny"}]
    /\ UNCHANGED <<status, task, target, read, victims, told, spent, draft, bonds, late>>

\* A murmur, a question or a reassurance; other beats stir nothing.
BeatTasks(K, n) ==
    LET thread(kind, to) == [kind |-> kind, to |-> to, with |-> n]
    IN  [ murmur   |-> {thread(IF "promise" \in K THEN "rumor" ELSE "scrutiny", "active")},
          question |-> {thread("scrutiny", "active")},
          reassure |-> IF K \cap {"promise", "scrutiny"} = {}
                       THEN {thread("none", "none")}
                       ELSE {thread(k, "cooling") : k \in K \cap {"promise", "scrutiny"}} ]

\* One thread and one relationship in a pass; a murmur changes no relationship.
Allowed(j, t, kind) ==
    [ kind |-> IF spent[j].thread THEN "none" ELSE t.kind,
      to   |-> IF spent[j].thread THEN "none" ELSE t.to,
      with |-> IF kind = "murmur" \/ spent[j].bond THEN Nobody ELSE t.with ]

Beat(j) ==
    /\ phase[j] = "passing" /\ spent[j].seen < 2
    /\ \E n \in Npcs, kind \in {"murmur", "question", "reassure"} :
         \E t \in BeatTasks(known[j], n)[kind] :
           /\ t.kind \in Kinds \cup {"none"}
           /\ LET a == Allowed(j, t, kind)
              IN  /\ Move(j, "passing", IF a.with # Nobody THEN "bonding" ELSE "matching")
                  /\ task' = [task EXCEPT ![j] = a]
                  /\ spent' = [spent EXCEPT ![j].seen = @ + 1,
                                            ![j].bond = @ \/ a.with # Nobody]
    /\ UNCHANGED <<status, known, target, read, victims, told, draft, bonds, late>>

\* Both NPCs have had their turn, or stir nothing, or are not there.
EndPass(j) ==
    /\ Move(j, "passing", "written")
    /\ UNCHANGED <<status, txn, draft, bonds, late>>
----------------------------------------------------------------------------
(* adjust_relationship_strength *)

WriteBond(j) ==
    /\ Move(j, "bonding", "matching")
    /\ FreeBond(j, task[j].with)
    /\ bonds' = [bonds EXCEPT ![j] = @ \cup {task[j].with}]
    /\ task' = [task EXCEPT ![j].with = Nobody]
    /\ UNCHANGED <<status, known, target, read, victims, told, spent, draft, late>>
----------------------------------------------------------------------------
(* _matching_thread and the change of the thread *)

Onward(j) == IF j \in Turns THEN "ruled" ELSE "passing"

OfKind(j, k) == {r \in Threads : r[1] = k /\ Seen(j, r) # "none"}

\* Fault: only the thread with the same counterpart and place will do.
FoundExact(j) ==
    {{}} \cup {{r} : r \in OfKind(j, task[j].kind)}

\* The one with the same counterpart and place, or else the newest of the kind; which
\* one that is does not matter here.
Found(j) ==
    IF OfKind(j, task[j].kind) = {} THEN {{}} ELSE {{r} : r \in OfKind(j, task[j].kind)}

Match(j) ==
    /\ task[j].kind # "none"
    /\ \E found \in Found(j) :
         /\ Move(j, "matching", "writing")
         /\ target' = [target EXCEPT ![j] = found]
         /\ read' = [read EXCEPT ![j] = IF found = {} THEN "none"
                                         ELSE Seen(j, CHOOSE r \in found : TRUE)]
    /\ late' = [late EXCEPT ![j] = FALSE]
    /\ UNCHANGED <<status, known, task, victims, told, spent, draft, bonds>>

NoThread(j) ==
    /\ task[j].kind = "none"
    /\ Move(j, "matching", Onward(j))
    /\ UNCHANGED <<status, txn, draft, bonds, late>>

\* A thread that is to cool or to be resolved has been seen, and no row is ever deleted:
\* only one that is to be active may have to be inserted.
Insert(j) ==
    /\ target[j] = {}
    /\ Move(j, "writing", "counting")
    /\ target' = [target EXCEPT ![j] = {<<task[j].kind, j>>}]
    /\ draft' = [draft EXCEPT ![j][<<task[j].kind, j>>] = "active"]
    /\ told' = [told EXCEPT ![j] = "active"]
    /\ task' = [task EXCEPT ![j] = NoTask]
    /\ spent' = [spent EXCEPT ![j].thread = TRUE]
    /\ UNCHANGED <<status, known, read, victims, bonds, late>>

\* A turn that did not leave the thread active does not count; a pass always does.
Update(j) ==
    \E r \in target[j] :
        /\ Move(j, "writing", IF j \in Passes \/ task[j].to = "active" THEN "counting" ELSE Onward(j))
        /\ FreeRow(j, r)
        /\ draft' = [draft EXCEPT ![j][r] = IF task[j].to # read[j] THEN task[j].to ELSE "same"]
        /\ told' = [told EXCEPT ![j] = task[j].to]
        /\ task' = [task EXCEPT ![j] = NoTask]
        /\ read' = [read EXCEPT ![j] = "none"]
        /\ spent' = [spent EXCEPT ![j].thread = TRUE]
        /\ UNCHANGED <<status, known, target, victims, bonds, late>>
----------------------------------------------------------------------------
(* _enforce_active_thread_cap *)

Active(j) == {r \in Threads : Seen(j, r) = "active"}

\* Fault: one more is let be.
ExcessOneMore(j) ==
    IF Cardinality(Active(j)) <= Cap + 1 THEN {{}}
    ELSE {V \in SUBSET (Active(j) \ target[j]) : Cardinality(Active(j) \ V) = Cap + 1}

\* The oldest of the others; which ones these are does not matter here.
Excess(j) ==
    IF Cardinality(Active(j)) <= Cap THEN {{}}
    ELSE {V \in SUBSET (Active(j) \ target[j]) : Cardinality(Active(j) \ V) = Cap}

Count(j) ==
    /\ Move(j, "counting", "cooling")
    /\ \E V \in Excess(j) : victims' = [victims EXCEPT ![j] = V]
    /\ UNCHANGED <<status, known, task, target, read, told, spent, draft, bonds, late>>

Cool(j) ==
    /\ phase[j] = "cooling"
    /\ \E r \in victims[j] :
         /\ FreeRow(j, r)
         /\ draft' = [draft EXCEPT ![j][r] = "cooling"]
         /\ victims' = [victims EXCEPT ![j] = @ \ {r}]
    /\ UNCHANGED <<status, phase, known, task, target, read, told, spent, bonds, late>>

Cooled(j) ==
    /\ victims[j] = {}
    /\ Move(j, "cooling", Onward(j))
    /\ UNCHANGED <<status, txn, draft, bonds, late>>
----------------------------------------------------------------------------
(* apply_shared_consequence_rules *)

\* A rule of the pack changes the relationship with someone it names.
ChooseRule(j) ==
    /\ Move(j, "ruled", "ruling")
    /\ \E n \in Npcs : task' = [task EXCEPT ![j].with = n]
    /\ UNCHANGED <<status, known, target, read, victims, told, spent, draft, bonds, late>>

NoRule(j) ==
    /\ Move(j, "ruled", "written")
    /\ UNCHANGED <<status, txn, draft, bonds, late>>

RuleBond(j) ==
    /\ Move(j, "ruling", "written")
    /\ FreeBond(j, task[j].with)
    /\ bonds' = [bonds EXCEPT ![j] = @ \cup {task[j].with}]
    /\ task' = [task EXCEPT ![j] = NoTask]
    /\ UNCHANGED <<status, known, target, read, victims, told, spent, draft, late>>
----------------------------------------------------------------------------
(* The end of a transaction *)

Forget(j) ==
    /\ phase' = [phase EXCEPT ![j] = "idle"]
    /\ known' = [known EXCEPT ![j] = {}]
    /\ task' = [task EXCEPT ![j] = NoTask]
    /\ target' = [target EXCEPT ![j] = {}]
    /\ read' = [read EXCEPT ![j] = "none"]
    /\ draft' = [draft EXCEPT ![j] = [r \in Threads |-> "none"]]
    /\ bonds' = [bonds EXCEPT ![j] = {}]
    /\ victims' = [victims EXCEPT ![j] = {}]
    /\ told' = [told EXCEPT ![j] = "none"]
    /\ spent' = [spent EXCEPT ![j] = Fresh]

Commit(j) ==
    /\ phase[j] = "written"
    /\ status' = [r \in Threads |-> Seen(j, r)]
    /\ late' = [i \in Jobs |-> IF i = j THEN FALSE ELSE late[i] \/ phase[i] # "idle"]
    /\ Forget(j)

RollBack(j) ==
    /\ Forget(j)
    /\ late' = [late EXCEPT ![j] = FALSE]
    /\ UNCHANGED status

\* The models fail, or the process stops.
Fail(j) == phase[j] # "idle" /\ RollBack(j)

\* What a job waits for is held by another one.
WaitsFor(j, i) ==
    /\ i # j
    /\ \/ phase[j] \in {"bonding", "ruling"} /\ task[j].with \in bonds[i]
       \/ phase[j] = "writing" /\ \E r \in target[j] : draft[i][r] # "none"
       \/ phase[j] = "cooling" /\ \E r \in victims[j] : draft[i][r] # "none"

\* Of jobs that wait for each other the server ends one.
EndDeadlock ==
    \E i, j \in Jobs : WaitsFor(i, j) /\ WaitsFor(j, i) /\ RollBack(j)

Step(j) ==
    \/ EndPass(j) \/ WriteBond(j)
    \/ Match(j) \/ NoThread(j) \/ Insert(j) \/ Update(j)
    \/ Count(j) \/ Cool(j) \/ Cooled(j)
    \/ ChooseRule(j) \/ NoRule(j) \/ RuleBond(j)
    \/ Commit(j)

ThreadNext ==
    \/ \E j \in Jobs : Evaluate(j) \/ LookAtState(j) \/ Beat(j) \/ Step(j) \/ Fail(j)
    \/ EndDeadlock

ThreadSpec == ThreadInit /\ [][ThreadNext]_threadVars
----------------------------------------------------------------------------
(* Properties *)

Tasks == [kind : Kinds \cup {"none"}, to : Status, with : Npcs \cup {Nobody}]

ThreadTypeOK ==
    /\ status \in [Threads -> Status]
    /\ phase \in [Jobs -> {"idle", "passing", "bonding", "matching", "writing", "counting", "cooling",
                        "ruled", "ruling", "written"}]
    /\ known \in [Jobs -> SUBSET Kinds]
    /\ task \in [Jobs -> Tasks]
    /\ target \in [Jobs -> SUBSET Threads]
    /\ read \in [Jobs -> Status]
    /\ draft \in [Jobs -> [Threads -> Status \cup {"same"}]]
    /\ bonds \in [Jobs -> SUBSET Npcs]
    /\ victims \in [Jobs -> SUBSET Threads]
    /\ told \in [Jobs -> Status]
    /\ spent \in [Jobs -> [bond : BOOLEAN, thread : BOOLEAN, seen : 0 .. 2]]
    /\ late \in [Jobs -> BOOLEAN]

Commits(j) ==
    /\ phase[j] = "written" /\ phase'[j] = "idle"
    /\ status' = [r \in Threads |-> Seen(j, r)]

\* A kind of thread is doubled only by a job that looked for it while another one
\* committed: nothing in the tables keeps two of a kind apart.
DoubledLate ==
    [][\A j \in Jobs, k \in Kinds :
         /\ Commits(j)
         /\ Cardinality({i \in Jobs : status'[<<k, i>>] # "none"}) > 1
         => late[j] \/ status'[<<k, j>>] = "none" \/ status[<<k, j>>] # "none"]_threadVars

\* However many threads jobs that overlapped have left active, one that raises a thread
\* with nobody in between leaves Cap of them at most.
AtMostCap ==
    [][\A j \in Jobs :
         Commits(j) /\ ~late[j] /\ told[j] = "active"
         => Cardinality({r \in Threads : status'[r] = "active"}) <= Cap]_threadVars
=============================================================================
