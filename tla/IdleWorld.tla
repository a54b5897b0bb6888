----------------------------- MODULE IdleWorld ------------------------------
(***************************************************************************)
(* A world that goes on without its player.  The scheduler, a process of   *)
(* its own, looks every interval for worlds in which nobody has played for *)
(* a while and no pass was made lately, and makes an idle pass in each; an *)
(* operator can make one at any time.  A pass picks the place of an NPC    *)
(* nobody has visited for long, two of the NPCs there, locks their         *)
(* profiles, asks the models what each does, and lets one of them walk on. *)
(* It knows where an NPC is from what it read before it waited and asked.  *)
(* The first session of another player seeds the world again, which takes  *)
(* every NPC home; it writes an NPC before its profile, a pass the other   *)
(* way round, and the server ends the deadlocks.                           *)
(*                                                                         *)
(* All is one transaction at READ COMMITTED.  A failing pass ends the      *)
(* scheduler's process, and nothing but an operator starts it again.       *)
(***************************************************************************)
EXTENDS FiniteSets, Integers, Sequences

CONSTANTS
    Scheduler,  \* the passes of the scheduler: one at a time
    Operators,  \* those that operators ask for, each any number of times
    Newcomers,  \* players who start a first session, each any number of times
    Npcs,       \* by their ids, which are in an order
    PackOrder,  \* the NPCs as the pack lists them
    Walkers,    \* those whose role lets them walk
    Places,
    Roads,      \* pairs of places an open route joins
    Home,       \* where the pack puts an NPC
    Nowhere     \* not a place

Passes == {Scheduler} \cup Operators
Jobs == Passes \cup Newcomers

ASSUME IdleConstants ==
    /\ Scheduler \notin Operators /\ Passes \cap Newcomers = {}
    /\ Npcs \subseteq Nat /\ PackOrder \in Seq(Npcs)
    /\ Walkers \subseteq Npcs
    /\ Roads \subseteq Places \X Places
    /\ Home \in [Npcs -> Places]
    /\ Nowhere \notin Places

VARIABLES
    at,         \* committed: where each NPC is
    routine,    \* committed: where its profile says it is active
    due,        \* neither was a turn taken within WORLD_IDLE_GRACE_SECONDS, nor a pass
                \* completed within WORLD_IDLE_INTERVAL_SECONDS
    alive,      \* the scheduler's process runs
    phase,      \* where each job is
    where,      \* of a pass: the place it picked
    cast,       \* NPCs it has still to deal with, in order
    here,       \* where it takes an NPC to be, Nowhere for those it has not read
    walker,     \* of a pass: the NPCs it let walk
    profiles,   \* rows of npc_profiles it has locked or written
    actors,     \* rows of actors it has written
    late        \* history: another job committed since it read NPCs

world == <<at, routine, due, alive>>
txn == <<where, cast, here, walker, profiles, actors>>
idleVars == <<world, phase, txn, late>>

IdleInit ==
    /\ at = Home
    /\ routine = Home
    /\ due = FALSE
    /\ alive = TRUE
    /\ phase = [j \in Jobs |-> "idle"]
    /\ where = [p \in Passes |-> Nowhere]
    /\ cast = [j \in Jobs |-> << >>]
    /\ here = [j \in Jobs |-> [n \in Npcs |-> Nowhere]]
    /\ walker = [p \in Passes |-> {}]
    /\ profiles = [j \in Jobs |-> {}]
    /\ actors = [j \in Jobs |-> {}]
    /\ late = [j \in Jobs |-> FALSE]

Move(j, from, to) == phase[j] = from /\ phase' = [phase EXCEPT ![j] = to]

\* A row another job has locked or written is free when that one has ended.
FreeProfile(j, n) == \A i \in Jobs \ {j} : n \notin profiles[i]
FreeActor(j, n) == \A i \in Jobs \ {j} : n \notin actors[i]
----------------------------------------------------------------------------
(* The player, and time *)

\* A turn of a player is committed.
TakeTurn ==
    /\ due
    /\ due' = FALSE
    /\ UNCHANGED <<at, routine, alive, phase, txn, late>>

TimePasses ==
    /\ ~due
    /\ due' = TRUE
    /\ UNCHANGED <<at, routine, alive, phase, txn, late>>
----------------------------------------------------------------------------
(* The beginning of a pass *)

\* run_once of the scheduler, and due_world_ids.  Other worlds may come first: the pass begins later.
FindDue ==
    /\ alive /\ due
    /\ Move(Scheduler, "idle", "due")
    /\ UNCHANGED <<world, txn, late>>

\* POST /worlds/{world_id}/idle-pass
Trigger(p) ==
    /\ p \in Operators
    /\ Move(p, "idle", "due")
    /\ UNCHANGED <<world, txn, late>>

\* run_idle_world_pass: _select_idle_location_id.
LookAbout(p) ==
    /\ Move(p, "due", "picking")
    /\ \E n \in Npcs : where' = [where EXCEPT ![p] = at[n]]
    /\ UNCHANGED <<world, cast, here, walker, profiles, actors, late>>

\* _select_idle_participants: the two of them that were visited least lately, by the
\* random ids of the passes.
Pick(p) ==
    /\ \E m, n \in Npcs :
         LET there == {k \in Npcs : at[k] = where[p]}
         IN  /\ Move(p, "picking", IF there = {} THEN "beats" ELSE "locking")
             /\ IF there = {} THEN m = n ELSE {m, n} \subseteq there
             /\ Cardinality(there) >= 2 => m # n
             /\ cast' = [cast EXCEPT ![p] = IF there = {} THEN << >>
                                            ELSE IF m = n THEN <<n>> ELSE <<m, n>>]
             /\ here' = [here EXCEPT ![p] = [k \in Npcs |->
                           IF k \in {m, n} \cap there THEN at[k] ELSE Nowhere]]
    /\ where' = [where EXCEPT ![p] = Nowhere]
    /\ UNCHANGED <<world, walker, profiles, actors, late>>

Cast(j) == {cast[j][i] : i \in 1 .. Len(cast[j])}

\* _lock_participant_profiles: FOR UPDATE in the order of ids, so that passes do not
\* wait for each other in a circle.  What was read before stays as it is in memory.
Unlocked(p) == Cast(p) \ profiles[p]
First(S) == CHOOSE n \in S : \A m \in S : n <= m

Lock(p) ==
    /\ Unlocked(p) # {}
    /\ Move(p, "locking", IF Cardinality(Unlocked(p)) = 1 THEN "beats" ELSE "locking")
    /\ FreeProfile(p, First(Unlocked(p)))
    /\ profiles' = [profiles EXCEPT ![p] = @ \cup {First(Unlocked(p))}]
    /\ UNCHANGED <<world, where, cast, here, walker, actors, late>>
----------------------------------------------------------------------------
(* The beats of a pass: _run_idle_pass_inner *)

\* The models let the NPC stay, or it may not walk.
Stay(p) ==
    /\ p \in Passes /\ cast[p] # << >>
    /\ Move(p, "beats", "beats")
    /\ cast' = [cast EXCEPT ![p] = Tail(@)]
    /\ UNCHANGED <<world, where, here, walker, profiles, actors, late>>

\* allow_relocate, and the role.
MayWalk(p, n) == n \in Walkers /\ walker[p] = {}

\* Fault: an open route of the world will do, wherever it begins.
OpenFromAny(from) == {q \in Places : \E o \in Places : <<o, q>> \in Roads}

\* _resolve_idle_relocation
OpenFrom(from) == {q \in Places : <<from, q>> \in Roads}

\* From where the NPC was read to be.
Walk(p) ==
    /\ p \in Passes /\ cast[p] # << >>
    /\ Move(p, "beats", "walking")
    /\ MayWalk(p, Head(cast[p]))
    /\ \E q \in OpenFrom(here[p][Head(cast[p])]) :
            here' = [here EXCEPT ![p][Head(cast[p])] = q]
    /\ walker' = [walker EXCEPT ![p] = @ \cup {Head(cast[p])}]
    /\ UNCHANGED <<world, where, cast, profiles, actors, late>>

\* The UPDATE of the NPC, with the event that tells of it.
WriteWalk(p) ==
    /\ p \in Passes
    /\ Move(p, "walking", "beats")
    /\ FreeActor(p, Head(cast[p]))
    /\ actors' = [actors EXCEPT ![p] = @ \cup {Head(cast[p])}]
    /\ cast' = [cast EXCEPT ![p] = Tail(@)]
    /\ UNCHANGED <<world, where, here, walker, profiles, late>>

----------------------------------------------------------------------------
(* The first session of another player: ensure_world_slice_seed *)

\* _lock_world_seed: one at a time.
Meet(j) ==
    /\ j \in Newcomers
    /\ \A i \in Newcomers : phase[i] = "idle"
    /\ Move(j, "idle", "seeding")
    /\ cast' = [cast EXCEPT ![j] = PackOrder]
    /\ UNCHANGED <<world, where, here, walker, profiles, actors, late>>

\* _ensure_seeded_npc reads an NPC and its profile.
ReadNpc(j) ==
    /\ j \in Newcomers /\ cast[j] # << >>
    /\ Move(j, "seeding", IF at[Head(cast[j])] # Home[Head(cast[j])] THEN "homing" ELSE "settling")
    /\ here' = [here EXCEPT ![j][Head(cast[j])] = routine[Head(cast[j])]]
    /\ UNCHANGED <<world, where, cast, walker, profiles, actors, late>>

\* Fault: an NPC that has walked stays where it is, and its profile is taken home.
HomeNever(j) ==
    /\ Move(j, "homing", "settling")
    /\ UNCHANGED <<world, txn, late>>

TakeHome(j) ==
    /\ Move(j, "homing", "settling")
    /\ FreeActor(j, Head(cast[j]))
    /\ actors' = [actors EXCEPT ![j] = @ \cup {Head(cast[j])}]
    /\ UNCHANGED <<world, where, cast, here, walker, profiles, late>>

\* The profile is written if it is not what it was.
SettleProfile(j) ==
    /\ Move(j, "settling", "seeding")
    /\ IF here[j][Head(cast[j])] = Home[Head(cast[j])] THEN UNCHANGED profiles
       ELSE /\ FreeProfile(j, Head(cast[j]))
            /\ profiles' = [profiles EXCEPT ![j] = @ \cup {Head(cast[j])}]
    /\ here' = [here EXCEPT ![j][Head(cast[j])] = Home[Head(cast[j])]]
    /\ cast' = [cast EXCEPT ![j] = Tail(@)]
    /\ UNCHANGED <<world, where, walker, actors, late>>

----------------------------------------------------------------------------
(* The end of a transaction *)

\* Nothing is left to do but to commit.
NothingLeft(j) == phase[j] \in {"beats", "seeding"} /\ cast[j] = << >>

Forget(j) ==
    /\ phase' = [phase EXCEPT ![j] = "idle"]
    /\ where' = [p \in Passes |-> IF p = j THEN Nowhere ELSE where[p]]
    /\ cast' = [cast EXCEPT ![j] = << >>]
    /\ here' = [here EXCEPT ![j] = [n \in Npcs |-> Nowhere]]
    /\ walker' = [p \in Passes |-> IF p = j THEN {} ELSE walker[p]]
    /\ profiles' = [profiles EXCEPT ![j] = {}]
    /\ actors' = [actors EXCEPT ![j] = {}]

\* Fault: the tick is never marked as completed.
DueAfterStill(j) == due

\* The tick of a pass is completed; the seed makes none.
DueAfter(j) == due /\ j \notin Passes

CommitJob(j) ==
    /\ NothingLeft(j)
    /\ at' = [n \in Npcs |-> IF n \in actors[j] THEN here[j][n] ELSE at[n]]
    /\ routine' = [n \in Npcs |-> IF n \in profiles[j] THEN here[j][n] ELSE routine[n]]
    /\ due' = DueAfter(j)
    /\ late' = [i \in Jobs |-> IF i = j THEN FALSE ELSE late[i] \/ cast[i] # << >> \/ NothingLeft(i)]
    /\ Forget(j)
    /\ UNCHANGED alive

RollBackJob(j) ==
    /\ Forget(j)
    /\ late' = [late EXCEPT ![j] = FALSE]
    /\ alive' = (alive /\ j # Scheduler)
    /\ UNCHANGED <<at, routine, due>>

\* An exception, or the process stops; a COMMIT that fails is a failure just before it.
FailJob(j) == phase[j] # "idle" /\ ~NothingLeft(j) /\ RollBackJob(j)

RestartScheduler ==
    /\ ~alive
    /\ alive' = TRUE
    /\ UNCHANGED <<at, routine, due, phase, txn, late>>

WaitsFor(j, i) ==
    /\ i # j
    /\ \/ phase[j] = "locking" /\ Unlocked(j) # {} /\ First(Unlocked(j)) \in profiles[i]
       \/ phase[j] \in {"walking", "homing"} /\ Head(cast[j]) \in actors[i]
       \/ phase[j] = "settling" /\ Head(cast[j]) \in profiles[i]

\* Of jobs that wait for each other the server ends one.
EndDeadlock ==
    \E D \in SUBSET Jobs : \E j \in D :
        /\ \A i \in D : (\E k \in D : WaitsFor(i, k)) /\ (\E k \in D : WaitsFor(k, i))
        /\ RollBackJob(j)
----------------------------------------------------------------------------
JobStep(j) ==
    \/ (j \in Passes /\ LookAbout(j)) \/ Pick(j) \/ Lock(j)
    \/ Stay(j) \/ Walk(j) \/ WriteWalk(j)
    \/ ReadNpc(j) \/ TakeHome(j) \/ SettleProfile(j)
    \/ CommitJob(j)

IdleNext ==
    \/ TakeTurn \/ TimePasses \/ FindDue \/ RestartScheduler \/ EndDeadlock
    \/ \E j \in Jobs : Trigger(j) \/ Meet(j) \/ JobStep(j) \/ FailJob(j)

IdleSpec == IdleInit /\ [][IdleNext]_idleVars

\* The scheduler's loop, what has begun, and the detection of deadlocks.
IdleFairSpec ==
    /\ IdleSpec
    /\ SF_idleVars(FindDue) /\ WF_idleVars(EndDeadlock)
    /\ \A j \in Jobs : SF_idleVars(JobStep(j))
----------------------------------------------------------------------------
(* Properties *)

IdleTypeOK ==
    /\ at \in [Npcs -> Places] /\ routine \in [Npcs -> Places]
    /\ due \in BOOLEAN /\ alive \in BOOLEAN
    /\ phase \in [Jobs -> {"idle", "due", "picking", "locking", "beats", "walking",
                           "seeding", "homing", "settling"}]
    /\ where \in [Passes -> Places \cup {Nowhere}]
    /\ cast \in [Jobs -> Seq(Npcs)]
    /\ here \in [Jobs -> [Npcs -> Places \cup {Nowhere}]]
    /\ walker \in [Passes -> SUBSET Npcs]
    /\ profiles \in [Jobs -> SUBSET Npcs]
    /\ actors \in [Jobs -> SUBSET Npcs]
    /\ late \in [Jobs -> BOOLEAN]

Commits(j) == NothingLeft(j) /\ phase'[j] = "idle"

\* A pass and the seed leave each NPC they took up where its profile says it is, and a
\* pass moves it along a road and no further, unless another job committed since they
\* read where the NPCs are: the seed may have taken one home meanwhile.
TrueToRoutine ==
    [][\A j \in Jobs : Commits(j) /\ ~late[j] =>
         /\ \A n \in profiles[j] : routine'[n] = at'[n]
         /\ j \in Passes => \A n \in Npcs : at'[n] # at[n] => <<at[n], at'[n]>> \in Roads]_idleVars

\* A quiet world is visited again and again, as long as the scheduler runs: operators,
\* newcomers and deadlocks do not keep it out.
Visited == []<>(~due \/ ~alive)
=============================================================================
