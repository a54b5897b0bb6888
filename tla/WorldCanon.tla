----------------------------- MODULE WorldCanon -----------------------------
(***************************************************************************)
(* What the players of a world share: the numbering of its canonical       *)
(* timeline, the value of a world axis, and the broadcasts by which one    *)
(* player's turn binds the narration of the others.  An attempt at a turn  *)
(* is one READ COMMITTED transaction from the load of its state, through   *)
(* minutes of model calls, to its commit; the start of a session is one    *)
(* too.  They meet in three places: the counter of the timeline, locked    *)
(* until the commit; the row of the axis, read before it is locked; and    *)
(* the deliveries of a broadcast, whose unique index makes a second        *)
(* insert wait for the end of the first one's transaction.                 *)
(*                                                                         *)
(* A delivery is a row or none: its status tells only whether a turn has   *)
(* shown it.  The key of a broadcast holds the place of its event, so its  *)
(* scope never changes, and nothing ends a broadcast.                      *)
(***************************************************************************)
EXTENDS Integers, FiniteSets

CONSTANTS
    Turns,          \* turns,
    Starts,         \* POST /sessions requests,
    Sessions,
    SessionOf,      \* and the session of each
    Places,
    Roads,          \* pairs of places with a route between them
    Starter,        \* the starter location
    Keys,           \* semantic keys of broadcasts
    Origin,         \* the place of a key's events
    Deltas,         \* what rules add to the axis
    AxisMin, AxisMax,
    MaxAttempts     \* max_resolution_attempts

Txs == Turns \cup Starts

ASSUME CanonConstants ==
    /\ Turns \cap Starts = {}
    /\ SessionOf \in [Txs -> Sessions]
    /\ Roads \subseteq Places \X Places
    /\ Starter \in Places
    /\ Origin \in [Keys -> Places]
    /\ Deltas \subseteq Int
    /\ AxisMin \in Int /\ AxisMax \in Int /\ AxisMin <= AxisMax
    /\ MaxAttempts \in Nat \ {0}

None == "none"
ASSUME NoneIsNoKey == None \notin Keys

Deliveries == Keys \X Sessions

VARIABLES
    canon,      \* committed: the entries of the timeline, <<sequence, transaction>>
    counter,    \* committed: WorldTimelineCounter.next_sequence
    axis,       \* committed: WorldAxisState.current_value
    active,     \* committed: broadcasts
    delivered,  \* committed: WorldBroadcastDelivery rows
    started,    \* committed: sessions
    where,      \* committed: Actor.current_location_id of a session's player
    stage,      \* where each transaction is
    attempt,    \* its attempt, from 1
    moves,      \* it sets the place of its player
    place,      \* the place of its player as it sees it
    todo,       \* deliveries it has to look for
    missing,    \* the delivery it did not find and inserts now, if any
    rows,       \* deliveries it has inserted
    told,       \* broadcasts its models are told
    delta,      \* the effect of its rule on the axis
    key,        \* the broadcast it sends
    read,       \* the axis as it read it
    written,    \* it has written the axis
    first,      \* its first sequence number, 0 when it has none
    count,      \* how many it took
    due,        \* history: broadcasts that were active for its place when it loaded
    expected,   \* history: the axis as the applied rules explain it
    late,       \* history: another one wrote the axis since this one read it
    raced       \* history: a late one has written it

world == <<canon, counter, axis, active, delivered, started, where>>
choices == <<moves, place, delta, key>>
work == <<todo, missing, rows>>
numbers == <<first, count>>
local == <<choices, work, told, read, written, numbers, due, late>>
vars == <<world, stage, attempt, local, expected, raced>>

Stages == {"idle", "sync", "think", "read", "axis", "number", "deliver", "commit",
           "done", "failed"}

Init ==
    /\ canon = {}
    /\ counter = 1
    /\ axis = AxisMin
    /\ active \in SUBSET Keys
    /\ started \in SUBSET Sessions
    /\ delivered \in SUBSET (active \X started)
    /\ where = [s \in Sessions |-> Starter]
    /\ stage = [t \in Txs |-> "idle"]
    /\ attempt = [t \in Txs |-> 1]
    /\ moves = [t \in Txs |-> FALSE]
    /\ place = [t \in Txs |-> Starter]
    /\ todo = [t \in Txs |-> {}]
    /\ missing = [t \in Txs |-> {}]
    /\ rows = [t \in Txs |-> {}]
    /\ told = [t \in Txs |-> {}]
    /\ delta = [t \in Txs |-> 0]
    /\ key = [t \in Txs |-> None]
    /\ read = [t \in Txs |-> AxisMin]
    /\ written = [t \in Txs |-> FALSE]
    /\ first = [t \in Txs |-> 0]
    /\ count = [t \in Txs |-> 0]
    /\ due = [t \in Txs |-> {}]
    /\ expected = axis
    /\ late = [t \in Txs |-> FALSE]
    /\ raced = FALSE

Goto(t, s) == stage' = [stage EXCEPT ![t] = s]
----------------------------------------------------------------------------
(* Deliveries *)

Nearby(p) == {q \in Places : <<p, q>> \in Roads \/ <<q, p>> \in Roads}
Affected(k) == {Origin[k]} \cup Nearby(Origin[k])

\* Fault: a session that travels into the scope of a broadcast is not told.
ToSyncAtOrigin(s, p) == {<<k, s>> : k \in {j \in active : p = Origin[j]}}

\* sync_active_broadcast_deliveries, for a session at a place.
ToSync(s, p) == {<<k, s>> : k \in {j \in active : p \in Affected(j)}}

Visible(t) == delivered \cup rows[t]

Look(t, d) ==
    /\ stage[t] \in {"sync", "deliver"}
    /\ missing[t] = {}
    /\ d \in todo[t]
    /\ todo' = [todo EXCEPT ![t] = @ \ {d}]
    /\ missing' = [missing EXCEPT ![t] = {d} \ Visible(t)]
    /\ UNCHANGED <<world, stage, attempt, choices, rows, told, read, written, numbers, due,
                   late, expected, raced>>

\* The insert waits for other transactions that have inserted the same row.
InsertDelivery(t) ==
    /\ missing[t] # {}
    /\ \A u \in Txs \ {t} : missing[t] \cap rows[u] = {}
    /\ missing[t] \cap delivered = {}
    /\ rows' = [rows EXCEPT ![t] = @ \cup missing[t]]
    /\ missing' = [missing EXCEPT ![t] = {}]
    /\ UNCHANGED <<world, stage, attempt, choices, todo, told, read, written, numbers, due,
                   late, expected, raced>>

Delivered(t) == todo[t] = {} /\ missing[t] = {}
----------------------------------------------------------------------------
(* A turn *)

\* load_prepared_turn_context_for_job.
Load(t) ==
    LET s == SessionOf[t] IN
    /\ t \in Turns
    /\ stage[t] = "idle"
    /\ s \in started
    /\ Goto(t, "sync")
    /\ place' = [place EXCEPT ![t] = where[s]]
    /\ todo' = [todo EXCEPT ![t] = ToSync(s, where[s])]
    /\ due' = [due EXCEPT ![t] = {k \in active : where[s] \in Affected(k)}]
    /\ UNCHANGED <<world, attempt, moves, delta, key, missing, rows, told, read, written,
                   numbers, late, expected, raced>>

\* pending_broadcast_constraints: every broadcast with a delivery, wherever the player is.
Tell(t) ==
    /\ t \in Turns
    /\ stage[t] = "sync"
    /\ Delivered(t)
    /\ Goto(t, "think")
    /\ told' = [told EXCEPT ![t] = {k \in Keys : <<k, SessionOf[t]>> \in Visible(t)}]
    /\ UNCHANGED <<world, attempt, choices, work, read, written, numbers, due, late,
                   expected, raced>>

\* The models answer: the player stays or travels, a rule may apply, and the turn may
\* be broadcast.
Think(t) ==
    /\ stage[t] = "think"
    /\ \E p \in {place[t]} \cup Nearby(place[t]) :
          /\ place' = [place EXCEPT ![t] = p]
          /\ moves' = [moves EXCEPT ![t] = p # place[t]]
          /\ \E k \in {None} \cup {j \in Keys : Origin[j] = p} : key' = [key EXCEPT ![t] = k]
    /\ \E d \in Deltas \cup {0} :
          /\ delta' = [delta EXCEPT ![t] = d]
          /\ Goto(t, IF d = 0 THEN "number" ELSE "read")
    /\ UNCHANGED <<world, attempt, work, told, read, written, numbers, due, late,
                   expected, raced>>

\* _apply_axis_deltas reads the row without locking it,
ReadAxis(t) ==
    /\ stage[t] = "read"
    /\ Goto(t, "axis")
    /\ read' = [read EXCEPT ![t] = axis]
    /\ late' = [late EXCEPT ![t] = FALSE]
    /\ UNCHANGED <<world, attempt, choices, work, told, written, numbers, due, expected,
                   raced>>

\* and the flush updates it, which waits for the end of another one's update.
WriteAxis(t) ==
    /\ stage[t] = "axis"
    /\ \A u \in Txs \ {t} : ~written[u]
    /\ Goto(t, "number")
    /\ written' = [written EXCEPT ![t] = TRUE]
    /\ UNCHANGED <<world, attempt, choices, work, told, read, numbers, due, late,
                   expected, raced>>

Counting(u) == first[u] # 0

\* Fault: the counter is read without a lock.
CounterFreeAlways(t) == TRUE

\* SELECT ... FOR UPDATE waits for the end of the transaction that counts.
CounterFree(t) == \A u \in Txs \ {t} : ~Counting(u)

\* Fault: the counter is advanced in a transaction of its own, whatever becomes of this one.
NextNumberKept(t) == counter + Cardinality({u \in Txs : stage[u] = "failed"})

NextNumber(t) == counter

\* canonicalize_event; then create_broadcast_from_turn delivers the broadcast to the
\* sessions that are in its scope now, and another number is taken for it.
NumberTurn(t) ==
    LET others == {s \in started \ {SessionOf[t]} : where[s] \in Affected(key[t])} IN
    /\ t \in Turns
    /\ stage[t] = "number"
    /\ CounterFree(t)
    /\ first' = [first EXCEPT ![t] = NextNumber(t)]
    /\ count' = [count EXCEPT ![t] = IF key[t] = None THEN 1 ELSE 2]
    /\ Goto(t, "deliver")
    /\ todo' = IF key[t] = None THEN todo
               ELSE [todo EXCEPT ![t] = {<<key[t], s>> : s \in others \cup {SessionOf[t]}}]
    /\ UNCHANGED <<world, attempt, choices, missing, rows, told, read, written, due, late,
                   expected, raced>>
----------------------------------------------------------------------------
(* The start of a session *)

\* create_session_for_user: an active session is resumed,
Resume(t) ==
    LET s == SessionOf[t] IN
    /\ t \in Starts
    /\ stage[t] = "idle"
    /\ s \in started
    /\ Goto(t, "deliver")
    /\ place' = [place EXCEPT ![t] = where[s]]
    /\ todo' = [todo EXCEPT ![t] = ToSync(s, where[s])]
    /\ UNCHANGED <<world, attempt, moves, delta, key, missing, rows, told, read, written,
                   numbers, due, late, expected, raced>>

\* or a new one begins at the starter location.
Open(t) ==
    /\ t \in Starts
    /\ stage[t] = "idle"
    /\ SessionOf[t] \notin started
    /\ Goto(t, "number")
    /\ moves' = [moves EXCEPT ![t] = TRUE]
    /\ place' = [place EXCEPT ![t] = Starter]
    /\ UNCHANGED <<world, attempt, delta, key, work, told, read, written, numbers, due,
                   late, expected, raced>>

\* Events: the player's profile when this is his first session, the start, the opening.
NumberStart(t) ==
    /\ t \in Starts
    /\ stage[t] = "number"
    /\ CounterFree(t)
    /\ first' = [first EXCEPT ![t] = NextNumber(t)]
    /\ \E n \in {2, 3} : count' = [count EXCEPT ![t] = n]
    /\ Goto(t, "deliver")
    /\ todo' = [todo EXCEPT ![t] = ToSync(SessionOf[t], Starter)]
    /\ UNCHANGED <<world, attempt, choices, missing, rows, told, read, written, due, late,
                   expected, raced>>
----------------------------------------------------------------------------
(* The ends of a transaction *)

Finish(t) ==
    /\ stage[t] = "deliver"
    /\ Delivered(t)
    /\ Goto(t, "commit")
    /\ UNCHANGED <<world, attempt, local, expected, raced>>

\* Fault: the result is kept in range above only.
ClampHigh(x) == IF x > AxisMax THEN AxisMax ELSE x

Clamp(x) == IF x < AxisMin THEN AxisMin ELSE IF x > AxisMax THEN AxisMax ELSE x

\* Fault: a rule is applied once for each tag that it matches.
ResultTwice(t) == Clamp(read[t] + 2 * delta[t])

Result(t) == Clamp(read[t] + delta[t])

\* A column whose value did not change is not in the update.
AxisAfter(t) == IF written[t] /\ Result(t) # read[t] THEN Result(t) ELSE axis

Forget(t) ==
    /\ moves' = [moves EXCEPT ![t] = FALSE]
    /\ place' = [place EXCEPT ![t] = Starter]
    /\ todo' = [todo EXCEPT ![t] = {}]
    /\ missing' = [missing EXCEPT ![t] = {}]
    /\ rows' = [rows EXCEPT ![t] = {}]
    /\ told' = [told EXCEPT ![t] = {}]
    /\ delta' = [delta EXCEPT ![t] = 0]
    /\ key' = [key EXCEPT ![t] = None]
    /\ read' = [read EXCEPT ![t] = AxisMin]
    /\ written' = [written EXCEPT ![t] = FALSE]
    /\ first' = [first EXCEPT ![t] = 0]
    /\ count' = [count EXCEPT ![t] = 0]
    /\ due' = [due EXCEPT ![t] = {}]

Entries(t) == {<<n, t>> : n \in first[t] .. first[t] + count[t] - 1}

Commit(t) ==
    LET s == SessionOf[t] IN
    /\ stage[t] = "commit"
    /\ canon' = canon \cup Entries(t)
    /\ counter' = IF Counting(t) THEN first[t] + count[t] ELSE counter
    /\ axis' = AxisAfter(t)
    /\ active' = active \cup ({key[t]} \ {None})
    /\ delivered' = delivered \cup rows[t]
    /\ started' = started \cup {s}
    /\ where' = [where EXCEPT ![s] = IF moves[t] THEN place[t] ELSE @]
    /\ Goto(t, "done")
    /\ expected' = IF written[t] THEN Clamp(expected + delta[t]) ELSE expected
    /\ late' = [u \in Txs |-> u # t /\ (late[u] \/ (written[t] /\ stage[u] = "axis"))]
    /\ raced' = (raced \/ (written[t] /\ late[t]))
    /\ Forget(t)
    /\ UNCHANGED attempt

RollBack(t) ==
    /\ Forget(t)
    /\ late' = [late EXCEPT ![t] = FALSE]
    /\ UNCHANGED <<world, expected, raced>>

Running(t) == stage[t] \notin {"idle", "done", "failed"}

\* The models fail, or the process stops.
Fail(t) ==
    /\ Running(t)
    /\ Goto(t, "failed")
    /\ RollBack(t)
    /\ UNCHANGED attempt

\* A delivery that was committed since it was looked for: IntegrityError is not retried.
Violate(t) ==
    /\ missing[t] \cap delivered # {}
    /\ Goto(t, "failed")
    /\ RollBack(t)
    /\ UNCHANGED attempt

WaitsFor(t, u) ==
    /\ u # t
    /\ \/ stage[t] = "axis" /\ written[u]
       \/ stage[t] = "number" /\ Counting(u)
       \/ missing[t] \cap rows[u] # {}

Deadlocked(D) ==
    \A t \in D : (\E u \in D : WaitsFor(t, u)) /\ (\E u \in D : WaitsFor(u, t))

\* The server ends one of the transactions; a turn whose attempts are not used up is
\* tried again.
EndDeadlock ==
    \E D \in SUBSET Txs :
        /\ Deadlocked(D)
        /\ \E t \in D :
              /\ IF t \in Turns /\ attempt[t] < MaxAttempts
                 THEN Goto(t, "idle") /\ attempt' = [attempt EXCEPT ![t] = @ + 1]
                 ELSE Goto(t, "failed") /\ UNCHANGED attempt
              /\ RollBack(t)
----------------------------------------------------------------------------
Deliver(t) == (\E d \in Deliveries : Look(t, d)) \/ InsertDelivery(t) \/ Violate(t)

Turn(t) == Load(t) \/ Tell(t) \/ Think(t) \/ ReadAxis(t) \/ WriteAxis(t) \/ NumberTurn(t)

Start(t) == Resume(t) \/ Open(t) \/ NumberStart(t)

Work(t) == Turn(t) \/ Start(t) \/ Deliver(t) \/ Finish(t) \/ Commit(t)

Next == (\E t \in Txs : Work(t) \/ Fail(t)) \/ EndDeadlock

Spec == Init /\ [][Next]_vars
----------------------------------------------------------------------------
TypeOK ==
    /\ canon \subseteq (Nat \ {0}) \X Txs
    /\ counter \in Nat \ {0}
    /\ axis \in AxisMin .. AxisMax
    /\ active \subseteq Keys
    /\ delivered \subseteq Deliveries
    /\ started \subseteq Sessions
    /\ where \in [Sessions -> Places]
    /\ stage \in [Txs -> Stages]
    /\ attempt \in [Txs -> 1 .. MaxAttempts]
    /\ moves \in [Txs -> BOOLEAN]
    /\ place \in [Txs -> Places]
    /\ todo \in [Txs -> SUBSET Deliveries]
    /\ missing \in [Txs -> SUBSET Deliveries]
    /\ rows \in [Txs -> SUBSET Deliveries]
    /\ told \in [Txs -> SUBSET Keys]
    /\ delta \in [Txs -> Deltas \cup {0}]
    /\ key \in [Txs -> Keys \cup {None}]
    /\ read \in [Txs -> AxisMin .. AxisMax]
    /\ written \in [Txs -> BOOLEAN]
    /\ first \in [Txs -> Nat]
    /\ count \in [Txs -> 0 .. 3]
    /\ due \in [Txs -> SUBSET Keys]
    /\ expected \in AxisMin .. AxisMax
    /\ late \in [Txs -> BOOLEAN]
    /\ raced \in BOOLEAN

\* What becomes visible together carries exactly the numbers that follow those already
\* visible, each once, whatever fails or is retried: the timeline has no hole, and a
\* reader that has seen number n has seen all before it.
NumberedInOrder ==
    [][LET new == canon' \ canon
       IN  /\ {e[1] : e \in new} = counter .. counter' - 1
           /\ \A e, f \in new : e[1] = f[1] => e = f]_vars

\* The axis is what the applied rules make of it in the order of their commits, as
\* world health recomputes it, unless a turn wrote over a value that it had not read.
AxisExplained == ~raced => axis = expected

\* A turn is told every broadcast that was active for its player's place when it began.
Informed == \A t \in Turns : stage[t] \notin {"idle", "sync", "done", "failed"} => due[t] \subseteq told[t]
=============================================================================
