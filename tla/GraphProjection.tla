--------------------------- MODULE GraphProjection ---------------------------
(***************************************************************************)
(* The outbox and the graph it feeds.  Every turn commits its event and an *)
(* outbox row together with what it changes.  Five kinds of transactions   *)
(* bring rows into the graph store, which takes part in none of them: the  *)
(* polling worker; the start of a session, which projects what is pending  *)
(* together with its own event before it commits; a preprocess run, which  *)
(* does the same with the events it seeds and gives up unless all of them  *)
(* are projected (here it is a session start, one event for its several);  *)
(* the operator's retry of failed rows; and his rebuild, which clears a    *)
(* world and projects all of its events again.                             *)
(*                                                                         *)
(* A bundle fails with the store, or because of what is in it: there are   *)
(* events that the store refuses whenever they are projected.              *)
(*                                                                         *)
(* An event's bundle shows the rows of the world as the transaction saw    *)
(* them first: the ORM keeps the rows of one bundle while it loads the     *)
(* next.  What a bundle shows is modelled by the set of commits in it.     *)
(***************************************************************************)
EXTENDS Naturals, FiniteSets

CONSTANTS
    Events,     \* events in the order of created_at, which is not that of their commits
    Doubtful,   \* those of them that the graph store may refuse
    Workers,    \* transactions under way at a time: workers,
    Requests,   \* session starts or retries of failed rows,
    Rebuilds,   \* and rebuilds
    Limit       \* rows that the start of a session projects

Procs == Workers \cup Requests \cup Rebuilds

ASSUME GraphConstants ==
    /\ Events \subseteq Nat \ {0}
    /\ Doubtful \subseteq Events
    /\ Limit \in Nat \ {0}
    /\ Workers \cap Requests = {}
    /\ Rebuilds \cap (Workers \cup Requests) = {}

NoEvent == 0

VARIABLES
    out,        \* committed: OutboxEvent.status, "none" when there is no row
    graph,      \* events that have a vertex in the graph store
    shown,      \* commits that the vertices of the world's rows show
    up,         \* the graph store answers
    unfit,      \* events that cannot be projected, which nobody knows before
    stage,      \* where each transaction is
    own,        \* the event a session start has inserted, not yet committed
    todo,       \* rows it has selected and not processed
    current,    \* the row it is processing
    view,       \* commits it sees, fixed with the first bundle
    loaded,     \* it has loaded a bundle
    good,       \* rows it has set to projected and not committed
    bad,        \* rows it has set to failed and not committed
    gone,       \* history: events of session starts that were rolled back
    broken,     \* history: a rebuild cleared the graph and none has completed since
    clean,      \* history: no other rebuild has cleared since this one did
    late,       \* history: another one wrote to the graph since it loaded its view
    stale       \* history: the last write to the world's rows was a late one

store == <<graph, shown>>
local == <<own, todo, current, view, loaded, good, bad>>
history == <<gone, broken, clean, late, stale>>
vars == <<out, store, up, unfit, stage, local, history>>

Status == {"none", "pending", "projected", "failed"}
Stages == {"idle", "dead", "done", "batch", "write", "commit", "clearing", "failing"}

\* A request is sent once, the worker polls again.
Over(p) == IF p \in Workers THEN "idle" ELSE "done"

Committed == {e \in Events : out[e] # "none"}
With(s) == {e \in Events : out[e] = s}

Init ==
    /\ out = [e \in Events |-> "none"]
    /\ graph = {}
    /\ shown = {}
    /\ up = TRUE
    /\ unfit \in SUBSET Doubtful
    /\ stage = [p \in Procs |-> "idle"]
    /\ own = [p \in Procs |-> NoEvent]
    /\ todo = [p \in Procs |-> {}]
    /\ current = [p \in Procs |-> NoEvent]
    /\ view = [p \in Procs |-> {}]
    /\ loaded = [p \in Procs |-> FALSE]
    /\ good = [p \in Procs |-> {}]
    /\ bad = [p \in Procs |-> {}]
    /\ gone = {}
    /\ broken = FALSE
    /\ clean = [p \in Procs |-> FALSE]
    /\ late = [p \in Procs |-> FALSE]
    /\ stale = FALSE
----------------------------------------------------------------------------
(* The environment *)

Unused(e) == out[e] = "none" /\ e \notin gone /\ \A p \in Procs : own[p] # e

\* A turn commits with its outbox row.
CommitTurn(e) ==
    /\ Unused(e)
    /\ out' = [out EXCEPT ![e] = "pending"]
    /\ UNCHANGED <<store, up, unfit, stage, local, history>>

GraphGoesDown ==
    /\ up
    /\ up' = FALSE
    /\ UNCHANGED <<out, store, unfit, stage, local, history>>

GraphComesUp ==
    /\ ~up
    /\ up' = TRUE
    /\ UNCHANGED <<out, store, unfit, stage, local, history>>
----------------------------------------------------------------------------
(* Selecting rows *)

Begin(p, rows) ==
    /\ stage[p] = "idle"
    /\ stage' = [stage EXCEPT ![p] = "batch"]
    /\ todo' = [todo EXCEPT ![p] = rows]
    /\ UNCHANGED <<out, store, up, unfit, current, view, loaded, good, bad, history>>

\* process_pending of the worker: all rows that are pending.
Poll(p) ==
    /\ p \in Workers
    /\ With("pending") # {}
    /\ Begin(p, With("pending"))
    /\ UNCHANGED own

Oldest(S) == {e \in S : Cardinality({f \in S : f < e}) < Limit}

\* POST /sessions inserts its event and projects the oldest rows, its own among them.
StartSession(p, e) ==
    /\ p \in Requests
    /\ Unused(e)
    /\ own' = [own EXCEPT ![p] = e]
    /\ Begin(p, Oldest(With("pending") \cup {e}))

RetryFailed(p) ==
    /\ p \in Requests
    /\ With("failed") # {}
    /\ Begin(p, With("failed"))
    /\ UNCHANGED own
----------------------------------------------------------------------------
(* _process_outbox_events *)

\* The UPDATE to "processing" waits for a row that another transaction has written.
Held(p) == good[p] \cup bad[p] \cup ({current[p]} \ {NoEvent})
Free(p, e) == \A q \in Procs \ {p} : q \in Rebuilds \/ e \notin Held(q)

\* Pending rows are processed by age, failed ones by the time of their last change.
ByAge(p) == p \in Requests => own[p] # NoEvent
IsNext(p, e) == e \in todo[p] /\ (ByAge(p) => \A f \in todo[p] : e <= f)

\* Fault: the rows of a bundle are those that others have committed.
SeenCommitted(p) == Committed

\* What a transaction sees: the commits so far and its own event.
Seen(p) == Committed \cup ({own[p]} \ {NoEvent})

\* _load_bundle.  A session start that has projected its event and not committed it is
\* not seen.
LoadBundle(p) ==
    /\ loaded' = [loaded EXCEPT ![p] = TRUE]
    /\ view' = IF loaded[p] THEN view ELSE [view EXCEPT ![p] = Seen(p)]
    /\ late' = IF loaded[p] THEN late
               ELSE [late EXCEPT ![p] = \E q \in Procs \ {p} : own[q] \in good[q]]

\* The row is set to "processing" and its bundle is loaded.
Take(p, e) ==
    /\ stage[p] = "batch"
    /\ IsNext(p, e)
    /\ p \in Rebuilds \/ Free(p, e)
    /\ stage' = [stage EXCEPT ![p] = "write"]
    /\ current' = [current EXCEPT ![p] = e]
    /\ todo' = [todo EXCEPT ![p] = @ \ {e}]
    /\ LoadBundle(p)
    /\ UNCHANGED <<out, store, up, unfit, own, good, bad, gone, broken, clean, stale>>

\* Every other transaction that has loaded its view is late from now on.
Overtake(p) == [q \in Procs |-> late[q] \/ (q # p /\ loaded[q])]

Next1(p) == stage' = [stage EXCEPT ![p] = "batch"]
Done1(p) == current' = [current EXCEPT ![p] = NoEvent]

\* project_bundle upserts every vertex and edge of the bundle.
WriteBundle(p) ==
    /\ stage[p] = "write"
    /\ up /\ current[p] \notin unfit
    /\ graph' = graph \cup {current[p]}
    /\ shown' = view[p]
    /\ good' = [good EXCEPT ![p] = @ \cup {current[p]}]
    /\ late' = Overtake(p)
    /\ stale' = late[p]
    /\ Next1(p) /\ Done1(p)
    /\ UNCHANGED <<out, up, unfit, own, todo, view, loaded, bad, gone, broken, clean>>

\* It fails: at once, or when some of the vertices are written.
FailsAtOnce(p) ==
    /\ ~up \/ current[p] \in unfit
    /\ UNCHANGED <<store, up, late, stale>>

BreaksOff(p) ==
    /\ up
    /\ up' = FALSE \/ (current[p] \in unfit /\ up' = up)
    /\ graph' \in {graph, graph \cup {current[p]}}
    /\ shown' = view[p]
    /\ late' = Overtake(p)
    /\ stale' = late[p]

\* The failure is caught and noted on the row; a rebuild it ends.
FailBundle(p) ==
    /\ stage[p] = "write"
    /\ FailsAtOnce(p) \/ BreaksOff(p)
    /\ bad' = [bad EXCEPT ![p] = @ \cup {current[p]}]
    /\ stage' = [stage EXCEPT ![p] = IF p \in Rebuilds THEN "failing" ELSE "batch"]
    /\ Done1(p)
    /\ UNCHANGED <<out, unfit, own, todo, view, loaded, good, gone, broken, clean>>

\* When all rows are done, the worker goes on to the memories that wait for an embedding.
EndBatch(p) ==
    /\ stage[p] = "batch"
    /\ todo[p] = {}
    /\ stage' = [stage EXCEPT ![p] = "commit"]
    /\ UNCHANGED <<out, store, up, unfit, local, history>>
----------------------------------------------------------------------------
(* The ends of a transaction *)

Forget(p) ==
    /\ own' = [own EXCEPT ![p] = NoEvent]
    /\ todo' = [todo EXCEPT ![p] = {}]
    /\ current' = [current EXCEPT ![p] = NoEvent]
    /\ view' = [view EXCEPT ![p] = {}]
    /\ loaded' = [loaded EXCEPT ![p] = FALSE]
    /\ good' = [good EXCEPT ![p] = {}]
    /\ bad' = [bad EXCEPT ![p] = {}]
    /\ late' = [late EXCEPT ![p] = FALSE]

\* Fault: a row whose bundle failed keeps the status it had meanwhile.
WrittenUnhandled(p) ==
    [e \in Events |->
        CASE e \in good[p] -> "projected"
          [] e \in bad[p] -> "processing"
          [] e = own[p] /\ e \notin good[p] \cup bad[p] -> "pending"
          [] OTHER -> out[e]]

\* The statuses a transaction leaves behind.
Written(p) ==
    [e \in Events |->
        CASE e \in good[p] -> "projected"
          [] e \in bad[p] -> "failed"
          [] e = own[p] /\ e \notin good[p] \cup bad[p] -> "pending"
          [] OTHER -> out[e]]

Commit(p) ==
    /\ stage[p] = "commit"
    /\ p \notin Rebuilds
    /\ out' = Written(p)
    /\ stage' = [stage EXCEPT ![p] = Over(p)]
    /\ Forget(p)
    /\ UNCHANGED <<store, up, unfit, gone, broken, clean, stale>>

\* Fault: only what was embedded counts.
FutileUnlessEmbedded(p) == p \in Workers

\* Nothing was projected; and, when this leads to a rollback, nothing embedded.
Futile(p) == p \in Workers /\ good[p] = {}

\* Nothing was achieved: the statuses "failed" are rolled back as well.
RollBackPoll(p) ==
    /\ stage[p] = "commit"
    /\ Futile(p)
    /\ stage' = [stage EXCEPT ![p] = Over(p)]
    /\ Forget(p)
    /\ UNCHANGED <<out, store, up, unfit, gone, broken, clean, stale>>

\* A request fails or is lost: the tables are rolled back, the graph is not.
Abort(p) ==
    /\ p \notin Workers
    /\ stage[p] \notin {"idle", "done"}
    /\ stage' = [stage EXCEPT ![p] = Over(p)]
    /\ gone' = gone \cup ({own[p]} \ {NoEvent})
    /\ Forget(p)
    /\ UNCHANGED <<out, store, up, unfit, broken, clean, stale>>

\* The worker catches nothing outside a bundle, and nothing restarts it but an operator.
Die(p) ==
    /\ p \in Workers
    /\ stage[p] # "dead"
    /\ stage' = [stage EXCEPT ![p] = "dead"]
    /\ Forget(p)
    /\ UNCHANGED <<out, store, up, unfit, gone, broken, clean, stale>>

Restart(p) ==
    /\ stage[p] = "dead"
    /\ stage' = [stage EXCEPT ![p] = "idle"]
    /\ UNCHANGED <<out, store, up, unfit, local, history>>
----------------------------------------------------------------------------
(* rebuild *)

\* The vertices to clear are those of the rows it sees now.
BeginRebuild(p) ==
    /\ p \in Rebuilds
    /\ stage[p] = "idle"
    /\ stage' = [stage EXCEPT ![p] = "clearing"]
    /\ todo' = [todo EXCEPT ![p] = Committed]
    /\ UNCHANGED <<out, store, up, unfit, own, current, view, loaded, good, bad, history>>

\* Fault: only events whose rows are projected are projected again.
ToRebuildProjected == With("projected")

ToRebuild == Committed

ClearWorld(p) ==
    /\ stage[p] = "clearing"
    /\ up
    /\ stage' = [stage EXCEPT ![p] = "batch"]
    /\ graph' = graph \ todo[p]
    /\ shown' = {}
    /\ todo' = [todo EXCEPT ![p] = ToRebuild]
    /\ broken' = TRUE
    /\ clean' = [q \in Procs |-> q = p]
    /\ late' = Overtake(p)
    /\ stale' = (stale \/ \E q \in Procs : good[q] # {})
    /\ UNCHANGED <<out, up, unfit, own, current, view, loaded, good, bad, gone>>

\* It is cleared in chunks of 50 vertices, and a chunk may fail.
ClearBreaksOff(p) ==
    /\ stage[p] = "clearing"
    /\ up
    /\ up' = FALSE
    /\ \E S \in SUBSET todo[p] : graph' = graph \ S
    /\ shown' \in {shown, {}}
    /\ broken' = TRUE
    /\ clean' = [q \in Procs |-> FALSE]
    /\ stage' = [stage EXCEPT ![p] = Over(p)]
    /\ late' = [Overtake(p) EXCEPT ![p] = FALSE]
    /\ todo' = [todo EXCEPT ![p] = {}]
    /\ UNCHANGED <<out, unfit, own, current, view, loaded, good, bad, gone, stale>>

\* The store or a bundle has failed it.
FailRebuild(p) ==
    /\ p \in Rebuilds
    /\ stage[p] = "failing" \/ (stage[p] = "clearing" /\ ~up)
    /\ stage' = [stage EXCEPT ![p] = Over(p)]
    /\ Forget(p)
    /\ UNCHANGED <<out, store, up, unfit, gone, broken, clean, stale>>

\* What it commits are projection records, which nobody reads back.
CommitRebuild(p) ==
    /\ p \in Rebuilds
    /\ stage[p] = "commit"
    /\ stage' = [stage EXCEPT ![p] = Over(p)]
    /\ broken' = (broken /\ ~clean[p])
    /\ Forget(p)
    /\ UNCHANGED <<out, store, up, unfit, gone, clean, stale>>
----------------------------------------------------------------------------
Bundle(p) ==
    \/ \E e \in Events : Take(p, e)
    \/ WriteBundle(p) \/ FailBundle(p) \/ EndBatch(p)

Work(p) ==
    \/ Bundle(p)
    \/ Commit(p) \/ RollBackPoll(p)
    \/ ClearWorld(p) \/ ClearBreaksOff(p) \/ FailRebuild(p) \/ CommitRebuild(p)

Request(p) ==
    \/ \E e \in Events : StartSession(p, e)
    \/ RetryFailed(p) \/ BeginRebuild(p)

Next ==
    \/ \E e \in Events : CommitTurn(e)
    \/ GraphGoesDown \/ GraphComesUp
    \/ \E p \in Procs : Poll(p) \/ Request(p) \/ Work(p) \/ Abort(p) \/ Die(p) \/ Restart(p)

\* Two transactions that wait for each other's rows: the server ends one of them.
WaitsFor(p, q) ==
    /\ stage[p] = "batch"
    /\ p \notin Rebuilds
    /\ \E e \in todo[p] \cap Held(q) : IsNext(p, e)
    /\ \A e \in todo[p] : ~(IsNext(p, e) /\ Free(p, e))

EndDeadlock ==
    \E p, q \in Procs : p # q /\ WaitsFor(p, q) /\ WaitsFor(q, p) /\ (Abort(p) \/ Die(p))

Spec == Init /\ [][Next]_vars

\* The worker polls for ever, and what has begun goes on.
FairSpec ==
    /\ Spec
    /\ \A p \in Procs : WF_vars(Work(p)) /\ WF_vars(Poll(p))
    /\ WF_vars(EndDeadlock)
----------------------------------------------------------------------------
TypeOK ==
    /\ out \in [Events -> Status]
    /\ graph \subseteq Events
    /\ shown \subseteq Events
    /\ up \in BOOLEAN
    /\ unfit \subseteq Events
    /\ stage \in [Procs -> Stages]
    /\ own \in [Procs -> Events \cup {NoEvent}]
    /\ todo \in [Procs -> SUBSET Events]
    /\ current \in [Procs -> Events \cup {NoEvent}]
    /\ view \in [Procs -> SUBSET Events]
    /\ loaded \in [Procs -> BOOLEAN]
    /\ good \in [Procs -> SUBSET Events]
    /\ bad \in [Procs -> SUBSET Events]
    /\ gone \subseteq Events
    /\ broken \in BOOLEAN
    /\ clean \in [Procs -> BOOLEAN]
    /\ late \in [Procs -> BOOLEAN]
    /\ stale \in BOOLEAN

\* A row says "projected" only when the graph has its event, unless a rebuild cleared the
\* graph and none has completed since: whatever fails, dies or overlaps, an event is
\* projected at least once before its row says so.
ProjectedInGraph == ~broken => With("projected") \subseteq graph

\* The vertices of the world's rows show every change whose event is projected, unless the
\* last write was that of a transaction that another had overtaken.
FreshUnlessOvertaken == ~broken /\ ~stale => With("projected") \subseteq shown

\* When the store stays up and the worker alive, every committed event that can be
\* projected leaves "pending", to the graph or to the operator: no failed row, rollback or
\* other transaction blocks it, nor an event that cannot be projected.  Such an event
\* itself is set to failed with a poll that projects another row; alone in its batch its
\* failure is rolled back with each poll.
Drains ==
    <>[](up /\ \A p \in Workers : stage[p] # "dead") => []<>(With("pending") \subseteq unfit)
=============================================================================
