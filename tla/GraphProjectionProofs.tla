------------------------ MODULE GraphProjectionProofs ------------------------
(***************************************************************************)
(* GraphProjection for every number of events, workers and requests.       *)
(***************************************************************************)
EXTENDS GraphProjection, TLAPS

Resting == {"idle", "dead", "done"}

\* What a transaction works on is committed, or is the event it has inserted itself; what
\* it takes from its selection is in the view its bundles show.
Shape(p) ==
    /\ stage[p] \in Resting \cup {"clearing"} => own[p] = NoEvent /\ ~loaded[p]
    /\ stage[p] \in Resting \cup {"commit"} => todo[p] = {}
    /\ stage[p] = "write" => current[p] \in Events /\ loaded[p]
    /\ stage[p] # "write" => current[p] = NoEvent
    /\ ~loaded[p] => good[p] = {} /\ bad[p] = {}
    /\ own[p] # NoEvent => out[own[p]] = "none"
    /\ own[p] \in good[p] => own[p] \in graph
    /\ \A e \in Events : /\ e \in good[p] \cup bad[p] \cup todo[p] \/ e = current[p]
                            => out[e] # "none" \/ e = own[p]
                         /\ loaded[p] /\ (e \in good[p] \cup todo[p] \/ e = current[p])
                            => e \in view[p]

OwnAlone == \A p, q \in Procs : own[p] # NoEvent /\ own[p] = own[q] => p = q

ShapeInv == TypeOK /\ OwnAlone /\ \A p \in Procs : Shape(p)

\* Events that are projected, or about to be committed as projected.
Claimed == {e \in Events : out[e] = "projected" \/ \E q \in Procs : e \in good[q]}

\* The last rebuild to clear the graph is under way, and what it has still to project.
Rebuilding(p) == p \in Rebuilds /\ clean[p] /\ stage[p] \in {"batch", "write", "commit"}
Left(p) == todo[p] \cup {current[p]}

GraphInv ==
    /\ ~broken => Claimed \subseteq graph
    /\ \A p \in Procs : Rebuilding(p) => Claimed \subseteq graph \cup Left(p)

\* Who has not been overtaken sees all that is claimed.
UpToDate(p) == loaded[p] /\ ~late[p] => Claimed \subseteq view[p]

\* The graph was cleared and nothing has been written to it since.
Empty ==
    /\ broken
    /\ \A p \in Procs : Rebuilding(p) =>
          /\ \A q \in Procs : good[q] = {}
          /\ Claimed \subseteq Left(p)

FreshInv ==
    /\ \A p \in Procs : UpToDate(p)
    /\ ~stale => Claimed \subseteq shown \/ Empty

USE GraphConstants DEF NoEvent
----------------------------------------------------------------------------
(* Shape *)

LEMMA ForgetType ==
    ASSUME TypeOK, NEW p \in Procs, Forget(p)
    PROVE  /\ own' \in [Procs -> Events \cup {NoEvent}]
           /\ todo' \in [Procs -> SUBSET Events]
           /\ current' \in [Procs -> Events \cup {NoEvent}]
           /\ view' \in [Procs -> SUBSET Events]
           /\ loaded' \in [Procs -> BOOLEAN]
           /\ good' \in [Procs -> SUBSET Events]
           /\ bad' \in [Procs -> SUBSET Events]
           /\ late' \in [Procs -> BOOLEAN]
<1>1. own' \in [Procs -> Events \cup {NoEvent}] /\ current' \in [Procs -> Events \cup {NoEvent}]
    BY DEF TypeOK, Forget
<1>2. /\ todo' \in [Procs -> SUBSET Events] /\ view' \in [Procs -> SUBSET Events]
      /\ good' \in [Procs -> SUBSET Events] /\ bad' \in [Procs -> SUBSET Events]
    BY DEF TypeOK, Forget
<1>3. loaded' \in [Procs -> BOOLEAN] /\ late' \in [Procs -> BOOLEAN]
    BY DEF TypeOK, Forget
<1>. QED
    BY <1>1, <1>2, <1>3

\* What is left of a transaction that ends.
Forgotten(p) ==
    /\ own'[p] = NoEvent /\ todo'[p] = {} /\ current'[p] = NoEvent
    /\ ~loaded'[p] /\ good'[p] = {} /\ bad'[p] = {} /\ late'[p] = FALSE
    /\ \A q \in Procs \ {p} :
          /\ own'[q] = own[q] /\ todo'[q] = todo[q] /\ current'[q] = current[q]
          /\ view'[q] = view[q] /\ loaded'[q] = loaded[q] /\ good'[q] = good[q]
          /\ bad'[q] = bad[q] /\ late'[q] = late[q]

LEMMA ForgetRest ==
    ASSUME TypeOK, NEW p \in Procs, Forget(p)
    PROVE  Forgotten(p)
<1>1. own'[p] = NoEvent /\ todo'[p] = {} /\ current'[p] = NoEvent
    BY DEF TypeOK, Forget
<1>2. ~loaded'[p] /\ good'[p] = {} /\ bad'[p] = {} /\ late'[p] = FALSE
    BY DEF TypeOK, Forget
<1>3. \A q \in Procs \ {p} :
         /\ own'[q] = own[q] /\ todo'[q] = todo[q] /\ current'[q] = current[q]
         /\ view'[q] = view[q] /\ loaded'[q] = loaded[q] /\ good'[q] = good[q]
         /\ bad'[q] = bad[q] /\ late'[q] = late[q]
    BY DEF TypeOK, Forget
<1>. QED
    BY <1>1, <1>2, <1>3 DEF Forgotten

\* A transaction ends or dies, and takes back what it has not committed.
Ends(p) ==
    /\ Forget(p)
    /\ \E s \in Resting : stage' = [stage EXCEPT ![p] = s]
    /\ UNCHANGED <<out, graph, shown, up, unfit, clean, stale>>

LEMMA EndsKeepsShape ==
    ASSUME ShapeInv, NEW p \in Procs, Ends(p), gone' \subseteq Events, broken' \in BOOLEAN
    PROVE  ShapeInv'
<1>1. TypeOK /\ OwnAlone /\ \A q \in Procs : Shape(q)
    BY DEF ShapeInv
<1>2. Forget(p) /\ Forgotten(p)
    BY <1>1, ForgetRest DEF Ends
<1>3. stage'[p] \in Resting /\ \A q \in Procs \ {p} : stage'[q] = stage[q]
    BY <1>1 DEF Ends, TypeOK
<1>4. TypeOK'
  <2>1. stage' \in [Procs -> Stages]
      BY <1>1 DEF Ends, TypeOK, Stages, Resting
  <2>. QED
      BY <1>1, <1>2, <2>1, ForgetType DEF Ends, TypeOK
<1>5. OwnAlone'
    BY <1>1, <1>2 DEF OwnAlone, Forgotten
<1>6. \A q \in Procs \ {p} : Shape(q)'
  <2>1. UNCHANGED <<out, graph>>
      BY DEF Ends
  <2>. QED
      BY <1>1, <1>2, <1>3, <2>1 DEF Shape, Forgotten
<1>7. Shape(p)'
  <2>1. stage'[p] # "write" /\ own'[p] \notin good'[p]
      BY <1>1, <1>2, <1>3 DEF Resting, Forgotten
  <2>. QED
      BY <1>1, <1>2, <1>3, <2>1 DEF Shape, Forgotten
<1>. QED
    BY <1>4, <1>5, <1>6, <1>7 DEF ShapeInv

\* Nothing of another transaction changes.
Same(q) ==
    /\ stage'[q] = stage[q] /\ own'[q] = own[q] /\ todo'[q] = todo[q]
    /\ current'[q] = current[q] /\ view'[q] = view[q] /\ loaded'[q] = loaded[q]
    /\ good'[q] = good[q] /\ bad'[q] = bad[q]

LEMMA SameShape ==
    ASSUME NEW q \in Procs, Shape(q), Same(q),
           \A e \in Events : out[e] # "none" => out'[e] # "none",
           own[q] # NoEvent => out'[own[q]] = "none",
           own[q] \in good[q] => own[q] \in graph'
    PROVE  Shape(q)'
BY DEF Shape, Same

LEMMA CommitKeepsShape ==
    ASSUME ShapeInv, NEW p \in Procs, Commit(p)
    PROVE  ShapeInv'
<1>1. TypeOK /\ OwnAlone /\ \A q \in Procs : Shape(q)
    BY DEF ShapeInv
<1>2. Forget(p) /\ Forgotten(p) /\ out' = Written(p)
      /\ UNCHANGED <<graph, shown, up, unfit, gone, broken, clean, stale>>
    BY <1>1, ForgetRest DEF Commit, store
<1>3. stage'[p] \in Resting /\ \A q \in Procs \ {p} : stage'[q] = stage[q]
    BY <1>1 DEF Commit, Over, Resting, TypeOK
<1>4. \A e \in Events : /\ out'[e] \in Status
                        /\ out[e] # "none" => out'[e] # "none"
                        /\ out[e] = "none" /\ e # own[p] => out'[e] = "none"
  <2>. SUFFICES ASSUME NEW e \in Events
                PROVE  /\ out'[e] \in Status
                       /\ out[e] # "none" => out'[e] # "none"
                       /\ out[e] = "none" /\ e # own[p] => out'[e] = "none"
      OBVIOUS
  <2>1. out[e] \in Status /\ "projected" \in Status /\ "failed" \in Status /\ "pending" \in Status
      BY <1>1 DEF TypeOK, Status
  <2>2. e \in good[p] \cup bad[p] => out[e] # "none" \/ e = own[p]
      BY <1>1 DEF Shape
  <2>3. out'[e] = CASE e \in good[p] -> "projected"
                    [] e \in bad[p] -> "failed"
                    [] e = own[p] /\ e \notin good[p] \cup bad[p] -> "pending"
                    [] OTHER -> out[e]
      BY <1>2 DEF Written
  <2>4. \/ out'[e] = out[e] /\ e # own[p]
        \/ /\ out'[e] \in {"projected", "failed", "pending"}
           /\ out[e] # "none" \/ e = own[p]
      BY <2>2, <2>3
  <2>. QED
      BY <2>1, <2>4
<1>5. TypeOK'
  <2>1. out' \in [Events -> Status]
      BY <1>2, <1>4 DEF Written
  <2>2. stage' \in [Procs -> Stages]
      BY <1>1 DEF Commit, Over, TypeOK, Stages
  <2>. QED
      BY <1>1, <1>2, <2>1, <2>2, ForgetType DEF TypeOK
<1>6. OwnAlone'
    BY <1>1, <1>2 DEF OwnAlone, Forgotten
<1>7. ASSUME NEW q \in Procs \ {p}
      PROVE  Shape(q)'
  <2>1. own[q] # NoEvent => own[q] \in Events /\ own[q] # own[p]
      BY <1>1 DEF TypeOK, OwnAlone
  <2>5. own[q] # NoEvent => out[own[q]] = "none"
      BY <1>1 DEF Shape
  <2>2. own[q] # NoEvent => out'[own[q]] = "none"
      BY <1>4, <2>1, <2>5
  <2>3. Shape(q) /\ UNCHANGED graph
      BY <1>1, <1>2
  <2>4. Same(q)
      BY <1>2, <1>3 DEF Same, Forgotten
  <2>. QED
      BY <1>4, <2>1, <2>2, <2>3, <2>4, SameShape DEF Shape, Same
<1>8. Shape(p)'
  <2>1. stage'[p] # "write" /\ own'[p] \notin good'[p]
      BY <1>1, <1>2, <1>3 DEF Resting, Forgotten
  <2>. QED
      BY <1>1, <1>2, <1>3, <2>1 DEF Shape, Forgotten
<1>. QED
    BY <1>5, <1>6, <1>7, <1>8 DEF ShapeInv

LEMMA BeginKeepsShape ==
    ASSUME ShapeInv, NEW p \in Procs,
           Poll(p) \/ RetryFailed(p) \/ (\E e \in Events : StartSession(p, e)) \/ BeginRebuild(p)
    PROVE  ShapeInv'
<1>1. TypeOK /\ OwnAlone /\ \A q \in Procs : Shape(q)
    BY DEF ShapeInv
<1>2. UNCHANGED <<out, store, up, unfit, current, view, loaded, good, bad, history>>
    BY DEF Poll, RetryFailed, StartSession, BeginRebuild, Begin
<1>3. stage[p] = "idle" /\ \E s \in {"batch", "clearing"} : stage' = [stage EXCEPT ![p] = s]
    BY DEF Poll, RetryFailed, StartSession, BeginRebuild, Begin
<1>4. PICK n \in Events \cup {NoEvent}, S \in SUBSET Events :
         /\ own' = [own EXCEPT ![p] = n]
         /\ todo' = [todo EXCEPT ![p] = S]
         /\ n # NoEvent => stage' = [stage EXCEPT ![p] = "batch"] /\ Unused(n)
         /\ \A e \in S : out[e] # "none" \/ e = n
  <2>1. CASE Poll(p) \/ RetryFailed(p) \/ BeginRebuild(p)
    <3>3. own' = own
        BY <2>1 DEF Poll, RetryFailed, BeginRebuild
    <3>4. own[p] = NoEvent
        BY <1>1, <1>3 DEF Shape, Resting
    <3>1. own' = [own EXCEPT ![p] = NoEvent]
        BY <1>1, <3>3, <3>4 DEF TypeOK
    <3>2. PICK S \in SUBSET Events : todo' = [todo EXCEPT ![p] = S]
                                     /\ \A e \in S : out[e] # "none"
        BY <2>1, ZenonT(30) DEF Poll, RetryFailed, BeginRebuild, Begin, With, Committed
    <3>. QED
        BY <3>1, <3>2
  <2>2. ASSUME NEW e \in Events, StartSession(p, e)
        PROVE  \E n \in Events \cup {NoEvent}, S \in SUBSET Events :
                 /\ own' = [own EXCEPT ![p] = n]
                 /\ todo' = [todo EXCEPT ![p] = S]
                 /\ n # NoEvent => stage' = [stage EXCEPT ![p] = "batch"] /\ Unused(n)
                 /\ \A f \in S : out[f] # "none" \/ f = n
    <3>. DEFINE S == Oldest(With("pending") \cup {e})
    <3>1. own' = [own EXCEPT ![p] = e] /\ todo' = [todo EXCEPT ![p] = S]
          /\ stage' = [stage EXCEPT ![p] = "batch"] /\ Unused(e)
        BY <2>2 DEF StartSession, Begin
    <3>2. S \in SUBSET Events /\ \A f \in S : out[f] # "none" \/ f = e
        BY DEF Oldest, With
    <3>. HIDE DEF S
    <3>. QED
        BY <3>1, <3>2
  <2>. QED
      BY <2>1, <2>2
<1>5. TypeOK'
  <2>1. stage' \in [Procs -> Stages]
      BY <1>1, <1>3 DEF TypeOK, Stages
  <2>. QED
      BY <1>1, <1>2, <1>4, <2>1 DEF TypeOK, store, history
<1>6. \A q \in Procs \ {p} : Same(q) /\ Shape(q)'
  <2>1. \A q \in Procs \ {p} : Same(q)
      BY <1>1, <1>2, <1>3, <1>4 DEF Same, TypeOK
  <2>. QED
      BY <1>1, <1>2, <2>1, SameShape DEF Shape, store
<1>7. OwnAlone'
  <2>1. \A q \in Procs \ {p} : own'[q] = own[q]
      BY <1>6 DEF Same
  <2>2. own'[p] = n
      BY <1>1, <1>4 DEF TypeOK
  <2>. QED
      BY <1>1, <1>4, <2>1, <2>2 DEF OwnAlone, Unused
<1>8. Shape(p)'
  <2>1. own'[p] = n /\ todo'[p] = S /\ stage'[p] \in {"batch", "clearing"}
        /\ (n # NoEvent => stage'[p] = "batch" /\ out[n] = "none")
      BY <1>1, <1>3, <1>4 DEF TypeOK, Unused
  <2>2. ~loaded[p] /\ good[p] = {} /\ bad[p] = {} /\ current[p] = NoEvent
      BY <1>1, <1>3 DEF Shape, Resting
  <2>. QED
      BY <1>2, <1>4, <2>1, <2>2 DEF Shape, Resting
<1>. QED
    BY <1>5, <1>6, <1>7, <1>8 DEF ShapeInv

LEMMA TakeKeepsShape ==
    ASSUME ShapeInv, NEW p \in Procs, NEW e \in Events, Take(p, e)
    PROVE  ShapeInv'
<1>1. TypeOK /\ OwnAlone /\ \A q \in Procs : Shape(q)
    BY DEF ShapeInv
<1>2. /\ stage[p] = "batch" /\ e \in todo[p]
      /\ stage' = [stage EXCEPT ![p] = "write"]
      /\ current' = [current EXCEPT ![p] = e]
      /\ todo' = [todo EXCEPT ![p] = @ \ {e}]
      /\ loaded' = [loaded EXCEPT ![p] = TRUE]
      /\ view' = IF loaded[p] THEN view ELSE [view EXCEPT ![p] = Seen(p)]
      /\ UNCHANGED <<out, store, up, unfit, own, good, bad, gone, broken, clean, stale>>
    BY DEF Take, IsNext, LoadBundle
<1>3. Seen(p) \subseteq Events
    BY <1>1 DEF Seen, Committed, TypeOK
<1>4. late' \in [Procs -> BOOLEAN]
    BY <1>1 DEF Take, LoadBundle, TypeOK
<1>5. TypeOK'
  <2>1. view' \in [Procs -> SUBSET Events]
      BY <1>1, <1>2, <1>3 DEF TypeOK
  <2>2. current' \in [Procs -> Events \cup {NoEvent}] /\ todo' \in [Procs -> SUBSET Events]
        /\ stage' \in [Procs -> Stages] /\ loaded' \in [Procs -> BOOLEAN]
      BY <1>1, <1>2 DEF TypeOK, Stages
  <2>3. UNCHANGED <<out, graph, shown, up, unfit, own, good, bad, gone, broken, clean, stale>>
      BY <1>2 DEF store
  <2>. QED
      BY <1>1, <1>4, <2>1, <2>2, <2>3 DEF TypeOK
<1>6. \A q \in Procs \ {p} : Same(q) /\ Shape(q)'
  <2>1. \A q \in Procs \ {p} : Same(q)
      BY <1>1, <1>2 DEF Same, TypeOK
  <2>. QED
      BY <1>1, <1>2, <2>1, SameShape DEF Shape, store
<1>7. OwnAlone'
    BY <1>1, <1>2 DEF OwnAlone
<1>8. Shape(p)'
  <2>1. stage'[p] = "write" /\ current'[p] = e /\ todo'[p] = todo[p] \ {e} /\ loaded'[p]
        /\ view'[p] = IF loaded[p] THEN view[p] ELSE Seen(p)
      BY <1>1, <1>2 DEF TypeOK
  <2>2. UNCHANGED <<out, graph, own, good, bad>>
      BY <1>2 DEF store
  <2>3. \A f \in Events : f \in good[p] \cup todo[p] => f \in view'[p]
      BY <1>1, <2>1 DEF Shape, Seen, Committed, TypeOK
  <2>4. \A f \in Events : f \in good[p] \cup bad[p] \cup todo[p] => out[f] # "none" \/ f = own[p]
      BY <1>1 DEF Shape
  <2>5. /\ own[p] # NoEvent => out[own[p]] = "none"
        /\ own[p] \in good[p] => own[p] \in graph
      BY <1>1 DEF Shape
  <2>6. stage'[p] \notin Resting \cup {"clearing", "commit"}
      BY <2>1 DEF Resting
  <2>7. \A f \in Events :
           /\ f \in good'[p] \cup bad'[p] \cup todo'[p] \/ f = current'[p]
                => out'[f] # "none" \/ f = own'[p]
           /\ f \in good'[p] \cup todo'[p] \/ f = current'[p] => f \in view'[p]
      BY <1>2, <2>1, <2>2, <2>3, <2>4
  <2>. QED
      BY <2>1, <2>2, <2>5, <2>6, <2>7 DEF Shape
<1>. QED
    BY <1>5, <1>6, <1>7, <1>8 DEF ShapeInv

LEMMA BundleKeepsShape ==
    ASSUME ShapeInv, NEW p \in Procs, WriteBundle(p) \/ FailBundle(p)
    PROVE  ShapeInv'
<1>1. TypeOK /\ OwnAlone /\ \A q \in Procs : Shape(q)
    BY DEF ShapeInv
<1>2. /\ stage[p] = "write"
      /\ \E s \in {"batch", "failing"} : stage' = [stage EXCEPT ![p] = s]
      /\ current' = [current EXCEPT ![p] = NoEvent]
      /\ UNCHANGED <<out, unfit, own, todo, view, loaded, gone, broken, clean>>
    BY DEF WriteBundle, FailBundle, Next1, Done1
<1>3. current[p] \in Events
    BY <1>1, <1>2 DEF Shape
<1>4. /\ \/ good' = [good EXCEPT ![p] = @ \cup {current[p]}] /\ bad' = bad
            /\ graph' = graph \cup {current[p]}
         \/ /\ bad' = [bad EXCEPT ![p] = @ \cup {current[p]}] /\ good' = good
            /\ graph' \in {graph, graph \cup {current[p]}}
      /\ shown' = shown \/ shown' = view[p]
      /\ late' \in [Procs -> BOOLEAN] /\ stale' \in BOOLEAN /\ up' \in BOOLEAN
  <2>1. Overtake(p) \in [Procs -> BOOLEAN] /\ late[p] \in BOOLEAN
        /\ late \in [Procs -> BOOLEAN] /\ stale \in BOOLEAN
      BY <1>1 DEF Overtake, TypeOK
  <2>2. CASE WriteBundle(p)
      BY <2>1, <2>2 DEF WriteBundle
  <2>3. CASE FailBundle(p)
    <3>1. bad' = [bad EXCEPT ![p] = @ \cup {current[p]}] /\ good' = good
        BY <2>3 DEF FailBundle, Next1, Done1
    <3>2. FailsAtOnce(p) \/ BreaksOff(p)
        BY <2>3 DEF FailBundle
    <3>3. CASE FailsAtOnce(p)
      <4>1. UNCHANGED <<graph, shown, up, late, stale>>
          BY <3>3 DEF FailsAtOnce, store
      <4>2. up \in BOOLEAN
          BY <1>1 DEF TypeOK
      <4>. QED
          BY <2>1, <3>1, <4>1, <4>2
    <3>4. CASE BreaksOff(p)
      <4>1. graph' \in {graph, graph \cup {current[p]}} /\ shown' = view[p]
          BY <3>4 DEF BreaksOff
      <4>3. up' \in BOOLEAN
          BY <1>1, <3>4 DEF BreaksOff, TypeOK
      <4>2. late' = Overtake(p) /\ stale' = late[p]
          BY <3>4 DEF BreaksOff
      <4>. QED
          BY <2>1, <3>1, <4>1, <4>2, <4>3
    <3>. QED
        BY <3>2, <3>3, <3>4
  <2>. QED
      BY <2>2, <2>3
<1>5. TypeOK'
  <2>1. good' \in [Procs -> SUBSET Events] /\ bad' \in [Procs -> SUBSET Events]
      BY <1>1, <1>3, <1>4 DEF TypeOK
  <2>2. graph' \subseteq Events /\ shown' \subseteq Events
      BY <1>1, <1>3, <1>4 DEF TypeOK
  <2>3. stage' \in [Procs -> Stages] /\ current' \in [Procs -> Events \cup {NoEvent}]
      BY <1>1, <1>2 DEF TypeOK, Stages
  <2>. QED
      BY <1>1, <1>2, <1>4, <2>1, <2>2, <2>3 DEF TypeOK
<1>6. \A q \in Procs \ {p} : Same(q) /\ Shape(q)'
  <2>1. \A q \in Procs \ {p} : Same(q)
      BY <1>1, <1>2, <1>4 DEF Same, TypeOK
  <2>. QED
      BY <1>1, <1>2, <1>4, <2>1, SameShape DEF Shape
<1>7. OwnAlone'
    BY <1>1, <1>2 DEF OwnAlone
<1>8. Shape(p)'
  <2>1. stage'[p] \in {"batch", "failing"} /\ current'[p] = NoEvent /\ loaded[p]
      BY <1>1, <1>2 DEF TypeOK, Shape
  <2>2. \/ good'[p] = good[p] \cup {current[p]} /\ bad'[p] = bad[p]
           /\ graph' = graph \cup {current[p]}
        \/ /\ bad'[p] = bad[p] \cup {current[p]} /\ good'[p] = good[p]
           /\ graph \subseteq graph'
      BY <1>1, <1>4 DEF TypeOK
  <2>. QED
      BY <1>1, <1>2, <1>3, <2>1, <2>2 DEF Shape, Resting
<1>. QED
    BY <1>5, <1>6, <1>7, <1>8 DEF ShapeInv

LEMMA ClearKeepsShape ==
    ASSUME ShapeInv, NEW p \in Procs, ClearWorld(p) \/ ClearBreaksOff(p)
    PROVE  ShapeInv'
<1>1. TypeOK /\ OwnAlone /\ \A q \in Procs : Shape(q)
    BY DEF ShapeInv
<1>2. /\ stage[p] = "clearing"
      /\ graph \ todo[p] \subseteq graph' /\ graph' \subseteq graph
      /\ UNCHANGED <<out, unfit, own, current, view, loaded, good, bad, gone>>
    BY DEF ClearWorld, ClearBreaksOff
<1>3. /\ \/ /\ stage' = [stage EXCEPT ![p] = "batch"]
            /\ todo' = [todo EXCEPT ![p] = Committed]
         \/ /\ \E s \in Resting : stage' = [stage EXCEPT ![p] = s]
            /\ todo' = [todo EXCEPT ![p] = {}]
    BY DEF ClearWorld, ClearBreaksOff, ToRebuild, Over, Resting
<1>4. /\ shown' \subseteq Events /\ up' \in BOOLEAN /\ broken' \in BOOLEAN
      /\ clean' \in [Procs -> BOOLEAN] /\ late' \in [Procs -> BOOLEAN] /\ stale' \in BOOLEAN
  <2>1. Overtake(p) \in [Procs -> BOOLEAN]
      BY <1>1 DEF Overtake, TypeOK
  <2>2. shown \subseteq Events /\ stale \in BOOLEAN /\ up \in BOOLEAN
      BY <1>1 DEF TypeOK
  <2>3. CASE ClearWorld(p)
      BY <2>1, <2>2, <2>3 DEF ClearWorld
  <2>4. CASE ClearBreaksOff(p)
      BY <2>1, <2>2, <2>4 DEF ClearBreaksOff
  <2>. QED
      BY <2>3, <2>4
<1>5. TypeOK'
  <2>1. stage' \in [Procs -> Stages]
      BY <1>1, <1>3 DEF TypeOK, Stages, Resting
  <2>2. todo' \in [Procs -> SUBSET Events]
      BY <1>1, <1>3 DEF TypeOK, Committed
  <2>. QED
      BY <1>1, <1>2, <1>4, <2>1, <2>2 DEF TypeOK
<1>6. ASSUME NEW q \in Procs \ {p}
      PROVE  Shape(q)'
  <2>4. stage'[q] = stage[q] /\ todo'[q] = todo[q]
      BY <1>1, <1>3 DEF TypeOK
  <2>1. Same(q)
      BY <1>2, <2>4 DEF Same
  <2>2. own[q] # NoEvent => own[q] \in Events /\ own[q] \notin todo[p]
    <3>1. own[p] = NoEvent /\ (own[q] # NoEvent => own[q] \in Events /\ out[own[q]] = "none")
        BY <1>1, <1>2 DEF Shape, TypeOK
    <3>2. \A e \in Events : e \in todo[p] => out[e] # "none" \/ e = own[p]
        BY <1>1 DEF Shape
    <3>. QED
        BY <3>1, <3>2
  <2>3. own[q] \in good[q] => own[q] \in graph'
      BY <1>1, <1>2, <2>2 DEF Shape, TypeOK
  <2>. QED
      BY <1>1, <1>2, <2>1, <2>3, SameShape DEF Shape
<1>7. OwnAlone'
    BY <1>1, <1>2 DEF OwnAlone
<1>8. Shape(p)'
  <2>1. own[p] = NoEvent /\ ~loaded[p] /\ current[p] = NoEvent /\ good[p] = {} /\ bad[p] = {}
      BY <1>1, <1>2 DEF Shape
  <2>2. \/ stage'[p] = "batch" /\ todo'[p] = Committed
        \/ stage'[p] \in Resting /\ todo'[p] = {}
      BY <1>1, <1>3 DEF TypeOK
  <2>. QED
      BY <1>2, <2>1, <2>2 DEF Shape, Resting, Committed
<1>. QED
    BY <1>5, <1>6, <1>7, <1>8 DEF ShapeInv

LEMMA ShapeStep == ShapeInv /\ [Next]_vars => ShapeInv'
<1>. SUFFICES ASSUME ShapeInv, [Next]_vars
              PROVE  ShapeInv'
    OBVIOUS
<1>1. TypeOK /\ OwnAlone /\ \A q \in Procs : Shape(q)
    BY DEF ShapeInv
<1>2. ASSUME NEW e \in Events, CommitTurn(e)
      PROVE  ShapeInv'
  <2>1. out' = [out EXCEPT ![e] = "pending"] /\ UNCHANGED <<store, up, unfit, stage, local, history>>
        /\ \A q \in Procs : own[q] # e
      BY <1>2 DEF CommitTurn, Unused
  <2>2. TypeOK'
      BY <1>1, <2>1 DEF TypeOK, Status, store, local, history
  <2>3. OwnAlone'
      BY <1>1, <2>1 DEF OwnAlone, local
  <2>4. \A q \in Procs : Same(q)
      BY <2>1 DEF Same, local
  <2>5. \A q \in Procs : Shape(q)'
    <3>. SUFFICES ASSUME NEW q \in Procs
                  PROVE  Shape(q)'
        OBVIOUS
    <3>1. own[q] # NoEvent => out'[own[q]] = "none"
        BY <1>1, <2>1 DEF Shape, TypeOK
    <3>2. own[q] \in good[q] => own[q] \in graph'
        BY <1>1, <2>1 DEF Shape, store
    <3>3. \A f \in Events : out[f] # "none" => out'[f] # "none"
        BY <1>1, <2>1 DEF TypeOK
    <3>. QED
        BY <1>1, <2>4, <3>1, <3>2, <3>3, SameShape
  <2>. QED
      BY <2>2, <2>3, <2>5 DEF ShapeInv
<1>3. ASSUME UNCHANGED <<out, store, unfit, local, history>>, up' \in BOOLEAN, stage' = stage
      PROVE  ShapeInv'
  <2>1. \A q \in Procs : Same(q)
      BY <1>3 DEF Same, local
  <2>2. \A q \in Procs : Shape(q)'
      BY <1>1, <1>3, <2>1, SameShape DEF Shape, store
  <2>. QED
      BY <1>1, <1>3, <2>2 DEF ShapeInv, TypeOK, OwnAlone, store, local, history
<1>4. ASSUME NEW p \in Procs, EndBatch(p) \/ Restart(p)
      PROVE  ShapeInv'
  <2>1. /\ \/ stage[p] = "batch" /\ todo[p] = {} /\ stage' = [stage EXCEPT ![p] = "commit"]
           \/ stage[p] = "dead" /\ stage' = [stage EXCEPT ![p] = "idle"]
        /\ UNCHANGED <<out, store, up, unfit, local, history>>
      BY <1>4 DEF EndBatch, Restart
  <2>2. TypeOK' /\ OwnAlone'
      BY <1>1, <2>1 DEF TypeOK, OwnAlone, Stages, store, local, history
  <2>3. \A q \in Procs \ {p} : Shape(q)'
    <3>1. \A q \in Procs \ {p} : Same(q)
        BY <1>1, <2>1 DEF Same, local, TypeOK
    <3>. QED
        BY <1>1, <2>1, <3>1, SameShape DEF Shape, store
  <2>4. Shape(p)'
      BY <1>1, <2>1 DEF Shape, Resting, local, store, TypeOK
  <2>. QED
      BY <2>2, <2>3, <2>4 DEF ShapeInv
<1>5. ASSUME NEW p \in Procs,
             RollBackPoll(p) \/ Abort(p) \/ Die(p) \/ FailRebuild(p) \/ CommitRebuild(p)
      PROVE  ShapeInv'
  <2>1. Ends(p)
    <3>1. CASE RollBackPoll(p) \/ Die(p)
        BY <3>1 DEF RollBackPoll, Die, Ends, Over, Resting, store
    <3>2. CASE Abort(p)
        BY <3>2 DEF Abort, Ends, Over, Resting, store
    <3>3. CASE FailRebuild(p) \/ CommitRebuild(p)
        BY <3>3 DEF FailRebuild, CommitRebuild, Ends, Over, Resting, store
    <3>. QED
        BY <1>5, <3>1, <3>2, <3>3
  <2>2. gone' \subseteq Events /\ broken' \in BOOLEAN
    <3>1. gone \subseteq Events /\ broken \in BOOLEAN /\ own[p] \in Events \cup {NoEvent}
          /\ clean[p] \in BOOLEAN
        BY <1>1 DEF TypeOK
    <3>. QED
        BY <1>5, <3>1 DEF RollBackPoll, Abort, Die, FailRebuild, CommitRebuild
  <2>. QED
      BY <2>1, <2>2, EndsKeepsShape
<1>6. CASE GraphGoesDown \/ GraphComesUp
    BY <1>3, <1>6 DEF GraphGoesDown, GraphComesUp
<1>7. CASE UNCHANGED vars
    BY <1>1, <1>3, <1>7 DEF vars, TypeOK
<1>. QED
    BY <1>2, <1>4, <1>5, <1>6, <1>7, BeginKeepsShape, TakeKeepsShape, BundleKeepsShape,
       ClearKeepsShape, CommitKeepsShape DEF Next, Request, Work, Bundle

LEMMA ShapeInit == Init => ShapeInv
<1>. SUFFICES ASSUME Init
              PROVE  ShapeInv
    OBVIOUS
<1>1. TypeOK
    BY DEF Init, TypeOK, Status, Stages
<1>. QED
    BY <1>1 DEF Init, ShapeInv, OwnAlone, Shape, Resting

\* Every variable keeps its range.
THEOREM GraphTypeOK == Spec => []TypeOK
<1>1. ShapeInv => TypeOK
    BY DEF ShapeInv
<1>. QED
    BY <1>1, ShapeInit, ShapeStep, PTL DEF Spec
----------------------------------------------------------------------------
(* Projected at least once *)

\* Only a write claims another event.
LEMMA ClaimedStep ==
    ASSUME ShapeInv, [Next]_vars
    PROVE  /\ \/ Claimed' \subseteq Claimed
              \/ \E p \in Procs : WriteBundle(p) /\ Claimed' \subseteq Claimed \cup {current[p]}
<1>1. TypeOK /\ \A q \in Procs : Shape(q)
    BY DEF ShapeInv
<1>2. ASSUME \A e \in Events : out'[e] = "projected" => e \in Claimed,
             \A q \in Procs : good'[q] \subseteq Claimed
      PROVE  Claimed' \subseteq Claimed
    BY <1>2 DEF Claimed
<1>3. /\ \A e \in Events : out[e] = "projected" => e \in Claimed
      /\ \A q \in Procs : good[q] \subseteq Claimed
    BY <1>1 DEF Claimed, TypeOK
<1>4. CASE UNCHANGED <<out, good>>
    BY <1>2, <1>3, <1>4
<1>5. ASSUME NEW e \in Events, CommitTurn(e)
      PROVE  Claimed' \subseteq Claimed
    BY <1>1, <1>2, <1>3, <1>5 DEF CommitTurn, TypeOK, local
<1>6. ASSUME NEW p \in Procs, WriteBundle(p)
      PROVE  Claimed' \subseteq Claimed \cup {current[p]}
  <2>1. out' = out /\ \A q \in Procs : good'[q] \subseteq good[q] \cup {current[p]}
      BY <1>1, <1>6 DEF WriteBundle, TypeOK
  <2>. QED
      BY <2>1 DEF Claimed
<1>7. ASSUME NEW p \in Procs, Commit(p)
      PROVE  Claimed' \subseteq Claimed
  <2>1. Forgotten(p) /\ out' = Written(p)
      BY <1>1, <1>7, ForgetRest DEF Commit
  <2>2. \A e \in Events : out'[e] = "projected" => e \in Claimed
    <3>. SUFFICES ASSUME NEW e \in Events, out'[e] = "projected", e \notin good[p]
                  PROVE  out[e] = "projected"
        BY <1>3
    <3>1. out'[e] = CASE e \in good[p] -> "projected"
                      [] e \in bad[p] -> "failed"
                      [] e = own[p] /\ e \notin good[p] \cup bad[p] -> "pending"
                      [] OTHER -> out[e]
        BY <2>1 DEF Written
    <3>. QED
        BY <3>1
  <2>. QED
      BY <1>2, <1>3, <2>1, <2>2 DEF Forgotten
<1>8. ASSUME NEW p \in Procs, Ends(p)
      PROVE  Claimed' \subseteq Claimed
  <2>1. Forgotten(p) /\ out' = out
      BY <1>1, <1>8, ForgetRest DEF Ends
  <2>. QED
      BY <1>2, <1>3, <2>1 DEF Forgotten
<1>9. ASSUME NEW p \in Procs,
             RollBackPoll(p) \/ Abort(p) \/ Die(p) \/ FailRebuild(p) \/ CommitRebuild(p)
      PROVE  Claimed' \subseteq Claimed
  <2>1. Ends(p)
      BY <1>9 DEF RollBackPoll, Abort, Die, FailRebuild, CommitRebuild, Ends, Over, Resting,
         store
  <2>. QED
      BY <1>8, <2>1
<1>10. ASSUME NEW p \in Procs,
              \/ Poll(p) \/ Request(p) \/ (\E e \in Events : Take(p, e)) \/ FailBundle(p)
              \/ EndBatch(p) \/ Restart(p) \/ ClearWorld(p) \/ ClearBreaksOff(p)
       PROVE  UNCHANGED <<out, good>>
  <2>1. CASE Poll(p) \/ Request(p)
      BY <2>1 DEF Poll, Request, StartSession, RetryFailed, BeginRebuild, Begin
  <2>2. CASE (\E e \in Events : Take(p, e)) \/ FailBundle(p)
      BY <2>2 DEF Take, FailBundle
  <2>3. CASE EndBatch(p) \/ Restart(p) \/ ClearWorld(p) \/ ClearBreaksOff(p)
      BY <2>3 DEF EndBatch, Restart, ClearWorld, ClearBreaksOff, local
  <2>. QED
      BY <1>10, <2>1, <2>2, <2>3
<1>11. CASE GraphGoesDown \/ GraphComesUp \/ UNCHANGED vars
    BY <1>4, <1>11 DEF GraphGoesDown, GraphComesUp, vars, local
<1>. QED
    BY <1>4, <1>5, <1>6, <1>7, <1>9, <1>10, <1>11 DEF Next, Work, Bundle

LEMMA Others ==
    ASSUME TypeOK, NEW p \in Procs,
           Poll(p) \/ Request(p) \/ Work(p) \/ Abort(p) \/ Die(p) \/ Restart(p)
    PROVE  \A q \in Procs \ {p} : Same(q)
<1>1. CASE Poll(p) \/ Request(p) \/ EndBatch(p) \/ Restart(p)
  <2>1. /\ \E s \in Stages : stage' = [stage EXCEPT ![p] = s]
        /\ todo' = todo \/ \E S : todo' = [todo EXCEPT ![p] = S]
        /\ own' = own \/ \E n : own' = [own EXCEPT ![p] = n]
        /\ UNCHANGED <<current, view, loaded, good, bad>>
      BY <1>1 DEF Poll, Request, StartSession, RetryFailed, BeginRebuild, Begin, EndBatch,
         Restart, local, Stages
  <2>. QED
      BY <2>1 DEF Same, TypeOK
<1>2. ASSUME NEW e \in Events, Take(p, e)
      PROVE  \A q \in Procs \ {p} : Same(q)
  <2>1. view' = view \/ view' = [view EXCEPT ![p] = Seen(p)]
      BY <1>2 DEF Take, LoadBundle
  <2>. QED
      BY <1>2, <2>1 DEF Take, LoadBundle, Same, TypeOK
<1>3. CASE WriteBundle(p) \/ FailBundle(p)
    BY <1>3 DEF WriteBundle, FailBundle, Next1, Done1, Same, TypeOK
<1>4. CASE ClearWorld(p) \/ ClearBreaksOff(p)
    BY <1>4 DEF ClearWorld, ClearBreaksOff, Same, TypeOK
<1>5. CASE Commit(p) \/ RollBackPoll(p) \/ Abort(p) \/ Die(p) \/ FailRebuild(p) \/ CommitRebuild(p)
  <2>1. Forgotten(p)
      BY <1>5, ForgetRest DEF Commit, RollBackPoll, Abort, Die, FailRebuild, CommitRebuild
  <2>2. \A q \in Procs \ {p} : stage'[q] = stage[q]
      BY <1>5 DEF Commit, RollBackPoll, Abort, Die, FailRebuild, CommitRebuild, TypeOK
  <2>. QED
      BY <2>1, <2>2 DEF Forgotten, Same
<1>. QED
    BY <1>1, <1>2, <1>3, <1>4, <1>5 DEF Work, Bundle

\* The graph loses nothing, nothing more is claimed, and a rebuild has no less left than before.
Quiet ==
    /\ graph \subseteq graph' /\ clean' = clean
    /\ Claimed' \subseteq Claimed
    /\ \A q \in Procs : good'[q] \in {{}, good[q]}
    /\ \A q \in Procs : Rebuilding(q)' => Rebuilding(q) /\ Left(q) \subseteq Left(q)' \cup {NoEvent}

Writes(p) == WriteBundle(p) \/ ClearWorld(p) \/ ClearBreaksOff(p)

LEMMA QuietStep ==
    ASSUME ShapeInv, [Next]_vars, \A p \in Procs : ~Writes(p)
    PROVE  Quiet
<1>1. TypeOK /\ \A q \in Procs : Shape(q)
    BY DEF ShapeInv
<1>2. Claimed' \subseteq Claimed
    BY ClaimedStep DEF Writes
<1>3. ASSUME UNCHANGED <<graph, clean, good, stage, todo, current>>
      PROVE  Quiet
    BY <1>2, <1>3 DEF Quiet, Rebuilding, Left
<1>4. ASSUME NEW p \in Procs, graph \subseteq graph', clean' = clean, \A q \in Procs \ {p} : Same(q),
             good'[p] \in {{}, good[p]},
             Rebuilding(p)' => Rebuilding(p) /\ Left(p) \subseteq Left(p)' \cup {NoEvent}
      PROVE  Quiet
    BY <1>2, <1>4 DEF Quiet, Rebuilding, Left, Same
<1>5. ASSUME NEW p \in Procs, Poll(p) \/ Request(p) \/ FailBundle(p) \/ Restart(p)
      PROVE  Quiet
  <2>1. graph \subseteq graph' /\ UNCHANGED <<clean, good>> /\ ~Rebuilding(p)'
    <3>1. CASE Poll(p) \/ Request(p)
        BY <1>1, <3>1 DEF Poll, Request, StartSession, RetryFailed, BeginRebuild, Begin,
           Rebuilding, store, history, TypeOK
    <3>2. CASE FailBundle(p)
        BY <1>1, <3>2 DEF FailBundle, FailsAtOnce, BreaksOff, Rebuilding, store, TypeOK
    <3>3. CASE Restart(p)
        BY <1>1, <3>3 DEF Restart, Rebuilding, store, local, history, TypeOK
    <3>. QED
        BY <1>5, <3>1, <3>2, <3>3
  <2>. QED
      BY <1>1, <1>4, <1>5, <2>1, Others DEF Work, Bundle
<1>6. ASSUME NEW p \in Procs, NEW e \in Events, Take(p, e)
      PROVE  Quiet
  <2>1. UNCHANGED <<graph, clean, good>> /\ stage[p] = "batch" /\ current'[p] = e
        /\ todo'[p] = todo[p] \ {e}
      BY <1>1, <1>6 DEF Take, store, TypeOK
  <2>2. current[p] = NoEvent
      BY <1>1, <2>1 DEF Shape
  <2>. QED
      BY <1>1, <1>4, <1>6, <2>1, <2>2, Others DEF Work, Bundle, Rebuilding, Left
<1>7. ASSUME NEW p \in Procs, EndBatch(p)
      PROVE  Quiet
  <2>1. UNCHANGED <<graph, clean, good, todo, current>> /\ stage[p] = "batch"
      BY <1>7 DEF EndBatch, store, local, history
  <2>. QED
      BY <1>1, <1>4, <1>7, <2>1, Others DEF Work, Bundle, Rebuilding, Left
<1>8. ASSUME NEW p \in Procs,
             \/ Commit(p) \/ RollBackPoll(p) \/ Abort(p) \/ Die(p) \/ FailRebuild(p)
             \/ CommitRebuild(p)
      PROVE  Quiet
  <2>1. Forgotten(p)
      BY <1>1, <1>8, ForgetRest DEF Commit, RollBackPoll, Abort, Die, FailRebuild, CommitRebuild
  <2>2. UNCHANGED <<graph, clean>> /\ stage'[p] \in Resting
      BY <1>1, <1>8 DEF Commit, RollBackPoll, Abort, Die, FailRebuild, CommitRebuild, Over,
         Resting, store, TypeOK
  <2>3. ~Rebuilding(p)'
      BY <2>2 DEF Rebuilding, Resting
  <2>. QED
      BY <1>1, <1>4, <1>8, <2>1, <2>2, <2>3, Others DEF Work, Forgotten
<1>9. ASSUME NEW e \in Events, CommitTurn(e)
      PROVE  Quiet
    BY <1>3, <1>9 DEF CommitTurn, store, local, history
<1>10. CASE GraphGoesDown \/ GraphComesUp \/ UNCHANGED vars
    BY <1>3, <1>10 DEF GraphGoesDown, GraphComesUp, vars, store, local, history
<1>. QED
    BY <1>5, <1>6, <1>7, <1>8, <1>9, <1>10 DEF Next, Work, Bundle, Writes

\* What a rebuild and its rows are while it writes a bundle.
LEMMA WriteLeaves ==
    ASSUME ShapeInv, NEW p \in Procs, WriteBundle(p)
    PROVE  /\ graph' = graph \cup {current[p]} /\ shown' = view[p] /\ stale' = late[p]
           /\ UNCHANGED <<clean, broken, view, loaded>>
           /\ Claimed' \subseteq Claimed \cup {current[p]}
           /\ current[p] \in Events
           /\ \A q \in Procs : late'[q] = (late[q] \/ (q # p /\ loaded[q]))
           /\ \A q \in Procs : Rebuilding(q)' =>
                  Rebuilding(q) /\ Left(q) \subseteq Left(q)' \cup {current[p]}
<1>1. TypeOK /\ Shape(p)
    BY DEF ShapeInv
<1>2. /\ out' = out /\ todo' = todo /\ stage[p] = "write"
      /\ good' = [good EXCEPT ![p] = @ \cup {current[p]}]
      /\ current' = [current EXCEPT ![p] = NoEvent]
      /\ stage' = [stage EXCEPT ![p] = "batch"]
      /\ late' = Overtake(p)
    BY DEF WriteBundle, Next1, Done1
<1>3. \A q \in Procs : good'[q] \subseteq good[q] \cup {current[p]}
    BY <1>1, <1>2 DEF TypeOK
<1>4. \A q \in Procs : Rebuilding(q)' =>
          Rebuilding(q) /\ Left(q) \subseteq Left(q)' \cup {current[p]}
    BY <1>1, <1>2 DEF TypeOK, Rebuilding, Left, WriteBundle
<1>5. \A q \in Procs : late'[q] = (late[q] \/ (q # p /\ loaded[q]))
    BY <1>2 DEF Overtake
<1>6. Claimed' \subseteq Claimed \cup {current[p]}
    BY <1>2, <1>3 DEF Claimed
<1>7. current[p] \in Events
    BY <1>1, <1>2 DEF Shape
<1>. QED
    BY <1>4, <1>5, <1>6, <1>7 DEF WriteBundle

LEMMA ClearLeaves ==
    ASSUME ShapeInv, NEW p \in Procs, ClearWorld(p) \/ ClearBreaksOff(p)
    PROVE  /\ broken' /\ Claimed' = Claimed /\ UNCHANGED <<good, loaded, view>>
           /\ ~loaded[p]
           /\ \A q \in Procs \ {p} : late'[q] = (late[q] \/ loaded[q])
           /\ \A q \in Procs : Rebuilding(q)' => q = p /\ ClearWorld(p) /\ ToRebuild \subseteq Left(p)'
<1>1. TypeOK /\ Shape(p)
    BY DEF ShapeInv
<1>2. broken' /\ UNCHANGED <<out, good, loaded, view>> /\ stage[p] = "clearing"
    BY <1>1 DEF ClearWorld, ClearBreaksOff
<1>3. \A q \in Procs \ {p} : late'[q] = (late[q] \/ loaded[q])
    BY DEF ClearWorld, ClearBreaksOff, Overtake
<1>4. \A q \in Procs : Rebuilding(q)' => q = p /\ ClearWorld(p) /\ ToRebuild \subseteq Left(p)'
  <2>1. CASE ClearWorld(p)
    <3>1. todo'[p] = ToRebuild
        BY <1>1, <2>1 DEF ClearWorld, TypeOK
    <3>2. \A q \in Procs : clean'[q] <=> q = p
        BY <2>1 DEF ClearWorld
    <3>. QED
        BY <2>1, <3>1, <3>2 DEF Rebuilding, Left
  <2>2. CASE ClearBreaksOff(p)
    <3>1. \A q \in Procs : clean'[q] = FALSE
        BY <2>2 DEF ClearBreaksOff
    <3>. QED
        BY <3>1 DEF Rebuilding
  <2>. QED
      BY <2>1, <2>2
<1>. QED
    BY <1>1, <1>2, <1>3, <1>4 DEF Claimed, Shape

LEMMA GraphStep == ShapeInv /\ GraphInv /\ [Next]_vars => GraphInv'
<1>. SUFFICES ASSUME ShapeInv, GraphInv, [Next]_vars
              PROVE  GraphInv'
    OBVIOUS
<1>1. NoEvent \notin Claimed
    BY DEF Claimed
<1>2. ASSUME NEW p \in Procs, WriteBundle(p)
      PROVE  GraphInv'
    BY <1>2, WriteLeaves DEF GraphInv
<1>3. ASSUME NEW p \in Procs, ClearWorld(p) \/ ClearBreaksOff(p)
      PROVE  GraphInv'
  <2>. SUFFICES ASSUME ClearWorld(p), Rebuilding(p)'
                PROVE  Claimed \subseteq graph' \cup Left(p)'
      BY <1>3, ClearLeaves DEF GraphInv
  <2>1. TypeOK /\ \A q \in Procs : Shape(q)
      BY DEF ShapeInv
  <2>. SUFFICES ASSUME NEW e \in Events, e \in Claimed, out[e] = "none"
                PROVE  e \in graph'
      BY ClearLeaves DEF ToRebuild, Committed, Claimed
  <2>2. PICK q \in Procs : e \in good[q]
      BY DEF Claimed
  <2>3. e \in graph
      BY <2>1, <2>2 DEF Shape
  <2>4. e \notin todo[p]
    <3>1. own[p] = NoEvent
        BY <2>1 DEF ClearWorld, Shape
    <3>. QED
        BY <2>1, <3>1 DEF Shape
  <2>. QED
      BY <2>3, <2>4 DEF ClearWorld
<1>4. CASE \A p \in Procs : ~Writes(p)
  <2>1. Quiet
      BY <1>4, QuietStep
  <2>2. \A p \in Procs : Rebuilding(p)' => Claimed' \subseteq graph' \cup Left(p)'
      BY <1>1, <2>1 DEF GraphInv, Quiet
  <2>3. CASE broken' = broken
      BY <2>1, <2>2, <2>3 DEF GraphInv, Quiet
  <2>4. ASSUME NEW p \in Procs, CommitRebuild(p)
        PROVE  ~broken' => Claimed' \subseteq graph'
    <3>1. CASE ~clean[p]
        BY <2>1, <2>4, <3>1 DEF CommitRebuild, GraphInv, Quiet
    <3>2. CASE clean[p]
      <4>1. Rebuilding(p) /\ Left(p) = {NoEvent}
          BY <2>4, <3>2 DEF CommitRebuild, Rebuilding, Left, ShapeInv, Shape
      <4>. QED
          BY <1>1, <2>1, <4>1 DEF GraphInv, Quiet
    <3>. QED
        BY <3>1, <3>2
  <2>5. CASE \A p \in Procs : ~CommitRebuild(p)
    <3>1. broken' = broken
      <4>1. ASSUME NEW p \in Procs, NEW e \in Events,
                   Take(p, e) \/ StartSession(p, e) \/ CommitTurn(e)
            PROVE  broken' = broken
          BY <4>1 DEF Take, StartSession, Begin, CommitTurn, history
      <4>2. ASSUME NEW p \in Procs,
                   \/ Poll(p) \/ RetryFailed(p) \/ BeginRebuild(p) \/ FailBundle(p)
                   \/ EndBatch(p) \/ Commit(p) \/ RollBackPoll(p) \/ Abort(p) \/ Die(p)
                   \/ Restart(p) \/ FailRebuild(p)
            PROVE  broken' = broken
          BY <4>2 DEF Poll, RetryFailed, BeginRebuild, Begin, FailBundle, EndBatch, Commit,
             RollBackPoll, Abort, Die, Restart, FailRebuild, history
      <4>3. CASE (\E e \in Events : CommitTurn(e)) \/ GraphGoesDown \/ GraphComesUp
                 \/ UNCHANGED vars
          BY <4>3 DEF CommitTurn, GraphGoesDown, GraphComesUp, vars, history
      <4>. QED
          BY <1>4, <2>5, <4>1, <4>2, <4>3 DEF Next, Request, Work, Bundle, Writes
    <3>. QED
        BY <2>3, <3>1
  <2>. QED
      BY <2>2, <2>4, <2>5 DEF GraphInv
<1>. QED
    BY <1>2, <1>3, <1>4 DEF Writes

\* An event whose row says "projected" is in the graph, whatever fails, dies or overlaps,
\* except between the clearing of the graph and the end of a rebuild.
THEOREM GraphProjectedInGraph == Spec => []ProjectedInGraph
<1>1. Init => ShapeInv /\ GraphInv
  <2>1. Init => GraphInv
      BY DEF Init, GraphInv, Claimed, Rebuilding
  <2>. QED
      BY <2>1, ShapeInit
<1>2. ShapeInv /\ GraphInv /\ [Next]_vars => (ShapeInv /\ GraphInv)'
    BY ShapeStep, GraphStep
<1>3. GraphInv => ProjectedInGraph
    BY DEF GraphInv, ProjectedInGraph, With, Claimed
<1>. QED
    BY <1>1, <1>2, <1>3, PTL DEF Spec
----------------------------------------------------------------------------
(* Fresh unless overtaken *)

LEMMA UpToDateStep ==
    ASSUME ShapeInv, \A p \in Procs : UpToDate(p), [Next]_vars
    PROVE  \A q \in Procs : UpToDate(q)'
<1>1. TypeOK /\ \A q \in Procs : Shape(q)
    BY DEF ShapeInv
<1>2. ASSUME NEW p \in Procs, WriteBundle(p)
      PROVE  \A q \in Procs : UpToDate(q)'
  <2>1. \A q \in Procs \ {p} : UpToDate(q)'
      BY <1>2, WriteLeaves DEF UpToDate
  <2>2. loaded[p] => current[p] \in view[p]
      BY <1>1, <1>2, WriteLeaves DEF Shape
  <2>3. UpToDate(p)'
      BY <1>2, <2>2, WriteLeaves DEF UpToDate
  <2>. QED
      BY <2>1, <2>3
<1>3. ASSUME NEW p \in Procs, ClearWorld(p) \/ ClearBreaksOff(p)
      PROVE  \A q \in Procs : UpToDate(q)'
    BY <1>3, ClearLeaves DEF UpToDate
<1>4. ASSUME \A q \in Procs : \/ ~loaded'[q]
                              \/ view'[q] = view[q] /\ loaded[q] /\ (late[q] => late'[q]),
             Claimed' \subseteq Claimed
      PROVE  \A q \in Procs : UpToDate(q)'
    BY <1>4 DEF UpToDate
<1>5. ASSUME NEW p \in Procs, NEW e \in Events, Take(p, e)
      PROVE  \A q \in Procs : UpToDate(q)'
  <2>1. Claimed' = Claimed /\ \A q \in Procs \ {p} : Same(q) /\ late'[q] = late[q]
      BY <1>1, <1>5, Others DEF Take, LoadBundle, Claimed, TypeOK, Work, Bundle
  <2>2. CASE loaded[p]
      BY <1>4, <1>5, <2>1, <2>2 DEF Take, LoadBundle, Same
  <2>3. CASE ~loaded[p]
    <3>1. \A q \in Procs \ {p} : UpToDate(q)'
        BY <2>1 DEF UpToDate, Same
    <3>2. view'[p] = Seen(p) /\ late'[p] = (\E q \in Procs \ {p} : own[q] \in good[q])
        BY <1>1, <1>5, <2>3 DEF Take, LoadBundle, TypeOK
    <3>3. ASSUME ~late'[p], NEW f \in Claimed
          PROVE  f \in Seen(p)
      <4>1. f \in Events /\ (out[f] = "projected" \/ \E q \in Procs : f \in good[q])
          BY DEF Claimed
      <4>2. ASSUME NEW q \in Procs, f \in good[q]
            PROVE  f \in Seen(p)
        <5>1. out[f] # "none" \/ f = own[q]
            BY <1>1, <4>1, <4>2 DEF Shape
        <5>2. q # p /\ f # own[q]
            BY <1>1, <2>3, <3>2, <3>3, <4>2 DEF Shape
        <5>. QED
            BY <4>1, <5>1, <5>2 DEF Seen, Committed
      <4>. QED
          BY <4>1, <4>2 DEF Seen, Committed
    <3>4. UpToDate(p)'
        BY <2>1, <3>2, <3>3 DEF UpToDate
    <3>. QED
        BY <3>1, <3>4
  <2>. QED
      BY <2>2, <2>3
<1>6. CASE \A p \in Procs : ~Writes(p) /\ \A e \in Events : ~Take(p, e)
  <2>1. Claimed' \subseteq Claimed
      BY <1>6, QuietStep DEF Quiet
  <2>2. ASSUME NEW p \in Procs,
               \/ Commit(p) \/ RollBackPoll(p) \/ Abort(p) \/ Die(p) \/ FailRebuild(p)
               \/ CommitRebuild(p)
        PROVE  \A q \in Procs : UpToDate(q)'
    <3>1. Forgotten(p)
        BY <1>1, <2>2, ForgetRest DEF Commit, RollBackPoll, Abort, Die, FailRebuild, CommitRebuild
    <3>. QED
        BY <1>4, <2>1, <3>1 DEF Forgotten
  <2>3. ASSUME NEW p \in Procs, Poll(p) \/ Request(p) \/ EndBatch(p) \/ Restart(p)
        PROVE  \A q \in Procs : UpToDate(q)'
    <3>1. UNCHANGED <<view, loaded, late>>
        BY <2>3 DEF Poll, Request, StartSession, RetryFailed, BeginRebuild, Begin, EndBatch,
           Restart, local, history
    <3>. QED
        BY <1>4, <2>1, <3>1
  <2>4. ASSUME NEW p \in Procs, FailBundle(p)
        PROVE  \A q \in Procs : UpToDate(q)'
    <3>1. UNCHANGED <<view, loaded>> /\ \A q \in Procs : late[q] => late'[q]
        BY <2>4 DEF FailBundle, FailsAtOnce, BreaksOff, Overtake
    <3>. QED
        BY <1>4, <2>1, <3>1
  <2>5. CASE (\E e \in Events : CommitTurn(e)) \/ GraphGoesDown \/ GraphComesUp \/ UNCHANGED vars
    <3>1. UNCHANGED <<view, loaded, late>>
        BY <2>5 DEF CommitTurn, GraphGoesDown, GraphComesUp, vars, local, history
    <3>. QED
        BY <1>4, <2>1, <3>1
  <2>. QED
      BY <1>6, <2>2, <2>3, <2>4, <2>5 DEF Next, Work, Bundle, Writes
<1>. QED
    BY <1>2, <1>3, <1>5, <1>6 DEF Writes

LEMMA FreshStep == ShapeInv /\ FreshInv /\ [Next]_vars => FreshInv'
<1>. SUFFICES ASSUME ShapeInv, FreshInv, [Next]_vars
              PROVE  FreshInv'
    OBVIOUS
<1>1. TypeOK /\ \A q \in Procs : Shape(q)
    BY DEF ShapeInv
<1>2. \A q \in Procs : UpToDate(q)'
    BY UpToDateStep DEF FreshInv
<1>3. NoEvent \notin Claimed
    BY DEF Claimed
<1>4. ASSUME NEW p \in Procs, WriteBundle(p)
      PROVE  ~stale' => Claimed' \subseteq shown'
  <2>1. loaded[p] /\ current[p] \in view[p]
      BY <1>1, <1>4 DEF WriteBundle, Shape
  <2>2. ~late[p] => Claimed \subseteq view[p]
      BY <2>1 DEF FreshInv, UpToDate
  <2>. QED
      BY <1>4, <2>1, <2>2, WriteLeaves
<1>5. ASSUME NEW p \in Procs, ClearWorld(p)
      PROVE  ~stale' => Empty'
  <2>. SUFFICES ASSUME ~stale', Rebuilding(p)'
                PROVE  (\A q \in Procs : good[q] = {}) /\ Claimed \subseteq ToRebuild
      BY <1>5, ClearLeaves DEF Empty
  <2>1. \A q \in Procs : good[q] = {}
      BY <1>5 DEF ClearWorld
  <2>. QED
      BY <2>1 DEF Claimed, ToRebuild, Committed
<1>6. ASSUME NEW p \in Procs, ClearBreaksOff(p)
      PROVE  Empty'
  <2>1. broken' /\ \A q \in Procs : ~clean'[q]
      BY <1>6 DEF ClearBreaksOff
  <2>. QED
      BY <2>1 DEF Empty, Rebuilding
<1>7. ASSUME \A p \in Procs : ~Writes(p), UNCHANGED <<shown, stale, broken>>
      PROVE  ~stale' => Claimed' \subseteq shown' \/ Empty'
  <2>1. Quiet
      BY <1>7, QuietStep
  <2>2. Empty => Empty'
      BY <1>3, <1>7, <2>1 DEF Empty, Quiet
  <2>. QED
      BY <1>7, <2>1, <2>2 DEF FreshInv, Quiet
<1>8. ASSUME NEW p \in Procs, FailBundle(p), \A q \in Procs : ~Writes(q)
      PROVE  ~stale' => Claimed' \subseteq shown' \/ Empty'
  <2>1. CASE FailsAtOnce(p)
      BY <1>7, <1>8, <2>1 DEF FailsAtOnce, FailBundle, store
  <2>2. CASE BreaksOff(p)
    <3>1. loaded[p]
        BY <1>1, <1>8 DEF FailBundle, Shape
    <3>2. Claimed' \subseteq Claimed
        BY <1>8, QuietStep DEF Quiet
    <3>. QED
        BY <2>2, <3>1, <3>2 DEF BreaksOff, FreshInv, UpToDate
  <2>. QED
      BY <1>8, <2>1, <2>2 DEF FailBundle
<1>9. ASSUME NEW p \in Procs, CommitRebuild(p), \A q \in Procs : ~Writes(q)
      PROVE  ~stale' => Claimed' \subseteq shown' \/ Empty'
  <2>1. UNCHANGED <<shown, stale>> /\ broken' = (broken /\ ~clean[p])
      BY <1>9 DEF CommitRebuild, store
  <2>2. CASE broken' = broken
      BY <1>7, <1>9, <2>1, <2>2
  <2>3. CASE clean[p]
    <3>1. Rebuilding(p) /\ Left(p) = {NoEvent}
        BY <1>1, <1>9, <2>3 DEF CommitRebuild, Rebuilding, Left, Shape
    <3>2. Empty => Claimed = {}
        BY <1>3, <3>1 DEF Empty
    <3>3. Claimed' \subseteq Claimed
        BY <1>9, QuietStep DEF Quiet
    <3>. QED
        BY <2>1, <3>2, <3>3 DEF FreshInv
  <2>. QED
      BY <1>1, <2>1, <2>2, <2>3 DEF TypeOK
<1>10. ASSUME \A p \in Procs : ~Writes(p) /\ ~FailBundle(p) /\ ~CommitRebuild(p)
       PROVE  ~stale' => Claimed' \subseteq shown' \/ Empty'
  <2>1. UNCHANGED <<shown, stale, broken>>
    <3>1. ASSUME NEW p \in Procs, NEW e \in Events,
                 Take(p, e) \/ StartSession(p, e) \/ CommitTurn(e)
          PROVE  UNCHANGED <<shown, stale, broken>>
        BY <3>1 DEF Take, StartSession, Begin, CommitTurn, store, history
    <3>2. ASSUME NEW p \in Procs,
                 \/ Poll(p) \/ RetryFailed(p) \/ BeginRebuild(p)
                 \/ EndBatch(p) \/ Commit(p) \/ RollBackPoll(p) \/ Abort(p) \/ Die(p)
                 \/ Restart(p) \/ FailRebuild(p)
          PROVE  UNCHANGED <<shown, stale, broken>>
        BY <3>2 DEF Poll, RetryFailed, BeginRebuild, Begin, EndBatch, Commit,
           RollBackPoll, Abort, Die, Restart, FailRebuild, store, history
    <3>3. CASE (\E e \in Events : CommitTurn(e)) \/ GraphGoesDown \/ GraphComesUp
               \/ UNCHANGED vars
        BY <3>3 DEF CommitTurn, GraphGoesDown, GraphComesUp, vars, store, history
    <3>. QED
        BY <1>10, <3>1, <3>2, <3>3 DEF Next, Request, Work, Bundle, Writes
  <2>. QED
      BY <1>7, <1>10, <2>1
<1>11. ~stale' => Claimed' \subseteq shown' \/ Empty'
  <2>1. CASE \E p \in Procs : Writes(p)
      BY <1>4, <1>5, <1>6, <2>1 DEF Writes
  <2>2. CASE \A p \in Procs : ~Writes(p)
      BY <1>8, <1>9, <1>10, <2>2
  <2>. QED
      BY <2>1, <2>2
<1>. QED
    BY <1>2, <1>11 DEF FreshInv

\* The vertices of the world's rows show every projected change, unless the last write
\* was that of a transaction that another one had overtaken.
THEOREM GraphFreshUnlessOvertaken == Spec => []FreshUnlessOvertaken
<1>1. Init => ShapeInv /\ FreshInv
  <2>1. Init => FreshInv
      BY DEF Init, FreshInv, UpToDate, Claimed
  <2>. QED
      BY <2>1, ShapeInit
<1>2. ShapeInv /\ FreshInv /\ [Next]_vars => (ShapeInv /\ FreshInv)'
    BY ShapeStep, FreshStep
<1>3. FreshInv => FreshUnlessOvertaken
    BY DEF FreshInv, Empty, FreshUnlessOvertaken, With, Claimed
<1>. QED
    BY <1>1, <1>2, <1>3, PTL DEF Spec
=============================================================================
