-------------------------- MODULE TurnReviewProofs --------------------------
(***************************************************************************)
(* TurnReview for every player, world, number of turns and model.          *)
(***************************************************************************)
EXTENDS TurnReview, TLAPS

Looked(t) == Running(t) /\ stage[t] # "loaded"

\* What a turn saw is true of the world as long as nothing it was told of changed.
Sight(t) ==
    /\ Running(t) /\ "turn" \notin stale[t] => copy[t] = at
    /\ Looked(t) => \A to \in exits[t] : <<copy[t], to>> \in Road
    /\ Looked(t) /\ stale[t] = {} =>
         /\ exits[t] = Exits(copy[t])
         /\ bag[t] = Items \ used
         /\ met[t] = Scene(t, exits[t])
         /\ cards[t] \subseteq Directory
    /\ stage[t] \in {"idle", "loaded", "planning"} => cards[t] = {}

\* What is approved was found in order, or is the fallback.
Approved(t) ==
    stage[t] = "approved" =>
        \/ \E n \in Aliases(copy[t]) : payload[t] = [Silent EXCEPT !.name = n]
        \/ DryRun(t, payload[t]) = {}
        \/ "world" \in stale[t]

\* What was applied: one step at most, and nothing that was used before, unless
\* another turn was committed in between.
Applied(t) ==
    stage[t] = "applied" =>
        /\ place[t] = copy[t] \/ <<copy[t], place[t]>> \in Road
        /\ "late turn" \notin stale[t] => uses[t] \cap used = {}

Kept(t) ==
    stage[t] = "applied" /\ stale[t] = {} =>
        \/ refused[t] = {}
        \/ refused[t] = {"item"} /\ \E i \in uses[t] : payload[t].items[i] > 1

TInv(t) == Sight(t) /\ Approved(t) /\ Applied(t) /\ Kept(t)

IInv == TypeOK /\ \A t \in Turns : TInv(t)

USE ReviewConstants
----------------------------------------------------------------------------
(* Types *)

\* A narration that claims at most a place is one.
LEMMA SilentClaim ==
    /\ Silent \in Claim
    /\ \A n \in Names \cup {None} : [Silent EXCEPT !.name = n] \in Claim
<1>. [i \in Items |-> 0] \in [Items -> 0 .. 2]
    OBVIOUS
<1>. QED
    BY DEF Silent, Claim

LEMMA AliasesAreNames == \A q \in Places : Aliases(q) \subseteq Names
    BY DEF Aliases, Translated

LEMMA ReviewTypeStep == TypeOK /\ [Next]_vars => TypeOK'
<1>. SUFFICES ASSUME TypeOK, [Next]_vars
              PROVE  TypeOK'
    OBVIOUS
<1>. USE DEF TypeOK, vars, world, sight, effect
<1>1. ASSUME NEW t \in Turns, NEW g \in Goals, Load(t, g)
      PROVE  TypeOK'
    BY <1>1 DEF Load
<1>2. ASSUME NEW t \in Turns, Look(t)
      PROVE  TypeOK'
  <2>1. Scene(t, Exits(copy[t])) \in [Places -> SUBSET People]
      BY DEF Scene, Figures
  <2>2. Exits(copy[t]) \subseteq Places
      BY DEF Exits
  <2>3. exits' \in [Turns -> SUBSET Places]
      BY <1>2, <2>2 DEF Look
  <2>4. met' \in [Turns -> [Places -> SUBSET People]]
      BY <1>2, <2>1 DEF Look
  <2>. QED
      BY <1>2, <2>3, <2>4 DEF Look
<1>13. ASSUME NEW t \in Turns, NEW refs \in SUBSET People, Plan(t, refs)
       PROVE  TypeOK'
  <2>1. ASSUME NEW c \in Directory
        PROVE  c \in People \X Places
    <3>1. PICK q \in People : c = <<q, where[q]>>
        BY DEF Directory
    <3>. QED
        BY <3>1
  <2>2. cards' \in [Turns -> SUBSET (People \X Places)]
      BY <1>13, <2>1 DEF Plan, Resolved
  <2>. QED
      BY <1>13, <2>2 DEF Plan
<1>3. ASSUME NEW t \in Turns, NEW p \in Proposals, Answer(t, p)
      PROVE  TypeOK'
    BY <1>3 DEF Answer, Claim
<1>4. ASSUME NEW t \in Turns, NoAnswer(t)
      PROVE  TypeOK'
    BY <1>4 DEF NoAnswer
<1>5. ASSUME NEW t \in Turns, Approve(t)
      PROVE  TypeOK'
    BY <1>5 DEF Approve
<1>6. ASSUME NEW t \in Turns, Reject(t)
      PROVE  TypeOK'
    BY <1>6 DEF Reject
<1>7. ASSUME NEW t \in Turns, FallBack(t)
      PROVE  TypeOK'
  <2>1. PICK n \in Aliases(copy[t]) : payload' = [payload EXCEPT ![t] = [Silent EXCEPT !.name = n]]
      BY <1>7 DEF FallBack
  <2>2. n \in Names
      BY AliasesAreNames
  <2>. QED
      BY <1>7, <2>1, <2>2, SilentClaim DEF FallBack
<1>8. ASSUME NEW t \in Turns, Apply(t)
      PROVE  TypeOK'
  <2>. DEFINE p == payload[t]
              target == Target(t, p)
              closed == target # copy[t] /\ ~Passable(copy[t], target)
              here == IF closed THEN copy[t] ELSE target
  <2>1. here \in Places
      BY DEF Target
  <2>2. uses' \in [Turns -> SUBSET Items]
      BY <1>8 DEF Apply, Use, StillUsable, Named
  <2>3. refused' \in [Turns -> SUBSET Objection]
      BY <1>8 DEF Apply, Objections
  <2>. QED
      BY <1>8, <2>1, <2>2, <2>3 DEF Apply
<1>9. ASSUME NEW t \in Turns, Commit(t)
      PROVE  TypeOK'
  <2>1. Nobody \in [Places -> SUBSET People]
      BY DEF Nobody
  <2>. QED
      BY <1>9, <2>1, SilentClaim DEF Commit, Forget, NewPlace, Late, Disturbed
<1>10. ASSUME NEW t \in Turns, Abort(t)
      PROVE  TypeOK'
  <2>1. Nobody \in [Places -> SUBSET People]
      BY DEF Nobody
  <2>. QED
      BY <1>10, <2>1, SilentClaim DEF Abort, Forget
<1>11. ASSUME NEW r \in Gated, Turnpike(r)
       PROVE  TypeOK'
    BY <1>11 DEF Turnpike, Disturbed
<1>14. ASSUME NEW q \in People, NEW to \in Places, Walk(q, to)
       PROVE  TypeOK'
    BY <1>14 DEF Walk, Disturbed
<1>12. CASE UNCHANGED vars
    BY <1>12
<1>. QED
    BY <1>1, <1>2, <1>13, <1>3, <1>4, <1>5, <1>6, <1>7, <1>8, <1>9, <1>10, <1>11, <1>14, <1>12
       DEF Next, Resolve

\* Every variable keeps its range: in particular a turn ends at a place, which the
\* player's text need not name.
THEOREM ReviewTypeOK == Spec => []TypeOK
<1>1. Init => TypeOK
    BY SilentClaim DEF Init, TypeOK, Nobody
<1>. QED
    BY <1>1, ReviewTypeStep, PTL DEF Spec
----------------------------------------------------------------------------
(* The invariant of one turn *)

Turn(t) == <<stage[t], goal[t], copy[t], exits[t], bag[t], met[t], cards[t], payload[t],
             place[t], uses[t], refused[t], stale[t]>>

\* A turn does not notice what another one does before it commits.
LEMMA OtherTurn ==
    ASSUME NEW u \in Turns, TInv(u), UNCHANGED world, Turn(u)' = Turn(u)
    PROVE  TInv(u)'
<1>. USE DEF world, Turn
<1>1. Sight(u)'
    BY DEF TInv, Sight, Looked, Running, Exits, Passable, Scene, Figures, Directory
<1>2. Approved(u)'
    BY DEF TInv, Approved, DryRun, Objections, NoWay, Elsewhere, Target, Heading, Figures,
       Misaddressed, Away
<1>3. Applied(u)' /\ Kept(u)'
    BY DEF TInv, Applied, Kept
<1>. QED
    BY <1>1, <1>2, <1>3 DEF TInv

\* A step of a turn that only asks or judges leaves what it saw as it was.
LEMMA SightKept ==
    ASSUME NEW u \in Turns, Sight(u), Looked(u), UNCHANGED <<world, sight, stale>>,
           stage'[u] \notin {"idle", "loaded", "planning"}
    PROVE  Sight(u)'
    BY DEF Sight, Looked, Running, world, sight, Exits, Passable, Scene, Figures, Directory

\* The application of a turn under which nothing changed objects to nothing new.
LEMMA ApplyKeepsReview ==
    ASSUME NEW t \in Turns, TypeOK, TInv(t), Apply(t), stale[t] = {}
    PROVE  \/ refused'[t] = {}
           \/ refused'[t] = {"item"} /\ \E i \in uses'[t] : payload[t].items[i] > 1
<1>. DEFINE p == payload[t]
            target == Target(t, p)
            closed == target # copy[t] /\ ~Passable(copy[t], target)
            here == IF closed THEN copy[t] ELSE target
            unusable == {i \in Named(p) : i \notin StillUsable(t) \/ p.items[i] > 1}
<1>1. /\ refused'[t] = Objections(p, closed \/ NoWay(t, p), unusable, here)
      /\ uses'[t] = Named(p) \cap StillUsable(t)
    BY DEF Apply, Use, TypeOK
<1>2. exits[t] = Exits(copy[t]) /\ bag[t] = Items \ used
    BY DEF Apply, TInv, Sight, Looked, Running
<1>3. ~closed
    BY <1>2 DEF Target, Exits
<1>4. StillUsable(t) = bag[t]
    BY <1>2 DEF StillUsable
<1>5. ASSUME NEW n \in Aliases(copy[t]), p = [Silent EXCEPT !.name = n]
      PROVE  refused'[t] = {}
  <2>1. /\ p.name = n /\ p.people = {} /\ p.called = {} /\ p.leak = FALSE
        /\ \A i \in Items : p.items[i] = 0
      BY <1>5 DEF Silent
  <2>2. n \in Names
      BY AliasesAreNames DEF TypeOK
  <2>3. unusable = {} /\ ~NoWay(t, p)
      BY <2>1, <2>2 DEF Named, NoWay, Elsewhere, Mentions
  <2>. QED
      BY <1>1, <1>3, <2>1, <2>3 DEF Objections, Misaddressed
<1>6. CASE DryRun(t, p) = {}
  <2>1. /\ ~NoWay(t, p) /\ Named(p) \subseteq bag[t] /\ ~p.leak
        /\ p.people \subseteq Figures(target)
        /\ Misaddressed(p, target) = {}
      BY <1>6 DEF DryRun, Objections, Objection
  <2>2. here = target
      BY <1>3
  <2>3. \A i \in unusable : i \in uses'[t] /\ p.items[i] > 1
      BY <1>1, <1>4, <2>1
  <2>4. refused'[t] = {o \in Objection : o = "item" /\ unusable # {}}
      BY <1>1, <1>3, <2>1, <2>2 DEF Objections
  <2>. QED
      BY <2>3, <2>4 DEF Objection
<1>. QED
    BY <1>5, <1>6 DEF Apply, TInv, Approved

LEMMA ReviewStep == IInv /\ [Next]_vars => IInv'
<1>. SUFFICES ASSUME IInv, [Next]_vars, NEW u \in Turns
              PROVE  TInv(u)'
    BY ReviewTypeStep DEF IInv
<1>. TypeOK /\ TInv(u)
    BY DEF IInv
<1>. USE DEF Running
<1>1. ASSUME NEW t \in Turns, NEW g \in Goals, Load(t, g)
      PROVE  TInv(u)'
  <2>1. CASE u # t
      BY <1>1, <2>1, OtherTurn DEF Load, TypeOK, Turn, world, sight, effect
  <2>2. CASE u = t
      BY <1>1, <2>2 DEF Load, TypeOK, TInv, world, sight, effect, Sight, Looked,
           Approved, Applied, Kept
  <2>. QED
      BY <2>1, <2>2
<1>2. ASSUME NEW t \in Turns, Look(t)
      PROVE  TInv(u)'
  <2>1. CASE u # t
      BY <1>2, <2>1, OtherTurn DEF Look, TypeOK, Turn, world, sight, effect
  <2>2. CASE u = t
    <3>1. /\ UNCHANGED <<world, copy, stale, cards>> /\ stage'[u] = "planning"
          /\ exits'[u] = Exits(copy[u]) /\ bag'[u] = Items \ used
          /\ met'[u] = Scene(u, Exits(copy[u]))
        BY <1>2, <2>2 DEF Look, TypeOK
    <3>2. Exits(copy[u])' = Exits(copy[u]) /\ Scene(u, Exits(copy[u]))' = Scene(u, Exits(copy[u]))
        BY <3>1 DEF Exits, Passable, Scene, Figures, world
    <3>3. Sight(u)'
        BY <1>2, <2>2, <3>1, <3>2 DEF Look, TInv, Sight, Looked, world, Exits, Passable
    <3>. QED
        BY <3>1, <3>3 DEF TInv, Approved, Applied, Kept
  <2>. QED
      BY <2>1, <2>2
<1>13. ASSUME NEW t \in Turns, NEW refs \in SUBSET People, Plan(t, refs)
       PROVE  TInv(u)'
  <2>1. CASE u # t
      BY <1>13, <2>1, OtherTurn DEF Plan, TypeOK, Turn, world, sight, effect
  <2>2. CASE u = t
    <3>1. /\ UNCHANGED <<world, goal, copy, exits, bag, met, stale>> /\ stage'[u] = "asking"
          /\ cards'[u] \subseteq Directory
        BY <1>13, <2>2 DEF Plan, Resolved, TypeOK
    <3>2. /\ Exits(copy[u])' = Exits(copy[u]) /\ Directory' = Directory
          /\ Scene(u, exits[u])' = Scene(u, exits[u])
        BY <3>1 DEF Exits, Passable, Scene, Figures, Directory, world
    <3>3. Sight(u)'
        BY <1>13, <2>2, <3>1, <3>2 DEF Plan, TInv, Sight, Looked, Running, world
    <3>. QED
        BY <3>1, <3>3 DEF TInv, Approved, Applied, Kept
  <2>. QED
      BY <2>1, <2>2
<1>3. ASSUME NEW t \in Turns, NEW p \in Proposals, Answer(t, p)
      PROVE  TInv(u)'
  <2>1. CASE u # t
      BY <1>3, <2>1, OtherTurn DEF Answer, TypeOK, Turn, world, sight, effect
  <2>2. CASE u = t
      BY <1>3, <2>2, SightKept DEF Answer, TypeOK, TInv, Looked, Approved, Applied, Kept
  <2>. QED
      BY <2>1, <2>2
<1>4. ASSUME NEW t \in Turns, NoAnswer(t)
      PROVE  TInv(u)'
  <2>1. CASE u # t
      BY <1>4, <2>1, OtherTurn DEF NoAnswer, TypeOK, Turn, world, sight, effect
  <2>2. CASE u = t
      BY <1>4, <2>2, SightKept DEF NoAnswer, TypeOK, TInv, Looked, Approved, Applied, Kept
  <2>. QED
      BY <2>1, <2>2
<1>5. ASSUME NEW t \in Turns, Approve(t)
      PROVE  TInv(u)'
  <2>1. CASE u # t
      BY <1>5, <2>1, OtherTurn DEF Approve, TypeOK, Turn, world, sight, effect
  <2>2. CASE u = t
    <3>1. stage'[u] = "approved" /\ UNCHANGED <<world, sight, payload, stale>>
        BY <1>5, <2>2 DEF Approve, TypeOK
    <3>2. Sight(u)'
        BY <1>5, <2>2, <3>1, SightKept DEF Approve, TInv, Looked, Running
    <3>3. DryRun(u, payload[u])' = DryRun(u, payload[u])
        BY <3>1 DEF DryRun, Objections, NoWay, Elsewhere, Target, Heading, Figures,
            Misaddressed, Away, world, sight
    <3>4. DryRun(u, payload[u]) = {}
        BY <1>5, <2>2 DEF Approve
    <3>. QED
        BY <3>1, <3>2, <3>3, <3>4 DEF TInv, Approved, Applied, Kept
  <2>. QED
      BY <2>1, <2>2
<1>6. ASSUME NEW t \in Turns, Reject(t)
      PROVE  TInv(u)'
  <2>1. CASE u # t
      BY <1>6, <2>1, OtherTurn DEF Reject, TypeOK, Turn, world, sight, effect
  <2>2. CASE u = t
      BY <1>6, <2>2, SightKept DEF Reject, TypeOK, TInv, Looked, Approved, Applied, Kept
  <2>. QED
      BY <2>1, <2>2
<1>7. ASSUME NEW t \in Turns, FallBack(t)
      PROVE  TInv(u)'
  <2>1. CASE u # t
      BY <1>7, <2>1, OtherTurn DEF FallBack, TypeOK, Turn, world, sight, effect
  <2>2. CASE u = t
    <3>1. Sight(u)'
        BY <1>7, <2>2, SightKept DEF FallBack, TypeOK, TInv, Looked
    <3>2. PICK n \in Aliases(copy[u]) : payload'[u] = [Silent EXCEPT !.name = n]
        BY <1>7, <2>2, ZenonT(30) DEF FallBack, TypeOK
    <3>3. Aliases(copy[u])' = Aliases(copy[u])
        BY <1>7 DEF FallBack, sight, Aliases
    <3>. QED
        BY <1>7, <2>2, <3>1, <3>2, <3>3, ZenonT(30) DEF FallBack, TypeOK, TInv, Approved, Applied, Kept
  <2>. QED
      BY <2>1, <2>2
<1>8. ASSUME NEW t \in Turns, Apply(t)
      PROVE  TInv(u)'
  <2>1. CASE u # t
      BY <1>8, <2>1, OtherTurn DEF Apply, TypeOK, Turn, world, sight
  <2>2. CASE u = t
    <3>1. stage'[u] = "applied" /\ UNCHANGED <<world, sight, payload, stale>>
        BY <1>8, <2>2 DEF Apply, TypeOK
    <3>2. Sight(u)'
        BY <1>8, <2>2, SightKept DEF Apply, TInv, Looked, Running
    <3>3. place'[u] = copy[u] \/ <<copy[u], place'[u]>> \in Road
        BY <1>8, <2>2 DEF Apply, TypeOK, Passable
    <3>4. uses'[u] \cap used = {}
        BY <1>8, <2>2 DEF Apply, Use, TypeOK, StillUsable
    <3>5. Kept(u)'
        BY <1>8, <2>2, <3>1, ApplyKeepsReview DEF Kept
    <3>. QED
        BY <3>1, <3>2, <3>3, <3>4, <3>5 DEF TInv, Approved, Applied, sight, world
  <2>. QED
      BY <2>1, <2>2
<1>9. ASSUME NEW t \in Turns, Commit(t)
      PROVE  TInv(u)'
  <2>1. CASE u = t
      BY <1>9, <2>1 DEF Commit, TypeOK, TInv, Sight, Looked, Approved, Applied, Kept
  <2>2. CASE u # t
    <3>1. /\ open' = open /\ where' = where
          /\ stage'[u] = stage[u] /\ copy'[u] = copy[u] /\ exits'[u] = exits[u]
          /\ bag'[u] = bag[u] /\ payload'[u] = payload[u] /\ goal'[u] = goal[u]
          /\ met'[u] = met[u] /\ cards'[u] = cards[u]
          /\ place'[u] = place[u] /\ uses'[u] = uses[u] /\ refused'[u] = refused[u]
        BY <1>9, <2>2 DEF Commit, Forget, TypeOK
    <3>2. stale'[u] = Disturbed(u, {"turn"} \cup Late(u))
        BY <1>9, <2>2 DEF Commit, TypeOK
    <3>3. /\ stage[u] = "applied" => "late turn" \in stale'[u]
          /\ Running(u) => "turn" \in stale'[u]
        BY <3>2 DEF Disturbed, Late
    <3>4. Sight(u)'
        BY <3>1, <3>3 DEF TInv, Sight, Looked
    <3>5. Approved(u)'
        BY <3>1, <3>2 DEF TInv, Approved, DryRun, Objections, NoWay, Elsewhere, Target, Heading,
             Figures, Misaddressed, Away, Disturbed
    <3>6. Applied(u)' /\ Kept(u)'
        BY <3>1, <3>3 DEF TInv, Applied, Kept
    <3>. QED
        BY <3>4, <3>5, <3>6 DEF TInv
  <2>. QED
      BY <2>1, <2>2
<1>10. ASSUME NEW t \in Turns, Abort(t)
      PROVE  TInv(u)'
  <2>1. CASE u # t
      BY <1>10, <2>1, OtherTurn DEF Abort, TypeOK, Turn, world, sight, effect, Forget
  <2>2. CASE u = t
      BY <1>10, <2>2, ZenonT(30) DEF Abort, Forget, TypeOK, TInv, Sight, Looked, Approved, Applied, Kept
  <2>. QED
      BY <2>1, <2>2
<1>11. ASSUME \/ \E r \in Gated : Turnpike(r)
              \/ \E q \in People, to \in Places : Walk(q, to)
       PROVE  TInv(u)'
  <2>4. stale'[u] = Disturbed(u, {"world"})
      BY <1>11 DEF Turnpike, Walk
  <2>1. Running(u) => "world" \in stale'[u] /\ stale'[u] # {}
      BY <2>4 DEF Disturbed
  <2>2. stale[u] \subseteq stale'[u]
      BY <2>4 DEF Disturbed
  <2>3. UNCHANGED <<at, used, stage, sight, payload, effect>>
      BY <1>11 DEF Turnpike, Walk
  <2>. QED
      BY <2>1, <2>2, <2>3 DEF TInv, Sight, Looked, Approved, Applied, Kept, sight, effect
<1>12. CASE UNCHANGED vars
    BY <1>12, OtherTurn DEF vars, Turn, world, sight, effect
<1>. QED
    BY <1>1, <1>2, <1>13, <1>3, <1>4, <1>5, <1>6, <1>7, <1>8, <1>9, <1>10, <1>11, <1>12 DEF Next, Resolve

\* The inductive invariant, for any player, world and models.
THEOREM ReviewInv == Spec => []IInv
<1>1. Init => IInv
    BY SilentClaim DEF Init, IInv, TypeOK, TInv, Sight, Looked, Running, Approved,
         Applied, Kept, Nobody
<1>. QED
    BY <1>1, ReviewStep, PTL DEF Spec

\* What the player reads is what happened, unless the world or another turn of his
\* moved between the review and the application.
THEOREM ReviewAsReviewed == Spec => []AsReviewed
<1>1. IInv => AsReviewed
    BY DEF IInv, TInv, Kept, AsReviewed
<1>. QED
    BY <1>1, ReviewInv, PTL

\* No turn moves the player by more than one road or undoes another turn's move.
THEOREM ReviewOneStep == Spec => OneStep
<1>. DEFINE OneRoad ==
         \A t \in Turns :
           stage[t] = "applied" /\ stage'[t] = "resolved" =>
             IF place[t] = copy[t]
             THEN at' = at
             ELSE /\ at' = place[t] /\ <<copy[t], at'>> \in Road
                  /\ "turn" \notin stale[t] => at = copy[t]
<1>1. IInv /\ [Next]_vars => [OneRoad]_vars
  <2>. SUFFICES ASSUME IInv, Next, NEW t \in Turns, stage[t] = "applied", stage'[t] = "resolved"
                PROVE  IF place[t] = copy[t]
                       THEN at' = at
                       ELSE /\ at' = place[t] /\ <<copy[t], at'>> \in Road
                            /\ "turn" \notin stale[t] => at = copy[t]
      OBVIOUS
  <2>1. Commit(t)
    <3>1. ASSUME NEW w \in Turns, NEW s, s # "resolved", stage' = [stage EXCEPT ![w] = s]
          PROVE  FALSE
        BY <3>1 DEF IInv, TypeOK
    <3>2. ASSUME NEW w \in Turns, Abort(w)
          PROVE  FALSE
        BY <3>1, <3>2 DEF Abort
    <3>3. ASSUME NEW w \in Turns, Commit(w)
          PROVE  w = t
        BY <3>3 DEF Commit, IInv, TypeOK
    <3>4. ASSUME NEW w \in Turns, NEW p, Answer(w, p)
          PROVE  FALSE
        BY <3>4 DEF Answer, IInv, TypeOK
    <3>. QED
        BY <3>1, <3>2, <3>3, <3>4, ZenonT(30) DEF Next, Resolve, Load, Look, Plan, NoAnswer, Approve, Reject, FallBack,
             Apply, Turnpike, Walk
  <2>2. /\ place[t] = copy[t] \/ <<copy[t], place[t]>> \in Road
        /\ "turn" \notin stale[t] => copy[t] = at
      BY DEF IInv, TInv, Applied, Sight, Running
  <2>. QED
      BY <2>1, <2>2 DEF Commit, NewPlace
<1>. QED
    BY <1>1, ReviewInv, PTL DEF Spec, OneStep

\* An item whose use was committed before a turn is applied is not used again.
THEOREM ReviewNotUsedAgain == Spec => NotUsedAgain
<1>. DEFINE Fresh ==
         \A t \in Turns :
           stage[t] = "applied" /\ stage'[t] = "resolved" /\ "late turn" \notin stale[t] =>
             uses[t] \cap used = {}
<1>1. IInv => [Fresh]_vars
    BY DEF IInv, TInv, Applied
<1>. QED
    BY <1>1, ReviewInv, PTL DEF NotUsedAgain

\* A name that can be taken for no other place is matched with its place, whatever key
\* the model adds.
LEMMA PlainMatch ==
    ASSUME NEW q \in Places, NEW n \in Plain(q), NEW hint
    PROVE  /\ Match(n, hint) = q
           /\ \A c \in Places : Mentions(n, c) <=> c = q
<1>1. n \in Names /\ n \in Aliases(q)
    BY AliasesAreNames DEF Plain
<1>2. n \in Similar(n) /\ Similar(n) \subseteq Names
    BY <1>1, AliasesAreNames DEF Similar
<1>3. \A a \in Similar(n) : Owners(a) = {q}
    BY DEF Plain
<1>4. Longest[Similar(n)] \in Similar(n)
    BY <1>2
<1>5. Match(n, hint) = q
    BY <1>2, <1>3, <1>4 DEF Match
<1>6. ASSUME NEW c \in Places, Mentions(n, c)
      PROVE  c = q
  <2>1. PICK a \in Aliases(c) : <<a, n>> \in Within
      BY <1>6 DEF Mentions
  <2>2. a \in Similar(n) /\ c \in Owners(a)
      BY <2>1 DEF Similar, Owners
  <2>. QED
      BY <2>2, <1>3
<1>7. Mentions(n, q)
    BY <1>1 DEF Mentions
<1>. QED
    BY <1>5, <1>6, <1>7

\* What the models are told is what the harness accepts, in any world whose state stands
\* still, for every name that is not part of another one.
THEOREM ReviewToldIsAccepted == Spec => []ToldIsAccepted
<1>1. ASSUME IInv, NEW t \in Turns, stage[t] \in {"review", "second review"}, stale[t] = {},
             Repeats(t, payload[t])
      PROVE  DryRun(t, payload[t]) = {}
  <2>. DEFINE p == payload[t]
  <2>1. /\ met[t] = Scene(t, exits[t]) /\ cards[t] \subseteq Directory
        /\ exits[t] \subseteq Places /\ copy[t] \in Places
        /\ None \notin exits[t]
      BY <1>1 DEF IInv, TypeOK, TInv, Sight, Looked, Running
  <2>2. PICK q \in {copy[t]} \cup exits[t] :
          /\ p.name \in Plain(q) \/ (p.name = None /\ q = copy[t])
          /\ q = copy[t] => goal[t] \notin exits[t]
          /\ p.people \cup p.called \subseteq Known(t, q)
          /\ Named(p) \subseteq bag[t]
          /\ ~p.leak
      BY <1>1 DEF Repeats
  <2>3. Known(t, q) \subseteq Figures(q)
      BY <2>1 DEF Known, Shown, Referenced, Scene, Directory, Figures
  <2>4. Target(t, p) = q /\ ~NoWay(t, p)
    <3>1. CASE p.name = None /\ q = copy[t]
        BY <3>1, <2>2 DEF Target, Heading, NoWay, Elsewhere
    <3>2. CASE p.name \in Plain(q)
      <4>1. p.name # None
          BY <3>2, <2>1, AliasesAreNames DEF Plain
      <4>2. Match(p.name, p.hint) = q /\ (Elsewhere(t, p) <=> q # copy[t])
          BY <3>2, <4>1, <2>1, PlainMatch DEF Elsewhere
      <4>. QED
          BY <4>2, <2>2 DEF Target, Heading, NoWay
    <3>. QED
        BY <3>1, <3>2, <2>2
  <2>. QED
      BY <2>2, <2>3, <2>4 DEF DryRun, Objections, Misaddressed, Figures, Away
<1>2. IInv => ToldIsAccepted
    BY <1>1 DEF ToldIsAccepted
<1>. QED
    BY <1>2, ReviewInv, PTL
=============================================================================
