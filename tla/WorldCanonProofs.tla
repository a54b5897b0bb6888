-------------------------- MODULE WorldCanonProofs --------------------------
(***************************************************************************)
(* WorldCanon for every world, axis, number of turns and sessions.         *)
(***************************************************************************)
EXTENDS WorldCanon, TLAPS

\* The numbers of the timeline up to the counter are used; the transaction that counts
\* holds the ones that follow.
Numbered(t) ==
    /\ first[t] = 0 => count[t] = 0
    /\ first[t] # 0 => first[t] = counter

Below == \A e \in canon : e[1] < counter

CountsAlone == \A t, u \in Txs : Counting(t) /\ Counting(u) => t = u

NumberInv == Below /\ CountsAlone /\ \A t \in Txs : Numbered(t)

\* One transaction at a time has written the axis, and what another one read is still
\* there unless it is late.
Axis(t) ==
    /\ written[t] => stage[t] \in {"number", "deliver", "commit"}
    /\ (written[t] \/ stage[t] = "axis") /\ ~late[t] => read[t] = axis

WritesAlone == \A t, u \in Txs : written[t] /\ written[u] => t = u

AxisInv == AxisExplained /\ WritesAlone /\ \A t \in Txs : Axis(t)

\* Every broadcast a turn was due has a delivery, or is one the turn still has to see to.
Due(t) ==
    /\ stage[t] = "sync" =>
          \A k \in due[t] : <<k, SessionOf[t]>> \in todo[t] \cup missing[t] \cup Visible(t)
    /\ stage[t] \in {"idle", "failed", "done"} \/ t \in Starts => due[t] = {}
    /\ stage[t] \notin {"idle", "sync", "done", "failed"} => due[t] \subseteq told[t]

DueInv == \A t \in Txs : Due(t)

USE CanonConstants, NoneIsNoKey
----------------------------------------------------------------------------
(* Types *)

LEMMA ClampRange ==
    ASSUME NEW x \in Int
    PROVE  Clamp(x) \in AxisMin .. AxisMax
BY DEF Clamp

LEMMA NewAxis ==
    ASSUME TypeOK, NEW t \in Txs
    PROVE  /\ Result(t) \in AxisMin .. AxisMax
           /\ AxisAfter(t) \in AxisMin .. AxisMax
           /\ Clamp(expected + delta[t]) \in AxisMin .. AxisMax
<1>1. delta[t] \in Deltas \cup {0} /\ read[t] \in AxisMin .. AxisMax
      /\ expected \in AxisMin .. AxisMax
    BY DEF TypeOK
<1>2. Deltas \cup {0} \subseteq Int /\ AxisMin .. AxisMax \subseteq Int
    OBVIOUS
<1>3. delta[t] \in Int /\ read[t] \in Int /\ expected \in Int
    BY <1>1, <1>2
<1>. QED
    BY <1>3, ClampRange DEF Result, AxisAfter, TypeOK

LEMMA ForgetType ==
    ASSUME TypeOK, NEW t \in Txs, Forget(t)
    PROVE  /\ moves' \in [Txs -> BOOLEAN]
           /\ place' \in [Txs -> Places]
           /\ todo' \in [Txs -> SUBSET Deliveries]
           /\ missing' \in [Txs -> SUBSET Deliveries]
           /\ rows' \in [Txs -> SUBSET Deliveries]
           /\ told' \in [Txs -> SUBSET Keys]
           /\ delta' \in [Txs -> Deltas \cup {0}]
           /\ key' \in [Txs -> Keys \cup {None}]
           /\ read' \in [Txs -> AxisMin .. AxisMax]
           /\ written' \in [Txs -> BOOLEAN]
           /\ first' \in [Txs -> Nat]
           /\ count' \in [Txs -> 0 .. 3]
           /\ due' \in [Txs -> SUBSET Keys]
BY DEF TypeOK, Forget

LEMMA RollBackType ==
    ASSUME TypeOK, NEW t \in Txs, RollBack(t), stage' \in [Txs -> Stages],
           attempt' \in [Txs -> 1 .. MaxAttempts]
    PROVE  TypeOK'
<1>1. Forget(t)
    BY DEF RollBack
<1>2. late' \in [Txs -> BOOLEAN]
    BY DEF RollBack, TypeOK
<1>. QED
    BY <1>1, <1>2, ForgetType DEF RollBack, TypeOK, world

LEMMA CanonTypeStep == TypeOK /\ NumberInv /\ [Next]_vars => TypeOK'
<1>. SUFFICES ASSUME TypeOK, NumberInv, [Next]_vars
              PROVE  TypeOK'
    OBVIOUS
<1>. USE DEF Goto
<1>1. ASSUME NEW t \in Txs, NEW d \in Deliveries, Look(t, d)
      PROVE  TypeOK'
    BY <1>1 DEF TypeOK, Look, world, choices, numbers
<1>2. ASSUME NEW t \in Txs, InsertDelivery(t)
      PROVE  TypeOK'
    BY <1>2 DEF TypeOK, InsertDelivery, world, choices, numbers
<1>3. ASSUME NEW t \in Txs, Load(t)
      PROVE  TypeOK'
  <2>1. ToSync(SessionOf[t], where[SessionOf[t]]) \subseteq Deliveries
      BY DEF ToSync, Deliveries, TypeOK
  <2>. QED
      BY <1>3, <2>1 DEF TypeOK, Load, world, numbers, Stages
<1>4. ASSUME NEW t \in Txs, Tell(t)
      PROVE  TypeOK'
    BY <1>4 DEF TypeOK, Tell, world, choices, work, numbers, Stages
<1>5. ASSUME NEW t \in Txs, Think(t)
      PROVE  TypeOK'
  <2>1. place' \in [Txs -> Places] /\ moves' \in [Txs -> BOOLEAN]
      BY <1>5 DEF TypeOK, Think, Nearby
  <2>2. key' \in [Txs -> Keys \cup {None}]
      BY <1>5 DEF TypeOK, Think
  <2>3. delta' \in [Txs -> Deltas \cup {0}] /\ stage' \in [Txs -> Stages]
      BY <1>5 DEF TypeOK, Think, Stages
  <2>. QED
      BY <1>5, <2>1, <2>2, <2>3 DEF TypeOK, Think, world, work, numbers
<1>6. ASSUME NEW t \in Txs, ReadAxis(t)
      PROVE  TypeOK'
    BY <1>6 DEF TypeOK, ReadAxis, world, choices, work, numbers, Stages
<1>7. ASSUME NEW t \in Txs, WriteAxis(t)
      PROVE  TypeOK'
    BY <1>7 DEF TypeOK, WriteAxis, world, choices, work, numbers, Stages
<1>8. ASSUME NEW t \in Txs, NumberTurn(t)
      PROVE  TypeOK'
  <2>1. first' \in [Txs -> Nat] /\ count' \in [Txs -> 0 .. 3] /\ stage' \in [Txs -> Stages]
      BY <1>8 DEF TypeOK, NumberTurn, NextNumber, Stages
  <2>2. todo' \in [Txs -> SUBSET Deliveries]
      BY <1>8 DEF TypeOK, NumberTurn, Deliveries
  <2>. QED
      BY <1>8, <2>1, <2>2 DEF TypeOK, NumberTurn, world, choices
<1>9. ASSUME NEW t \in Txs, Resume(t)
      PROVE  TypeOK'
  <2>1. ToSync(SessionOf[t], where[SessionOf[t]]) \subseteq Deliveries
      BY DEF ToSync, Deliveries, TypeOK
  <2>. QED
      BY <1>9, <2>1 DEF TypeOK, Resume, world, numbers, Stages
<1>10. ASSUME NEW t \in Txs, Open(t)
       PROVE  TypeOK'
    BY <1>10 DEF TypeOK, Open, world, work, numbers, Stages
<1>11. ASSUME NEW t \in Txs, NumberStart(t)
       PROVE  TypeOK'
  <2>1. ToSync(SessionOf[t], Starter) \subseteq Deliveries
      BY DEF ToSync, Deliveries, TypeOK
  <2>2. first' \in [Txs -> Nat] /\ count' \in [Txs -> 0 .. 3] /\ stage' \in [Txs -> Stages]
      BY <1>11 DEF TypeOK, NumberStart, NextNumber, Stages
  <2>. QED
      BY <1>11, <2>1, <2>2 DEF TypeOK, NumberStart, world, choices
<1>12. ASSUME NEW t \in Txs, Finish(t)
       PROVE  TypeOK'
    BY <1>12 DEF TypeOK, Finish, world, local, choices, work, numbers, Stages
<1>13. ASSUME NEW t \in Txs, Commit(t)
       PROVE  TypeOK'
  <2>1. Forget(t)
      BY <1>13 DEF Commit
  <2>2. canon' \subseteq (Nat \ {0}) \X Txs /\ counter' \in Nat \ {0}
    <3>1. first[t] \in Nat /\ count[t] \in Nat
        BY DEF TypeOK
    <3>2. Entries(t) \subseteq (Nat \ {0}) \X Txs
      <4>1. CASE first[t] = 0
          BY <4>1 DEF NumberInv, Numbered, Entries
      <4>2. CASE first[t] # 0
          BY <3>1, <4>2 DEF Entries
      <4>. QED
          BY <4>1, <4>2
    <3>. QED
        BY <1>13, <3>1, <3>2 DEF Commit, Counting, TypeOK
  <2>3. axis' \in AxisMin .. AxisMax /\ expected' \in AxisMin .. AxisMax
      BY <1>13, NewAxis DEF Commit, TypeOK
  <2>4. active' \subseteq Keys /\ delivered' \subseteq Deliveries /\ started' \subseteq Sessions
      BY <1>13 DEF Commit, TypeOK
  <2>5. where' \in [Sessions -> Places]
      BY <1>13 DEF Commit, TypeOK
  <2>6. stage' \in [Txs -> Stages] /\ late' \in [Txs -> BOOLEAN] /\ raced' \in BOOLEAN
      BY <1>13 DEF Commit, TypeOK, Stages
  <2>. QED
      BY <1>13, <2>1, <2>2, <2>3, <2>4, <2>5, <2>6, ForgetType DEF TypeOK, Commit
<1>14. ASSUME NEW t \in Txs, Fail(t) \/ Violate(t)
       PROVE  TypeOK'
  <2>1. stage' \in [Txs -> Stages] /\ attempt' \in [Txs -> 1 .. MaxAttempts] /\ RollBack(t)
      BY <1>14 DEF Fail, Violate, TypeOK, Stages
  <2>. QED
      BY <2>1, RollBackType
<1>15. CASE EndDeadlock
  <2>1. PICK t \in Txs : 
            /\ IF t \in Turns /\ attempt[t] < MaxAttempts
               THEN Goto(t, "idle") /\ attempt' = [attempt EXCEPT ![t] = @ + 1]
               ELSE Goto(t, "failed") /\ UNCHANGED attempt
            /\ RollBack(t)
      BY <1>15 DEF EndDeadlock
  <2>2. stage' \in [Txs -> Stages] /\ attempt' \in [Txs -> 1 .. MaxAttempts]
      BY <2>1 DEF TypeOK, Stages
  <2>. QED
      BY <2>1, <2>2, RollBackType
<1>16. CASE UNCHANGED vars
    BY <1>16 DEF TypeOK, vars, world, local, choices, work, numbers
<1>. QED
    BY <1>1, <1>2, <1>3, <1>4, <1>5, <1>6, <1>7, <1>8, <1>9, <1>10, <1>11, <1>12, <1>13,
       <1>14, <1>15, <1>16 DEF Next, Work, Turn, Start, Deliver
----------------------------------------------------------------------------
(* The numbers of the timeline *)

\* A transaction that counts nothing adds nothing; one that counts adds what follows.
LEMMA WhatIsNew ==
    ASSUME TypeOK, NumberInv, NEW t \in Txs, Commit(t)
    PROVE  /\ canon' = canon \cup Entries(t)
           /\ Entries(t) \cap canon = {}
           /\ \A e \in Entries(t) : e[1] \in counter .. counter' - 1
           /\ \A n \in counter .. counter' - 1 : <<n, t>> \in Entries(t)
           /\ counter' >= counter /\ counter' \in Nat
<1>1. first[t] \in Nat /\ count[t] \in Nat /\ counter \in Nat \ {0}
    BY DEF TypeOK
<1>2. CASE ~Counting(t)
  <2>1. Entries(t) = {} /\ counter' = counter
      BY <1>1, <1>2 DEF Counting, NumberInv, Numbered, Entries, Commit
  <2>. QED
      BY <1>1, <2>1 DEF Commit
<1>3. CASE Counting(t)
  <2>1. first[t] = counter /\ counter' = counter + count[t]
      BY <1>1, <1>3 DEF Counting, NumberInv, Numbered, Commit
  <2>2. Entries(t) = {<<n, t>> : n \in counter .. counter' - 1}
      BY <1>1, <2>1 DEF Entries
  <2>3. Entries(t) \cap canon = {}
    <3>. SUFFICES ASSUME NEW e \in Entries(t), e \in canon
                  PROVE  FALSE
        OBVIOUS
    <3>1. e[1] >= counter /\ e[1] \in Int
        BY <1>1, <2>1, <2>2
    <3>2. e[1] < counter
        BY DEF NumberInv, Below
    <3>. QED
        BY <1>1, <3>1, <3>2
  <2>4. \A e \in Entries(t) : e[1] \in counter .. counter' - 1
      BY <2>2
  <2>. QED
      BY <1>1, <2>1, <2>2, <2>3, <2>4 DEF Commit
<1>. QED
    BY <1>2, <1>3

\* The end of a transaction that fails gives its numbers back.
LEMMA NumbersAfterRollBack ==
    ASSUME TypeOK, NumberInv, NEW t \in Txs, RollBack(t)
    PROVE  NumberInv'
<1>1. canon' = canon /\ counter' = counter
    BY DEF RollBack, world
<1>2. first' = [first EXCEPT ![t] = 0] /\ count' = [count EXCEPT ![t] = 0]
    BY DEF RollBack, Forget
<1>. QED
    BY <1>1, <1>2 DEF NumberInv, Below, CountsAlone, Counting, Numbered, TypeOK

LEMMA NumberStep == TypeOK /\ NumberInv /\ [Next]_vars => NumberInv'
<1>. SUFFICES ASSUME TypeOK, NumberInv, [Next]_vars
              PROVE  NumberInv'
    OBVIOUS
<1>1. ASSUME UNCHANGED <<canon, counter, first, count>>
      PROVE  NumberInv'
    BY <1>1 DEF NumberInv, Below, CountsAlone, Counting, Numbered
<1>2. ASSUME NEW t \in Txs, NumberTurn(t) \/ NumberStart(t)
      PROVE  NumberInv'
  <2>1. first' = [first EXCEPT ![t] = counter] /\ canon' = canon /\ counter' = counter
      BY <1>2 DEF NumberTurn, NumberStart, NextNumber, world
  <2>2. \A u \in Txs \ {t} : first[u] = 0
      BY <1>2 DEF NumberTurn, NumberStart, CounterFree, Counting
  <2>3. \A u \in Txs \ {t} : count'[u] = count[u]
      BY <1>2 DEF NumberTurn, NumberStart, TypeOK
  <2>. QED
      BY <2>1, <2>2, <2>3 DEF NumberInv, Below, CountsAlone, Counting, Numbered, TypeOK
<1>3. ASSUME NEW t \in Txs, Commit(t)
      PROVE  NumberInv'
  <2>1. first' = [first EXCEPT ![t] = 0] /\ count' = [count EXCEPT ![t] = 0]
      BY <1>3 DEF Commit, Forget
  <2>2. Below'
    <3>. SUFFICES ASSUME NEW e \in canon'
                  PROVE  e[1] < counter'
        BY DEF Below
    <3>1. counter \in Nat /\ counter' \in Nat /\ counter' >= counter
        BY <1>3, WhatIsNew DEF TypeOK
    <3>2. CASE e \in canon
      <4>1. e[1] < counter /\ e[1] \in Nat
          BY <3>2 DEF NumberInv, Below, TypeOK
      <4>. QED
          BY <3>1, <4>1
    <3>3. CASE e \in Entries(t)
      <4>1. e[1] \in counter .. counter' - 1
          BY <1>3, <3>3, WhatIsNew
      <4>. QED
          BY <3>1, <4>1
    <3>. QED
        BY <1>3, <3>2, <3>3, WhatIsNew
  <2>3. \A u \in Txs \ {t} : Numbered(u)'
    <3>. SUFFICES ASSUME NEW u \in Txs \ {t}
                  PROVE  Numbered(u)'
        OBVIOUS
    <3>1. CASE Counting(t)
      <4>1. first[u] = 0
          BY <3>1 DEF NumberInv, CountsAlone, Counting
      <4>. QED
          BY <2>1, <4>1 DEF NumberInv, Numbered, TypeOK
    <3>2. CASE ~Counting(t)
      <4>1. counter' = counter
          BY <1>3, <3>2 DEF Commit
      <4>. QED
          BY <2>1, <4>1 DEF NumberInv, Numbered, TypeOK
    <3>. QED
        BY <3>1, <3>2
  <2>4. Numbered(t)' /\ CountsAlone'
      BY <2>1 DEF NumberInv, Numbered, CountsAlone, Counting, TypeOK
  <2>. QED
      BY <2>2, <2>3, <2>4 DEF NumberInv
<1>4. ASSUME NEW t \in Txs, RollBack(t)
      PROVE  NumberInv'
    BY <1>4, NumbersAfterRollBack
<1>5. ASSUME NEW t \in Txs, Deliver(t) \/ Load(t) \/ Tell(t) \/ Think(t) \/ ReadAxis(t)
                            \/ WriteAxis(t) \/ Resume(t) \/ Open(t) \/ Finish(t)
      PROVE  NumberInv'
  <2>1. CASE Violate(t)
      BY <1>4, <2>1 DEF Violate
  <2>2. CASE ~Violate(t)
      BY <1>1, <1>5, <2>2 DEF Deliver, Look, InsertDelivery, Load, Tell, Think, ReadAxis,
         WriteAxis, Resume, Open, Finish, world, numbers, local
  <2>. QED
      BY <2>1, <2>2
<1>6. CASE \E t \in Txs : Fail(t)
    BY <1>4, <1>6 DEF Fail
<1>7. CASE EndDeadlock
    BY <1>4, <1>7 DEF EndDeadlock
<1>8. CASE UNCHANGED vars
    BY <1>1, <1>8 DEF vars, world, local, numbers
<1>. QED
    BY <1>2, <1>3, <1>5, <1>6, <1>7, <1>8 DEF Next, Work, Turn, Start

LEMMA CanonInit == Init => TypeOK /\ NumberInv
<1>. SUFFICES ASSUME Init
              PROVE  TypeOK /\ NumberInv
    OBVIOUS
<1>1. active \subseteq Keys /\ started \subseteq Sessions
    BY DEF Init
<1>2. delivered \subseteq Deliveries
    BY <1>1 DEF Init, Deliveries
<1>3. TypeOK
  <2>1. /\ canon \subseteq (Nat \ {0}) \X Txs
        /\ counter \in Nat \ {0}
        /\ axis \in AxisMin .. AxisMax /\ expected \in AxisMin .. AxisMax
        /\ where \in [Sessions -> Places]
      BY DEF Init
  <2>2. /\ stage \in [Txs -> Stages]
        /\ attempt \in [Txs -> 1 .. MaxAttempts]
        /\ moves \in [Txs -> BOOLEAN]
        /\ place \in [Txs -> Places]
      BY DEF Init, Stages
  <2>3. /\ todo \in [Txs -> SUBSET Deliveries]
        /\ missing \in [Txs -> SUBSET Deliveries]
        /\ rows \in [Txs -> SUBSET Deliveries]
        /\ told \in [Txs -> SUBSET Keys]
        /\ due \in [Txs -> SUBSET Keys]
      BY DEF Init
  <2>4. delta \in [Txs -> Deltas \cup {0}] /\ key \in [Txs -> Keys \cup {None}]
      BY DEF Init
  <2>5. read \in [Txs -> AxisMin .. AxisMax]
    <3>1. AxisMin \in AxisMin .. AxisMax
        OBVIOUS
    <3>. QED
        BY <3>1 DEF Init
  <2>6. written \in [Txs -> BOOLEAN] /\ late \in [Txs -> BOOLEAN] /\ raced \in BOOLEAN
      BY DEF Init
  <2>7. first \in [Txs -> Nat] /\ count \in [Txs -> 0 .. 3]
      BY DEF Init
  <2>. QED
      BY <1>1, <1>2, <2>1, <2>2, <2>3, <2>4, <2>5, <2>6, <2>7 DEF TypeOK
<1>4. NumberInv
    BY DEF Init, NumberInv, Below, CountsAlone, Counting, Numbered
<1>. QED
    BY <1>3, <1>4

\* Every variable keeps its range: in particular the axis is kept between its bounds
\* although what is added to it was chosen for a value read before.
THEOREM CanonTypeOK == Spec => []TypeOK
<1>1. TypeOK /\ NumberInv /\ [Next]_vars => (TypeOK /\ NumberInv)'
    BY CanonTypeStep, NumberStep
<1>. QED
    BY <1>1, CanonInit, PTL DEF Spec

\* The timeline is numbered without holes or repetitions, in the order in which turns
\* and sessions become visible, whatever fails in between.
THEOREM CanonNumberedInOrder == Spec => NumberedInOrder
<1>. DEFINE Step == LET new == canon' \ canon
                    IN  /\ {e[1] : e \in new} = counter .. counter' - 1
                        /\ \A e, f \in new : e[1] = f[1] => e = f
<1>1. TypeOK /\ NumberInv /\ [Next]_vars => (TypeOK /\ NumberInv)'
    BY CanonTypeStep, NumberStep
<1>2. ASSUME TypeOK, NumberInv, Next
      PROVE  Step
  <2>1. ASSUME UNCHANGED <<canon, counter>>
        PROVE  Step
    <3>1. counter \in Nat
        BY <1>2 DEF TypeOK
    <3>. QED
        BY <2>1, <3>1
  <2>2. ASSUME NEW t \in Txs, Commit(t)
        PROVE  Step
    <3>1. canon' \ canon = Entries(t)
        BY <1>2, <2>2, WhatIsNew
    <3>2. {e[1] : e \in Entries(t)} = counter .. counter' - 1
      <4>1. \A e \in Entries(t) : e[1] \in counter .. counter' - 1
          BY <1>2, <2>2, WhatIsNew
      <4>2. \A n \in counter .. counter' - 1 : <<n, t>> \in Entries(t) /\ <<n, t>>[1] = n
          BY <1>2, <2>2, WhatIsNew
      <4>. QED
          BY <4>1, <4>2
    <3>3. \A e, f \in Entries(t) : e[1] = f[1] => e = f
        BY DEF Entries
    <3>. QED
        BY <3>1, <3>2, <3>3
  <2>3. CASE \A t \in Txs : ~Commit(t)
    <3>1. UNCHANGED <<canon, counter>>
        BY <1>2, <2>3 DEF Next, Work, Turn, Start, Deliver, Look, InsertDelivery, Violate,
           Load, Tell, Think, ReadAxis, WriteAxis, NumberTurn, Resume, Open, NumberStart,
           Finish, Fail, EndDeadlock, RollBack, world
    <3>. QED
        BY <2>1, <3>1
  <2>. QED
      BY <2>2, <2>3
<1>3. TypeOK /\ NumberInv /\ [Next]_vars => [Step]_vars
    BY <1>2
<1>. QED
    BY <1>1, <1>3, CanonInit, PTL DEF Spec, NumberedInOrder
----------------------------------------------------------------------------
(* The axis *)

LEMMA AxisAfterRollBack ==
    ASSUME TypeOK, AxisInv, NEW t \in Txs, RollBack(t), stage'[t] \in {"idle", "failed"},
           \A u \in Txs \ {t} : stage'[u] = stage[u]
    PROVE  AxisInv'
<1>1. axis' = axis /\ expected' = expected /\ raced' = raced
    BY DEF RollBack, world
<1>2. written' = [written EXCEPT ![t] = FALSE] /\ late' = [late EXCEPT ![t] = FALSE]
      /\ \A u \in Txs \ {t} : read'[u] = read[u]
    BY DEF RollBack, Forget, TypeOK
<1>3. AxisExplained'
    BY <1>1 DEF AxisInv, AxisExplained
<1>4. WritesAlone'
    BY <1>2 DEF AxisInv, WritesAlone, TypeOK
<1>5. \A u \in Txs \ {t} : Axis(u)'
    BY <1>1, <1>2 DEF AxisInv, Axis, TypeOK
<1>6. Axis(t)'
    BY <1>2 DEF Axis, TypeOK
<1>. QED
    BY <1>3, <1>4, <1>5, <1>6 DEF AxisInv

LEMMA AxisStep == TypeOK /\ AxisInv /\ [Next]_vars => AxisInv'
<1>. SUFFICES ASSUME TypeOK, AxisInv, [Next]_vars
              PROVE  AxisInv'
    OBVIOUS
\* A step elsewhere, which leads neither to the axis nor away from the end.
<1>1. ASSUME UNCHANGED <<axis, expected, raced, written, read, late>>,
             \A u \in Txs : stage'[u] = "axis" => stage[u] = "axis",
             \A u \in Txs : stage[u] \in {"number", "deliver", "commit"}
                                => stage'[u] \in {"number", "deliver", "commit"}
      PROVE  AxisInv'
    BY <1>1 DEF AxisInv, AxisExplained, WritesAlone, Axis
<1>2. ASSUME NEW t \in Txs, ReadAxis(t)
      PROVE  AxisInv'
  <2>1. read' = [read EXCEPT ![t] = axis] /\ late' = [late EXCEPT ![t] = FALSE]
        /\ stage' = [stage EXCEPT ![t] = "axis"] /\ stage[t] = "read"
        /\ UNCHANGED <<axis, expected, raced, written>>
      BY <1>2 DEF ReadAxis, Goto, world
  <2>. QED
      BY <2>1 DEF AxisInv, AxisExplained, WritesAlone, Axis, TypeOK
<1>3. ASSUME NEW t \in Txs, WriteAxis(t)
      PROVE  AxisInv'
  <2>1. written' = [written EXCEPT ![t] = TRUE] /\ stage[t] = "axis"
        /\ stage' = [stage EXCEPT ![t] = "number"]
        /\ UNCHANGED <<axis, expected, raced, read, late>>
      BY <1>3 DEF WriteAxis, Goto, world
  <2>2. \A u \in Txs \ {t} : ~written[u]
      BY <1>3 DEF WriteAxis
  <2>3. WritesAlone' /\ AxisExplained'
      BY <2>1, <2>2 DEF AxisInv, AxisExplained, WritesAlone, TypeOK
  <2>4. \A u \in Txs : Axis(u)'
      BY <2>1 DEF AxisInv, Axis, TypeOK
  <2>. QED
      BY <2>3, <2>4 DEF AxisInv
<1>4. ASSUME NEW t \in Txs, Commit(t)
      PROVE  AxisInv'
  <2>1. /\ written' = [written EXCEPT ![t] = FALSE]
        /\ stage' = [stage EXCEPT ![t] = "done"]
        /\ axis' = AxisAfter(t)
        /\ expected' = IF written[t] THEN Clamp(expected + delta[t]) ELSE expected
        /\ late' = [u \in Txs |-> u # t /\ (late[u] \/ (written[t] /\ stage[u] = "axis"))]
        /\ raced' = (raced \/ (written[t] /\ late[t]))
        /\ \A u \in Txs \ {t} : read'[u] = read[u]
      BY <1>4 DEF Commit, Forget, Goto, TypeOK
  <2>2. WritesAlone'
      BY <2>1 DEF AxisInv, WritesAlone, TypeOK
  <2>3. AxisExplained'
    <3>. SUFFICES ASSUME ~raced'
                  PROVE  axis' = expected'
        BY DEF AxisExplained
    <3>1. axis = expected
        BY <2>1 DEF AxisInv, AxisExplained
    <3>2. CASE written[t]
      <4>1. read[t] = axis
          BY <2>1, <3>2 DEF AxisInv, Axis
      <4>. QED
          BY <2>1, <3>1, <3>2, <4>1 DEF AxisAfter, Result
    <3>3. CASE ~written[t]
        BY <2>1, <3>1, <3>3 DEF AxisAfter
    <3>. QED
        BY <3>2, <3>3
  <2>4. Axis(t)'
      BY <2>1 DEF Axis, TypeOK
  <2>5. ASSUME NEW u \in Txs \ {t}
        PROVE  Axis(u)'
    <3>1. CASE written[t]
      <4>1. ~written[u]
          BY <3>1 DEF AxisInv, WritesAlone
      <4>. QED
          BY <2>1, <3>1, <4>1 DEF Axis, TypeOK
    <3>2. CASE ~written[t]
        BY <2>1, <3>2 DEF AxisInv, Axis, AxisAfter, TypeOK
    <3>. QED
        BY <3>1, <3>2
  <2>. QED
      BY <2>2, <2>3, <2>4, <2>5 DEF AxisInv
<1>5. ASSUME NEW t \in Txs, Fail(t) \/ Violate(t)
      PROVE  AxisInv'
    BY <1>5, AxisAfterRollBack DEF Fail, Violate, Goto, TypeOK
<1>6. CASE EndDeadlock
  <2>1. PICK t \in Txs : RollBack(t) /\ (Goto(t, "idle") \/ Goto(t, "failed"))
      BY <1>6 DEF EndDeadlock
  <2>. QED
      BY <2>1, AxisAfterRollBack DEF Goto, TypeOK
<1>7. ASSUME NEW t \in Txs, (\E d \in Deliveries : Look(t, d)) \/ InsertDelivery(t)
      PROVE  AxisInv'
    BY <1>1, <1>7 DEF Look, InsertDelivery, world
<1>8. ASSUME NEW t \in Txs, Load(t) \/ Tell(t) \/ Resume(t) \/ Open(t)
      PROVE  AxisInv'
    BY <1>1, <1>8 DEF Load, Tell, Resume, Open, Goto, world, TypeOK
<1>9. ASSUME NEW t \in Txs, Think(t)
      PROVE  AxisInv'
  <2>1. stage[t] = "think" /\ (Goto(t, "number") \/ Goto(t, "read"))
        /\ UNCHANGED <<axis, expected, raced, written, read, late>>
      BY <1>9 DEF Think, world
  <2>. QED
      BY <1>1, <2>1 DEF Goto, TypeOK
<1>10. ASSUME NEW t \in Txs, NumberTurn(t) \/ NumberStart(t) \/ Finish(t)
       PROVE  AxisInv'
    BY <1>1, <1>10 DEF NumberTurn, NumberStart, Finish, Goto, world, local, TypeOK
<1>11. CASE UNCHANGED vars
    BY <1>1, <1>11 DEF vars, world, local
<1>. QED
    BY <1>2, <1>3, <1>4, <1>5, <1>6, <1>7, <1>8, <1>9, <1>10, <1>11
       DEF Next, Work, Turn, Start, Deliver

\* The axis is what the rules make of it in the order of the commits, in every world
\* in which no turn has written over a value that it had not read.
THEOREM CanonAxisExplained == Spec => []AxisExplained
<1>1. Init => TypeOK /\ NumberInv /\ AxisInv
  <2>1. Init => AxisInv
      BY DEF Init, AxisInv, AxisExplained, WritesAlone, Axis
  <2>. QED
      BY <2>1, CanonInit
<1>2. TypeOK /\ NumberInv /\ AxisInv /\ [Next]_vars => (TypeOK /\ NumberInv /\ AxisInv)'
    BY CanonTypeStep, NumberStep, AxisStep
<1>3. AxisInv => AxisExplained
    BY DEF AxisInv
<1>. QED
    BY <1>1, <1>2, <1>3, PTL DEF Spec
----------------------------------------------------------------------------
(* Broadcasts *)

LEMMA DueAfterRollBack ==
    ASSUME TypeOK, DueInv, NEW t \in Txs, RollBack(t), stage'[t] \in {"idle", "failed"},
           \A u \in Txs \ {t} : stage'[u] = stage[u]
    PROVE  DueInv'
<1>1. due' = [due EXCEPT ![t] = {}] /\ delivered' = delivered
    BY DEF RollBack, Forget, world
<1>2. \A u \in Txs \ {t} : /\ todo'[u] = todo[u] /\ missing'[u] = missing[u]
                           /\ rows'[u] = rows[u] /\ told'[u] = told[u]
    BY DEF RollBack, Forget, TypeOK
<1>3. Due(t)'
    BY <1>1 DEF Due, TypeOK
<1>4. \A u \in Txs \ {t} : Due(u)'
    BY <1>1, <1>2 DEF DueInv, Due, Visible, TypeOK
<1>. QED
    BY <1>3, <1>4 DEF DueInv

LEMMA DueStep == TypeOK /\ DueInv /\ [Next]_vars => DueInv'
<1>. SUFFICES ASSUME TypeOK, DueInv, [Next]_vars
              PROVE  DueInv'
    OBVIOUS
\* Steps after the models were told.
<1>1. ASSUME UNCHANGED <<delivered, rows, told, due>>, NEW t \in Txs,
             \A u \in Txs \ {t} : stage'[u] = stage[u] /\ todo'[u] = todo[u]
                                  /\ missing'[u] = missing[u],
             \/ t \in Starts
             \/ /\ stage[t] \notin {"idle", "sync", "done", "failed"}
                /\ stage'[t] \notin {"idle", "sync", "done", "failed"}
      PROVE  DueInv'
  <2>1. \A u \in Txs \ {t} : Due(u)'
      BY <1>1 DEF DueInv, Due, Visible
  <2>2. Due(t)'
      BY <1>1 DEF DueInv, Due, Visible
  <2>. QED
      BY <2>1, <2>2 DEF DueInv
<1>2. ASSUME NEW t \in Txs, NEW d \in Deliveries, Look(t, d)
      PROVE  DueInv'
  <2>1. /\ todo' = [todo EXCEPT ![t] = @ \ {d}]
        /\ missing' = [missing EXCEPT ![t] = {d} \ Visible(t)]
        /\ missing[t] = {}
        /\ UNCHANGED <<delivered, rows, told, due, stage>>
      BY <1>2 DEF Look, world
  <2>2. todo'[t] = todo[t] \ {d} /\ missing'[t] = {d} \ Visible(t) /\ Visible(t)' = Visible(t)
      BY <2>1 DEF TypeOK, Visible
  <2>3. Due(t)'
      BY <2>1, <2>2 DEF DueInv, Due
  <2>4. \A u \in Txs \ {t} : Due(u)'
      BY <2>1 DEF DueInv, Due, Visible, TypeOK
  <2>. QED
      BY <2>3, <2>4 DEF DueInv
<1>3. ASSUME NEW t \in Txs, InsertDelivery(t)
      PROVE  DueInv'
  <2>1. /\ rows' = [rows EXCEPT ![t] = @ \cup missing[t]]
        /\ missing' = [missing EXCEPT ![t] = {}]
        /\ UNCHANGED <<delivered, todo, told, due, stage>>
      BY <1>3 DEF InsertDelivery, world
  <2>2. missing'[t] = {} /\ Visible(t)' = Visible(t) \cup missing[t]
      BY <2>1 DEF TypeOK, Visible
  <2>3. Due(t)'
      BY <2>1, <2>2 DEF DueInv, Due
  <2>4. \A u \in Txs \ {t} : Due(u)'
      BY <2>1 DEF DueInv, Due, Visible, TypeOK
  <2>. QED
      BY <2>3, <2>4 DEF DueInv
<1>4. ASSUME NEW t \in Txs, Load(t)
      PROVE  DueInv'
  <2>1. /\ stage' = [stage EXCEPT ![t] = "sync"]
        /\ todo' = [todo EXCEPT ![t] = ToSync(SessionOf[t], where[SessionOf[t]])]
        /\ due' = [due EXCEPT ![t] = {k \in active : where[SessionOf[t]] \in Affected(k)}]
        /\ UNCHANGED <<delivered, rows, missing, told>>
        /\ t \in Turns
      BY <1>4 DEF Load, Goto, world
  <2>2. \A k \in due'[t] : <<k, SessionOf[t]>> \in todo'[t]
      BY <2>1 DEF ToSync, TypeOK
  <2>3. Due(t)'
      BY <2>1, <2>2 DEF Due, TypeOK
  <2>4. \A u \in Txs \ {t} : Due(u)'
      BY <2>1 DEF DueInv, Due, Visible, TypeOK
  <2>. QED
      BY <2>3, <2>4 DEF DueInv
<1>5. ASSUME NEW t \in Txs, Tell(t)
      PROVE  DueInv'
  <2>1. /\ stage[t] = "sync" /\ todo[t] = {} /\ missing[t] = {}
        /\ stage' = [stage EXCEPT ![t] = "think"]
        /\ told' = [told EXCEPT ![t] = {k \in Keys : <<k, SessionOf[t]>> \in Visible(t)}]
        /\ UNCHANGED <<delivered, rows, missing, todo, due>>
        /\ t \in Turns
      BY <1>5 DEF Tell, Delivered, Goto, world, work
  <2>2. due[t] \subseteq told'[t]
      BY <2>1 DEF DueInv, Due, TypeOK
  <2>3. Due(t)'
      BY <2>1, <2>2 DEF Due, TypeOK
  <2>4. \A u \in Txs \ {t} : Due(u)'
      BY <2>1 DEF DueInv, Due, Visible, TypeOK
  <2>. QED
      BY <2>3, <2>4 DEF DueInv
<1>6. ASSUME NEW t \in Txs, Commit(t)
      PROVE  DueInv'
  <2>1. /\ delivered \subseteq delivered'
        /\ stage' = [stage EXCEPT ![t] = "done"]
        /\ due' = [due EXCEPT ![t] = {}]
        /\ \A u \in Txs \ {t} : /\ todo'[u] = todo[u] /\ missing'[u] = missing[u]
                                /\ rows'[u] = rows[u] /\ told'[u] = told[u]
      BY <1>6 DEF Commit, Forget, Goto, TypeOK
  <2>2. Due(t)'
      BY <2>1 DEF Due, TypeOK
  <2>3. \A u \in Txs \ {t} : Due(u)'
      BY <2>1 DEF DueInv, Due, Visible, TypeOK
  <2>. QED
      BY <2>2, <2>3 DEF DueInv
<1>7. ASSUME NEW t \in Txs, Fail(t) \/ Violate(t)
      PROVE  DueInv'
    BY <1>7, DueAfterRollBack DEF Fail, Violate, Goto, TypeOK
<1>8. CASE EndDeadlock
  <2>1. PICK t \in Txs : RollBack(t) /\ (Goto(t, "idle") \/ Goto(t, "failed"))
      BY <1>8 DEF EndDeadlock
  <2>. QED
      BY <2>1, DueAfterRollBack DEF Goto, TypeOK
<1>9. ASSUME NEW t \in Txs, Think(t)
      PROVE  DueInv'
  <2>1. stage[t] = "think" /\ (Goto(t, "number") \/ Goto(t, "read"))
        /\ UNCHANGED <<delivered, rows, told, due, todo, missing>>
      BY <1>9 DEF Think, world, work
  <2>. QED
      BY <1>1, <2>1 DEF Goto, TypeOK
<1>10. ASSUME NEW t \in Txs, ReadAxis(t) \/ WriteAxis(t) \/ NumberTurn(t) \/ Finish(t)
       PROVE  DueInv'
  <2>1. /\ stage[t] \in {"read", "axis", "number", "deliver"}
        /\ stage'[t] \in {"axis", "number", "deliver", "commit"}
        /\ UNCHANGED <<delivered, rows, told, due, missing>>
        /\ \A u \in Txs \ {t} : stage'[u] = stage[u] /\ todo'[u] = todo[u]
      BY <1>10 DEF ReadAxis, WriteAxis, NumberTurn, Finish, Goto, world, work, local, TypeOK
  <2>. QED
      BY <1>1, <2>1
<1>11. ASSUME NEW t \in Txs, Resume(t) \/ Open(t) \/ NumberStart(t)
       PROVE  DueInv'
  <2>1. /\ t \in Starts
        /\ UNCHANGED <<delivered, rows, told, due, missing>>
        /\ \A u \in Txs \ {t} : stage'[u] = stage[u] /\ todo'[u] = todo[u]
      BY <1>11 DEF Resume, Open, NumberStart, Goto, world, work, TypeOK
  <2>. QED
      BY <1>1, <2>1
<1>12. CASE UNCHANGED vars
    BY <1>12 DEF vars, world, local, work, DueInv, Due, Visible
<1>. QED
    BY <1>2, <1>3, <1>4, <1>5, <1>6, <1>7, <1>8, <1>9, <1>10, <1>11, <1>12
       DEF Next, Work, Turn, Start, Deliver

\* The models of a turn are told every broadcast that was active for the player's place
\* when the turn began, whoever else delivers it at the same time.
THEOREM CanonInformed == Spec => []Informed
<1>1. Init => TypeOK /\ NumberInv /\ DueInv
  <2>1. Init => DueInv
      BY DEF Init, DueInv, Due
  <2>. QED
      BY <2>1, CanonInit
<1>2. TypeOK /\ NumberInv /\ DueInv /\ [Next]_vars => (TypeOK /\ NumberInv /\ DueInv)'
    BY CanonTypeStep, NumberStep, DueStep
<1>3. DueInv => Informed
    BY DEF DueInv, Due, Informed, Txs
<1>. QED
    BY <1>1, <1>2, <1>3, PTL DEF Spec
=============================================================================
