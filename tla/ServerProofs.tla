---------------------------- MODULE ServerProofs ----------------------------
(***************************************************************************)
(* What goes on in the background: TurnPipeline for any number of turns,   *)
(* attempts, waiting reports and crashes, and, below, ReleaseGate for any  *)
(* files, checks and checklists and IdleWorld for any NPCs, places, roads, *)
(* operators and newcomers.  The three share no state.                     *)
(***************************************************************************)
EXTENDS TurnPipeline, ReleaseGate, IdleWorld, SequenceTheorems, WellFoundedInduction, TLAPS

(* The inductive invariant.  Story(k) says where the three activities of a *)
(* turn can be together, and what the database and the player know then.   *)

Requested(k) ==
    /\ request[k] = "new" => job[k] = "none" /\ task[k] = "none"
    /\ request[k] = "accepted" => job[k] # "none" /\ task[k] = "none"
    /\ job[k] = "none" <=> charge[k] = "none"
    /\ job[k] = "none" => task[k] = "none"
    /\ worker[k] = "none" <=> task[k] = "none"

Worked(k) ==
    /\ worker[k] = "none" => turn[k] = "none" /\ queue[k] = 0
    /\ worker[k] \in {"starting", "resolving", "retrying"} => turn[k] = "none"
    /\ worker[k] = "returned" => /\ result[k] \in Outcome
                                 /\ turn[k] = result[k] /\ job[k] = result[k]
    /\ worker[k] \in {"giving_up", "raised"} => turn[k] = "none" \/ unheard[k]
    /\ worker[k] = "retrying" => attempt[k] < MaxAttempts

Settled(k) ==
    /\ charge[k] = "refunded" <=> turn[k] = "failed"
    /\ job[k] = "resolved" => turn[k] = "resolved"
    /\ turn[k] = "resolved" => job[k] = "resolved" \/ (unheard[k] /\ job[k] = "failed")
    /\ turn[k] = "failed" => job[k] = "failed"

Followed(k) ==
    /\ task[k] = "erroring" => worker[k] = "raised" /\ queue[k] = 0
    /\ task[k] \in {"reporting", "localized", "persisted", "announcing"} =>
           worker[k] = "returned" /\ queue[k] = 0
    /\ task[k] \in {"persisted", "announcing"} => text[k]
    /\ told[k] # "none" <=> task[k] = "done"
    /\ ends[k] = IF task[k] = "done" THEN 1 ELSE 0

Told(k) ==
    told[k] # "none" =>
      /\ worker[k] \in {"returned", "raised", "lost"}
      /\ queue[k] = 0
      /\ told[k] = "resolved" => job[k] = "resolved" /\ text[k]
      /\ told[k] = "refunded" => charge[k] = "refunded" /\ text[k]
      /\ told[k] = "error" => turn[k] = "none" \/ unheard[k]

Story(k) == Requested(k) /\ Worked(k) /\ Settled(k) /\ Followed(k) /\ Told(k)
IInv == TypeOK /\ \A k \in Turns : Story(k)
----------------------------------------------------------------------------
(* The invariant holds initially and is kept by every step. *)

\* The initial state satisfies the invariant.
LEMMA InitInv == PipelineConstants /\ Init => IInv
  BY DEF PipelineConstants, Init, IInv, TypeOK, Outcome, Story, Requested, Worked, Settled, Followed, Told

\* The request keeps the invariant.
LEMMA RequestInv ==
    ASSUME PipelineConstants, IInv, NEW k \in Turns, Request(k)
    PROVE  IInv'
<1> USE DEF IInv, TypeOK, Outcome, Story, Requested, Worked, Settled, Followed, Told,
        database, working, stream, PipelineConstants
<1>1. CASE Accept(k)
  BY <1>1 DEF Accept
<1>2. CASE Reject(k)
  BY <1>2 DEF Reject
<1>3. CASE Launch(k)
  BY <1>3 DEF Launch, Send
<1>4. CASE FailToLaunch(k)
  BY <1>4 DEF FailToLaunch
<1>5. QED
  BY <1>1, <1>2, <1>3, <1>4 DEF Request

\* The worker keeps the invariant.
LEMMA WorkInv ==
    ASSUME PipelineConstants, IInv, NEW k \in Turns, Work(k)
    PROVE  IInv'
<1> USE DEF IInv, TypeOK, Outcome, Story, Requested, Worked, Settled, Followed, Told,
        database, working, stream, PipelineConstants
<1>1. CASE StartAttempt(k)
  BY <1>1 DEF StartAttempt
<1>2. CASE Report(k)
  BY <1>2 DEF Report
<1>3. CASE Raise(k)
  BY <1>3 DEF Raise, MayRetry
<1>4. CASE MarkRetrying(k)
  BY <1>4 DEF MarkRetrying
<1>5. CASE MarkFailed(k)
  BY <1>5 DEF MarkFailed
<1>6. CASE MarkRaises(k)
  BY <1>6 DEF MarkRaises
<1>7. CASE \E o \in Outcome : Resolve(k, o)
  BY <1>7 DEF Resolve, Settle
<1>8. CASE \E o \in Outcome : ResolveUnheard(k, o)
  BY <1>8 DEF ResolveUnheard, Settle
<1> HIDE DEF IInv, TypeOK, Outcome, Story, Requested, Worked, Settled, Followed, Told,
        database, working, stream
<1>9. QED
  BY <1>1, <1>2, <1>3, <1>4, <1>5, <1>6, <1>7, <1>8 DEF Work

\* The task keeps the invariant.
LEMMA FollowInv ==
    ASSUME PipelineConstants, IInv, NEW k \in Turns, Follow(k)
    PROVE  IInv'
<1> USE DEF IInv, TypeOK, Outcome, Story, Requested, Worked, Settled, Followed, Told,
        database, working, stream, PipelineConstants
<1>1. CASE Relay(k)
  BY <1>1 DEF Relay, Send
<1>2. CASE Heartbeat(k)
  BY <1>2 DEF Heartbeat, Send
<1>3. CASE StopDraining(k)
  BY <1>3 DEF StopDraining, Drained, Ended
<1>4. CASE TellError(k)
  BY <1>4 DEF TellError, Tell, Send
<1>5. CASE Localize(k)
  BY <1>5 DEF Localize, Send
<1>6. CASE PersistText(k)
  BY <1>6 DEF PersistText
<1>7. CASE SendResults(k)
  BY <1>7 DEF SendResults, Send
<1>8. CASE Announce(k)
  BY <1>8 DEF Announce, Tell, Send
<1>9. CASE Die(k)
  BY <1>9 DEF Die, Relaying
<1>10. QED
  BY <1>1, <1>2, <1>3, <1>4, <1>5, <1>6, <1>7, <1>8, <1>9 DEF Follow

\* A crash keeps the invariant.
LEMMA CrashInv == PipelineConstants /\ IInv /\ Crash => IInv'
  BY DEF IInv, TypeOK, Outcome, Story, Requested, Worked, Settled, Followed, Told,
         database, working, stream, PipelineConstants, Crash, Relaying

\* Every step keeps the invariant.
LEMMA NextInv == PipelineConstants /\ IInv /\ [Next]_vars => IInv'
<1> SUFFICES ASSUME PipelineConstants, IInv, [Next]_vars PROVE IInv'
  OBVIOUS
<1>1. ASSUME UNCHANGED vars PROVE IInv'
  BY <1>1 DEF vars, database, working, stream, IInv, TypeOK, Outcome, Story, Requested,
              Worked, Settled, Followed, Told
<1>2. QED
  BY <1>1, RequestInv, WorkInv, FollowInv, CrashInv DEF Next, Quiet

\* The inductive invariant holds in every reachable state.
THEOREM PipelineInv == Spec => []IInv
<1>1. Init => IInv
  BY PipelineConstants, InitInv
<1>2. IInv /\ [Next]_vars => IInv'
  BY PipelineConstants, NextInv
<1>3. QED
  BY <1>1, <1>2, PTL DEF Spec
----------------------------------------------------------------------------
(* What follows from it. *)

\* Every variable keeps its type; in particular a turn is attempted at most
\* MaxAttempts times and has at most one final event.
THEOREM PipelineTypeOK == Spec => []TypeOK
<1>1. IInv => TypeOK
  BY DEF IInv
<1>2. QED
  BY <1>1, PipelineInv, PTL

\* The job row, the Turn row and the ledger of a turn always tell one story.
THEOREM PipelineJobTellsFate == Spec => []JobTellsFate
<1>1. IInv => JobTellsFate
  BY DEF IInv, Story, Requested, Settled, JobTellsFate
<1>2. QED
  BY <1>1, PipelineInv, PTL

\* The final event of a turn says what the database says, and comes after every
\* progress report.
THEOREM PipelineToldIsTrue == Spec => []ToldIsTrue
<1>1. IInv => ToldIsTrue
  BY DEF IInv, Story, Told, ToldIsTrue
<1>2. QED
  BY <1>1, PipelineInv, PTL

\* No step touches a turn that has had its final event.
LEMMA EndedIsStill ==
    ASSUME IInv, [Next]_vars, NEW k \in Turns, ends[k] = 1
    PROVE  /\ job'[k] = job[k] /\ turn'[k] = turn[k]
           /\ charge'[k] = charge[k] /\ text'[k] = text[k]
           /\ last'[k] = last[k] /\ ends'[k] = ends[k]
<1>1. /\ task[k] = "done" /\ worker[k] \in {"returned", "raised", "lost"}
      /\ request[k] = "done"
  BY DEF IInv, TypeOK, Story, Requested, Followed, Told
<1> USE <1>1 DEF IInv, TypeOK, database, working, stream
<1>2. CASE UNCHANGED vars
  BY <1>2 DEF vars
<1>3. ASSUME NEW j \in Turns, Request(j)
      PROVE  UNCHANGED <<turn, text, ends>> /\ job'[k] = job[k]
             /\ charge'[k] = charge[k] /\ last'[k] = last[k]
  BY <1>3 DEF Request, Accept, Reject, Launch, FailToLaunch, Send
<1>4. ASSUME NEW j \in Turns, Work(j)
      PROVE  UNCHANGED <<text, last, ends>> /\ job'[k] = job[k]
             /\ charge'[k] = charge[k] /\ turn'[k] = turn[k]
  BY <1>4 DEF Work, StartAttempt, Report, Raise, Resolve, ResolveUnheard, Settle,
              MarkRetrying, MarkFailed, MarkRaises
<1>5. ASSUME NEW j \in Turns, Follow(j)
      PROVE  UNCHANGED <<job, turn, charge>> /\ text'[k] = text[k]
             /\ last'[k] = last[k] /\ ends'[k] = ends[k]
  BY <1>5 DEF Follow, Relay, Heartbeat, StopDraining, TellError, Localize, PersistText,
              SendResults, Announce, Die, Tell, Send, Relaying
<1>6. CASE Crash
  BY <1>6 DEF Crash
<1>7. QED
  BY <1>2, <1>3, <1>4, <1>5, <1>6 DEF Next, Quiet

\* The final event is the last thing that happens to a turn.
THEOREM PipelineFinalWord == Spec => FinalWord
<1>1. IInv /\ [Next]_vars =>
        [\A k \in Turns : ends[k] = 1 =>
          /\ job'[k] = job[k] /\ turn'[k] = turn[k]
          /\ charge'[k] = charge[k] /\ text'[k] = text[k]
          /\ last'[k] = last[k] /\ ends'[k] = ends[k]]_vars
  BY EndedIsStill
<1>2. QED
  BY <1>1, PipelineInv, PTL DEF Spec, FinalWord

\* A step of the pipeline is a step of the abstract settlement, or leaves it alone.
LEMMA StepSettles ==
    ASSUME PipelineConstants, IInv, [Next]_vars
    PROVE  [Promise!Next]_(Promise!settlement)
<1> DEFINE Fate == [k \in Turns |-> IF turn[k] = "resolved" THEN "kept" ELSE charge[k]]
<1> USE DEF IInv, TypeOK, Story, Requested, Worked, Settled, Followed, Told, Outcome,
            database, working, stream
<1>1. ASSUME NEW k \in Turns, Accept(k)
      PROVE  Promise!Charge(k)
  <2>1. turn[k] = "none" /\ charge[k] = "none" /\ UNCHANGED <<turn, told>>
    BY <1>1 DEF Accept
  <2>2. \A j \in Turns : charge'[j] = IF j = k THEN "charged" ELSE charge[j]
    BY <1>1 DEF Accept
  <2>3. \A j \in Turns : Fate'[j] = IF j = k THEN "charged" ELSE Fate[j]
    BY <2>1, <2>2
  <2>4. Fate' = [Fate EXCEPT ![k] = "charged"]
    BY <2>3, ZenonT(30)
  <2>5. QED
    BY <2>1, <2>4 DEF Promise!Charge
<1>2. ASSUME NEW k \in Turns, NEW o \in Outcome, Resolve(k, o) \/ ResolveUnheard(k, o)
      PROVE  Promise!Settle(k)
  <2>1. turn[k] = "none" /\ charge[k] = "charged" /\ told[k] = "none"
    BY <1>2 DEF Resolve, ResolveUnheard
  <2>2. PICK f \in {"kept", "refunded"} :
          \A j \in Turns : Fate'[j] = IF j = k THEN f ELSE Fate[j]
    <3> DEFINE f == IF o = "resolved" THEN "kept" ELSE "refunded"
    <3>1. \A j \in Turns :
            /\ turn'[j] = IF j = k THEN o ELSE turn[j]
            /\ j # k => charge'[j] = charge[j]
            /\ o = "failed" => charge'[k] = "refunded"
      BY <1>2 DEF Resolve, ResolveUnheard, Settle
    <3>2. \A j \in Turns : Fate'[j] = IF j = k THEN f ELSE Fate[j]
      BY <3>1
    <3>3. QED
      BY <3>2
  <2>3. Fate[k] = "charged" /\ UNCHANGED told
    BY <1>2, <2>1 DEF Resolve, ResolveUnheard, Settle
  <2>4. Fate' = [Fate EXCEPT ![k] = f]
    BY <2>2, ZenonT(30)
  <2>5. QED
    BY <2>1, <2>3, <2>4 DEF Promise!Settle
<1>3. ASSUME NEW k \in Turns, TellError(k) \/ Announce(k)
      PROVE  Promise!Tell(k)
  <2>1. told[k] = "none" /\ UNCHANGED Fate
    BY <1>3 DEF TellError, Announce, Tell
  <2>2. CASE TellError(k)
    <3>1. Fate[k] \in {"kept", "refunded", "charged"}
      BY <2>2 DEF TellError
    <3>2. "error" \in Promise!Truthful(Fate[k])
      BY <3>1 DEF Promise!Truthful
    <3>3. told' = [told EXCEPT ![k] = "error"]
      BY <2>2 DEF TellError, Tell
    <3>4. QED
      BY <2>1, <3>2, <3>3 DEF Promise!Tell
  <2>3. CASE Announce(k)
    <3>1. PICK answer \in {"resolved", "refunded"} :
            /\ told' = [told EXCEPT ![k] = answer]
            /\ Fate[k] = IF answer = "resolved" THEN "kept" ELSE "refunded"
      BY <2>3, ZenonT(30) DEF Announce, Tell
    <3>2. answer \in Promise!Truthful(Fate[k])
      BY <3>1 DEF Promise!Truthful
    <3>3. QED
      BY <2>1, <3>1, <3>2 DEF Promise!Tell
  <2>4. QED
    BY <1>3, <2>2, <2>3
<1>4. ASSUME NEW k \in Turns,
             Reject(k) \/ Launch(k) \/ FailToLaunch(k) \/ StartAttempt(k) \/ Report(k)
               \/ Raise(k) \/ MarkRetrying(k) \/ MarkFailed(k) \/ MarkRaises(k)
               \/ Relay(k) \/ Heartbeat(k) \/ StopDraining(k) \/ Localize(k)
               \/ PersistText(k) \/ SendResults(k) \/ Die(k)
      PROVE  UNCHANGED <<turn, charge, told>>
  BY <1>4 DEF Reject, Launch, FailToLaunch, StartAttempt, Report, Raise, MarkRetrying,
              MarkFailed, MarkRaises, Relay, Heartbeat, StopDraining, Localize,
              PersistText, SendResults, Die
<1>5. ASSUME Crash \/ UNCHANGED vars
      PROVE  UNCHANGED <<turn, charge, told>>
  BY <1>5 DEF Crash, vars
<1>6. ASSUME UNCHANGED <<turn, charge, told>>
      PROVE  UNCHANGED Promise!settlement
  BY <1>6 DEF Promise!settlement
<1>7. QED
  BY <1>1, <1>2, <1>3, <1>4, <1>5, <1>6
  DEF Next, Quiet, Request, Work, Follow, Promise!Next

\* The pipeline implements the abstract settlement: the charge of a turn is settled
\* at most once, before the player is answered, and the answer never contradicts it.
THEOREM PipelineSettlement == Spec => Settlement
<1>1. Init => Promise!Init
  BY DEF Init, Promise!Init
<1>2. IInv /\ [Next]_vars => [Promise!Next]_(Promise!settlement)
  BY PipelineConstants, StepSettles
<1>3. QED
  BY <1>1, <1>2, PipelineInv, PTL DEF Spec, Settlement, Promise!Spec
-------------------------------------------------------------------------------
(* ReleaseGate *)

\* What a check has left behind is a result of the files it read, and a passed one came in time.
RowsInv ==
    \A c \in Checklists :
        /\ Len(rows[c]) <= Len(Checks)
        /\ \A i \in DOMAIN rows[c] :
              Passed(rows[c][i]) => rows[c][i].status = "completed" /\ ~rows[c][i].late

\* A report is written at the end, and what is committed has ended.
StageInv ==
    \A c \in Checklists :
        /\ stage[c] = "run" => ~Done(c) /\ tried[c] \in Files \X Files
        /\ stage[c] \in {"new", "check", "run"} => report[c] = NoReport
        /\ c \in committed => stage[c] = "done"
        /\ report[c].verdict = "passed" =>
              Done(c) /\ \A i \in DOMAIN rows[c] : Passed(rows[c][i])

\* Until a file changes, all checks of a checklist read the files of today.
OnePairInv ==
    \A c \in Checklists \ touched :
        /\ stage[c] = "new" => rows[c] = << >>
        /\ stage[c] = "run" => tried[c] = Pair
        /\ \A i \in DOMAIN rows[c] : rows[c][i].status = "completed" => rows[c][i].pair = Pair

ProgressInv ==
    /\ progress.status = "running" /\ ~jammed => \E c \in Threads : stage[c] \in {"check", "run"}
    /\ progress.status = "completed" =>
         \A c \in progress.report : c \in committed \cup lost \/ stage[c] = "commit"

\* The operator promotes by a report that is committed and ready.
SeenInv == \A c \in seen : c \in committed /\ PromoteReady(c)

GateInv == GateTypeOK /\ RowsInv /\ StageInv /\ OnePairInv /\ ProgressInv /\ SeenInv

USE GateConstants DEF Checklists

LEMMA VerdictsType ==
    ASSUME NEW check \in Kinds, NEW pair \in Files \X Files, NEW v \in Verdicts[check][pair]
    PROVE  v \in BOOLEAN \X BOOLEAN
<1>1. \A cases, file : Gate(check, cases, file) \subseteq BOOLEAN
    BY DEF Gate
<1>2. PICK cases \in Cases(check) : v \in Gate(check, cases, pair[1]) \X Gate(check, cases, pair[2])
  <2>1. Verdicts[check][pair] =
           UNION {{u \in Gate(check, cases, pair[1]) \X Gate(check, cases, pair[2]) :
                     pair[1] = pair[2] => u[1] = u[2]} : cases \in Cases(check)}
      BY DEF Verdicts
  <2>. QED
      BY <2>1
<1>. QED
    BY <1>1, <1>2

\* The row a check leaves behind.
Left(c, row) ==
    /\ row \in Rows
    /\ stage[c] \in {"check", "run"}
    /\ ~Done(c)
    /\ Refer(c, row)
    /\ spent' \in [Checklists -> BOOLEAN]
    /\ Passed(row) => row.status = "completed" /\ ~row.late
    /\ row.status = "completed" => stage[c] = "run" /\ row.pair = tried[c]

LEMMA Leaves ==
    ASSUME GateTypeOK, RowsInv, StageInv, NEW c \in Checklists,
           SkipCheck(c) \/ FailRun(c) \/ Alarm(c) \/ EndRun(c)
    PROVE  \E row : Left(c, row)
<1>1. \A status \in {"timeout", "failed"} :
         /\ NoResult(status) \in Rows
         /\ ~Passed(NoResult(status))
         /\ NoResult(status).status # "completed"
    BY DEF NoResult, Rows, Passed
<1>2. spent \in [Checklists -> BOOLEAN]
    BY DEF GateTypeOK
<1>3. CASE SkipCheck(c)
  <2>1. Left(c, NoResult("timeout"))
      BY <1>1, <1>2, <1>3 DEF SkipCheck, Synthetic, Left
  <2>. QED
      BY <2>1
<1>4. CASE FailRun(c)
  <2>1. Left(c, NoResult("failed"))
      BY <1>1, <1>2, <1>4 DEF FailRun, Synthetic, Left, StageInv
  <2>. QED
      BY <2>1
<1>5. CASE Alarm(c)
  <2>1. Left(c, NoResult("timeout"))
      BY <1>1, <1>2, <1>5 DEF Alarm, Synthetic, Left, StageInv
  <2>. QED
      BY <2>1
<1>6. CASE EndRun(c)
  <2>1. stage[c] = "run" /\ ~Done(c) /\ tried[c] \in Files \X Files /\ spent' = spent
      BY <1>6 DEF EndRun, StageInv
  <2>2. CASE over[c]
    <3>1. Left(c, NoResult("timeout"))
        BY <1>1, <1>2, <1>6, <2>1, <2>2 DEF EndRun, Left
    <3>. QED
        BY <3>1
  <2>3. CASE ~over[c]
    <3>1. PICK v \in Verdicts[Present(c)][tried[c]] : Refer(c, Result(tried[c], v, over[c]))
        BY <1>6, <2>3 DEF EndRun
    <3>2. Present(c) \in Kinds
      <4>1. rows[c] \in Seq(Rows) /\ Len(rows[c]) \in Nat
          BY DEF GateTypeOK
      <4>2. Len(rows[c]) <= Len(Checks) /\ Len(rows[c]) # Len(Checks)
          BY <2>1 DEF RowsInv, Done
      <4>. QED
          BY <4>1, <4>2 DEF Present
    <3>3. v \in BOOLEAN \X BOOLEAN
        BY <2>1, <3>1, <3>2, VerdictsType
    <3>. DEFINE row == Result(tried[c], v, over[c])
    <3>4. row \in Rows /\ row.status = "completed" /\ ~row.late /\ row.pair = tried[c]
      <4>1. over[c] = FALSE
          BY <2>3 DEF GateTypeOK
      <4>2. row = [status |-> "completed", pair |-> tried[c], passed |-> v, late |-> FALSE]
          BY <4>1 DEF Result
      <4>3. row \in [status : {"completed"}, pair : Files \X Files, passed : BOOLEAN \X BOOLEAN, late : BOOLEAN]
          BY <2>1, <3>3, <4>2
      <4>. QED
          BY <4>2, <4>3 DEF Rows
    <3>5. Left(c, row)
        BY <1>2, <2>1, <3>1, <3>4 DEF Left
    <3>. QED
        BY <3>5
  <2>. QED
      BY <2>2, <2>3
<1>. QED
    BY <1>3, <1>4, <1>5, <1>6

\* Only the rows of c change, and they get one more.
LEMMA OneMore ==
    ASSUME GateTypeOK, RowsInv, NEW c \in Checklists, NEW row, Left(c, row)
    PROVE  /\ rows' \in [Checklists -> Seq(Rows)]
           /\ \A d \in Checklists \ {c} : rows'[d] = rows[d]
           /\ Len(rows'[c]) <= Len(Checks)
           /\ \A i \in DOMAIN rows'[c] :
                 (i \in DOMAIN rows[c] /\ rows'[c][i] = rows[c][i]) \/ rows'[c][i] = row
<1>1. rows \in [Checklists -> Seq(Rows)] /\ row \in Rows /\ rows[c] \in Seq(Rows) /\ Len(rows[c]) \in Nat
    BY DEF GateTypeOK, Left
<1>2. rows' = [rows EXCEPT ![c] = Append(rows[c], row)]
    BY DEF Left, Refer
<1>3. /\ Append(rows[c], row) \in Seq(Rows)
      /\ Len(Append(rows[c], row)) = Len(rows[c]) + 1
      /\ \A i \in 1 .. Len(rows[c]) : Append(rows[c], row)[i] = rows[c][i]
      /\ Append(rows[c], row)[Len(rows[c]) + 1] = row
    BY <1>1, AppendProperties
<1>4. Len(rows[c]) <= Len(Checks) /\ Len(rows[c]) # Len(Checks)
    BY DEF RowsInv, Left, Done
<1>5. DOMAIN rows[c] = 1 .. Len(rows[c]) /\ DOMAIN Append(rows[c], row) = 1 .. Len(rows[c]) + 1
    BY <1>1, <1>3, LenProperties
<1>6. rows'[c] = Append(rows[c], row) /\ \A d \in Checklists \ {c} : rows'[d] = rows[d]
    BY <1>1, <1>2
<1>7. Len(Checks) \in Nat
    OBVIOUS
<1>8. \A i \in DOMAIN rows'[c] : i \in 1 .. Len(rows[c]) \/ i = Len(rows[c]) + 1
    BY <1>1, <1>5, <1>6
<1>9. Len(rows'[c]) <= Len(Checks)
    BY <1>1, <1>3, <1>4, <1>6, <1>7
<1>10. rows' \in [Checklists -> Seq(Rows)]
    BY <1>1, <1>2, <1>3
<1>. QED
    BY <1>3, <1>5, <1>6, <1>8, <1>9, <1>10

LEMMA LeftKeeps ==
    ASSUME GateInv, NEW c \in Checklists, NEW row, Left(c, row)
    PROVE  GateInv'
<1>. USE DEF disk, work, db, operator, history
<1>1. /\ rows' \in [Checklists -> Seq(Rows)]
      /\ \A d \in Checklists \ {c} : rows'[d] = rows[d]
      /\ Len(rows'[c]) <= Len(Checks)
      /\ \A i \in DOMAIN rows'[c] :
            (i \in DOMAIN rows[c] /\ rows'[c][i] = rows[c][i]) \/ rows'[c][i] = row
    BY OneMore DEF GateInv
<1>2. /\ stage' = [stage EXCEPT ![c] = "check"] /\ tried' = [tried EXCEPT ![c] = << >>]
      /\ over' = [over EXCEPT ![c] = FALSE]
      /\ progress' = IF c \in Threads THEN [status |-> "running", report |-> {}] ELSE progress
      /\ spent' \in [Checklists -> BOOLEAN]
      /\ UNCHANGED <<disk, runtime, db, operator, history>>
    BY DEF Left, Refer, Goto, Show
<1>3. /\ stage \in [Checklists -> {"new", "check", "run", "commit", "done"}]
      /\ tried \in [Checklists -> (Files \X Files) \cup {<< >>}]
      /\ over \in [Checklists -> BOOLEAN]
    BY DEF GateInv, GateTypeOK
<1>4. /\ \A d \in Checklists \ {c} : stage'[d] = stage[d] /\ tried'[d] = tried[d]
      /\ stage'[c] = "check" /\ stage[c] \in {"check", "run"}
    BY <1>2, <1>3 DEF Left
<1>5. GateTypeOK'
  <2>1. progress' \in [status : {"idle", "running", "completed", "failed"}, report : SUBSET Threads]
      BY <1>2 DEF GateInv, GateTypeOK
  <2>2. /\ stage' \in [Checklists -> {"new", "check", "run", "commit", "done"}]
        /\ tried' \in [Checklists -> (Files \X Files) \cup {<< >>}]
        /\ over' \in [Checklists -> BOOLEAN]
      BY <1>2, <1>3
  <2>. QED
      BY <1>1, <1>2, <2>1, <2>2 DEF GateInv, GateTypeOK, Reports
<1>6. RowsInv'
  <2>1. Passed(row) => row.status = "completed" /\ ~row.late
      BY DEF Left
  <2>. SUFFICES ASSUME NEW d \in Checklists
                PROVE  /\ Len(rows'[d]) <= Len(Checks)
                       /\ \A i \in DOMAIN rows'[d] :
                            Passed(rows'[d][i]) => rows'[d][i].status = "completed" /\ ~rows'[d][i].late
      BY DEF RowsInv, Passed
  <2>2. CASE d = c
      BY <1>1, <2>1, <2>2 DEF GateInv, RowsInv
  <2>3. CASE d # c
      BY <1>1, <2>3 DEF GateInv, RowsInv
  <2>. QED
      BY <2>2, <2>3
<1>7. StageInv'
  <2>1. report[c] = NoReport /\ c \notin committed /\ NoReport.verdict # "passed"
      BY <1>4 DEF GateInv, StageInv, NoReport
  <2>. QED
      BY <1>1, <1>2, <1>4, <2>1 DEF GateInv, StageInv, Done, Passed
<1>8. OnePairInv'
  <2>1. c \notin touched /\ row.status = "completed" => row.pair = Pair
      BY DEF GateInv, OnePairInv, Left
  <2>2. Pair' = Pair /\ touched' = touched
      BY <1>2 DEF Pair
  <2>. QED
      BY <1>1, <1>4, <2>1, <2>2 DEF GateInv, OnePairInv
<1>9. ProgressInv'
  <2>1. CASE c \in Threads
    <3>1. progress' = [status |-> "running", report |-> {}] /\ stage'[c] = "check"
        BY <1>2, <1>4, <2>1
    <3>. QED
        BY <2>1, <3>1 DEF ProgressInv
  <2>2. CASE c \notin Threads
    <3>1. progress.report \subseteq Threads
        BY DEF GateInv, GateTypeOK
    <3>2. \A d \in Threads : stage'[d] = stage[d]
        BY <1>4, <2>2
    <3>. QED
        BY <1>2, <2>2, <3>1, <3>2 DEF GateInv, ProgressInv
  <2>. QED
      BY <2>1, <2>2
<1>10. SeenInv'
  <2>1. c \notin committed
      BY <1>4 DEF GateInv, StageInv
  <2>. SUFFICES ASSUME NEW d \in seen
                PROVE  d \in committed /\ PromoteReady(d)'
      BY <1>2 DEF SeenInv
  <2>2. d \in committed /\ PromoteReady(d) /\ d # c
      BY <2>1 DEF GateInv, SeenInv
  <2>3. d \in Checklists /\ rows'[d] = rows[d]
      BY <1>1, <2>2 DEF GateInv, GateTypeOK, Reports
  <2>. QED
      BY <1>2, <2>2, <2>3 DEF PromoteReady, Passed
<1>. QED
    BY <1>5, <1>6, <1>7, <1>8, <1>9, <1>10 DEF GateInv

\* The transactions of some checklists end.
Ends(ending, lose) ==
    /\ Finish(ending, lose)
    /\ lose \subseteq ending
    /\ \A c \in ending : Active(c)
    /\ UNCHANGED births

\* What is kept of the others.
LEMMA EndsKeep ==
    ASSUME GateInv, NEW ending, NEW lose, ending \subseteq Checklists, Ends(ending, lose)
    PROVE  /\ stage' \in [Checklists -> {"new", "check", "run", "commit", "done"}]
           /\ tried' \in [Checklists -> (Files \X Files) \cup {<< >>}]
           /\ over' \in [Checklists -> BOOLEAN] /\ spent' \in [Checklists -> BOOLEAN]
           /\ rows' \in [Checklists -> Seq(Rows)]
           /\ report' \in [Checklists -> [verdict : {"none", "passed", "blocked"}, born : Nat]]
           /\ \A c \in Checklists \ ending :
                 /\ stage'[c] = stage[c] /\ tried'[c] = tried[c]
                 /\ rows'[c] = rows[c] /\ report'[c] = report[c]
           /\ \A c \in ending \ lose : rows'[c] = rows[c] /\ report'[c] = report[c]
           /\ \A c \in lose : rows'[c] = << >> /\ report'[c] = NoReport
           /\ \A c \in ending : stage'[c] = "done" /\ c \notin committed /\ stage[c] # "new"
<1>1. /\ stage \in [Checklists -> {"new", "check", "run", "commit", "done"}]
      /\ tried \in [Checklists -> (Files \X Files) \cup {<< >>}]
      /\ over \in [Checklists -> BOOLEAN] /\ spent \in [Checklists -> BOOLEAN]
      /\ rows \in [Checklists -> Seq(Rows)] /\ << >> \in Seq(Rows)
      /\ report \in [Checklists -> [verdict : {"none", "passed", "blocked"}, born : Nat]]
    BY DEF GateInv, GateTypeOK
<1>2. NoReport \in [verdict : {"none", "passed", "blocked"}, born : Nat]
    BY DEF NoReport
<1>3. /\ stage' = [c \in Checklists |-> IF c \in ending THEN "done" ELSE stage[c]]
      /\ rows' = [c \in Checklists |-> IF c \in lose THEN << >> ELSE rows[c]]
      /\ report' = [c \in Checklists |-> IF c \in lose THEN NoReport ELSE report[c]]
      /\ tried' = [c \in Checklists |-> IF c \in ending THEN << >> ELSE tried[c]]
      /\ over' = [c \in Checklists |-> over[c] /\ c \notin ending]
      /\ spent' = [c \in Checklists |-> spent[c] /\ c \notin ending]
      /\ lose \subseteq ending
    BY DEF Ends, Finish
<1>4. \A c \in ending : c \notin committed /\ stage[c] # "new"
    BY DEF Ends, Active, GateInv, StageInv
<1>5. stage' \in [Checklists -> {"new", "check", "run", "commit", "done"}]
    BY <1>1, <1>3
<1>6. tried' \in [Checklists -> (Files \X Files) \cup {<< >>}]
    BY <1>1, <1>3
<1>7. over' \in [Checklists -> BOOLEAN] /\ spent' \in [Checklists -> BOOLEAN]
    BY <1>3
<1>8. rows' \in [Checklists -> Seq(Rows)]
    BY <1>1, <1>3
<1>9. report' \in [Checklists -> [verdict : {"none", "passed", "blocked"}, born : Nat]]
    BY <1>1, <1>2, <1>3
<1>. QED
    BY <1>3, <1>4, <1>5, <1>6, <1>7, <1>8, <1>9

\* What the end of some transactions leaves of the invariant; the progress is another matter.
LEMMA EndsInv ==
    ASSUME GateInv, NEW ending, NEW lose, ending \subseteq Checklists, Ends(ending, lose),
           committed' \in {committed, committed \cup (ending \ lose)},
           \/ UNCHANGED <<disk, seen, touched>>
           \/ touched' = touched \cup {c \in Checklists : stage[c] # "new"} /\ seen' = {}
    PROVE  RowsInv' /\ StageInv' /\ OnePairInv' /\ SeenInv'
<1>. USE DEF disk
<1>1. /\ \A c \in Checklists \ ending :
            /\ stage'[c] = stage[c] /\ tried'[c] = tried[c]
            /\ rows'[c] = rows[c] /\ report'[c] = report[c]
      /\ \A c \in ending \ lose : rows'[c] = rows[c] /\ report'[c] = report[c]
      /\ \A c \in lose : rows'[c] = << >> /\ report'[c] = NoReport
      /\ \A c \in ending : stage'[c] = "done" /\ c \notin committed /\ stage[c] # "new"
    BY EndsKeep
<1>2. lose \subseteq ending
    BY DEF Ends
<1>3. Len(<< >>) = 0 /\ DOMAIN << >> = {} /\ NoReport.verdict # "passed" /\ Len(Checks) \in Nat
    BY DEF NoReport
<1>4. RowsInv'
  <2>. SUFFICES ASSUME NEW c \in Checklists
                PROVE  /\ Len(rows'[c]) <= Len(Checks)
                       /\ \A i \in DOMAIN rows'[c] :
                            Passed(rows'[c][i]) => rows'[c][i].status = "completed" /\ ~rows'[c][i].late
      BY DEF RowsInv, Passed
  <2>1. CASE c \in lose
    <3>1. rows'[c] = << >> /\ report'[c] = NoReport /\ stage'[c] = "done"
        BY <1>1, <1>2, <2>1
    <3>2. Len(rows'[c]) = 0 /\ DOMAIN rows'[c] = {}
        BY <3>1
    <3>. QED
        BY <1>3, <3>1, <3>2
  <2>2. CASE c \notin lose
    <3>1. rows'[c] = rows[c]
        BY <1>1, <1>2, <2>2
    <3>. QED
        BY <3>1 DEF GateInv, RowsInv
  <2>. QED
      BY <2>1, <2>2
<1>5. StageInv'
  <2>. SUFFICES ASSUME NEW c \in Checklists
                PROVE  /\ stage'[c] = "run" => ~(Len(rows'[c]) = Len(Checks)) /\ tried'[c] \in Files \X Files
                       /\ stage'[c] \in {"new", "check", "run"} => report'[c] = NoReport
                       /\ c \in committed' => stage'[c] = "done"
                       /\ report'[c].verdict = "passed" =>
                            Len(rows'[c]) = Len(Checks) /\ \A i \in DOMAIN rows'[c] : Passed(rows'[c][i])
      BY DEF StageInv, Passed, Done
  <2>1. CASE c \in lose
    <3>1. rows'[c] = << >> /\ report'[c] = NoReport /\ stage'[c] = "done"
        BY <1>1, <1>2, <2>1
    <3>2. Len(rows'[c]) = 0 /\ DOMAIN rows'[c] = {}
        BY <3>1
    <3>. QED
        BY <1>3, <3>1, <3>2
  <2>2. CASE c \in ending \ lose
      BY <1>1, <2>2 DEF GateInv, StageInv, Done
  <2>3. CASE c \notin ending
      BY <1>1, <2>3 DEF GateInv, StageInv, Done
  <2>. QED
      BY <2>1, <2>2, <2>3
<1>6. OnePairInv'
  <2>. SUFFICES ASSUME NEW c \in Checklists, c \notin touched'
                PROVE  /\ stage'[c] = "new" => rows'[c] = << >>
                       /\ stage'[c] = "run" => tried'[c] = Pair'
                       /\ \A i \in DOMAIN rows'[c] : rows'[c][i].status = "completed" => rows'[c][i].pair = Pair'
      BY DEF OnePairInv
  <2>1. CASE stage[c] = "new"
    <3>1. c \notin ending /\ c \notin touched
        BY <1>1, <2>1
    <3>2. rows'[c] = << >> /\ stage'[c] = "new"
        BY <1>1, <2>1, <3>1 DEF GateInv, OnePairInv
    <3>. QED
        BY <1>3, <3>2
  <2>2. CASE stage[c] # "new"
    <3>1. c \notin touched /\ Pair' = Pair
        BY <2>2 DEF Pair
    <3>2. CASE c \in lose
      <4>1. rows'[c] = << >> /\ stage'[c] = "done"
          BY <1>1, <1>2, <3>2
      <4>2. DOMAIN rows'[c] = {}
          BY <4>1
      <4>. QED
          BY <4>1, <4>2
    <3>3. CASE c \in ending \ lose
        BY <1>1, <3>1, <3>3 DEF GateInv, OnePairInv
    <3>4. CASE c \notin ending
        BY <1>1, <3>1, <3>4 DEF GateInv, OnePairInv
    <3>. QED
        BY <3>2, <3>3, <3>4
  <2>. QED
      BY <2>1, <2>2
<1>7. SeenInv'
  <2>1. CASE seen' = {}
      BY <2>1 DEF SeenInv
  <2>2. CASE seen' = seen
    <3>1. \A c \in seen : c \in Checklists /\ c \in committed /\ c \in committed'
        BY DEF GateInv, SeenInv, GateTypeOK, Reports
    <3>2. \A c \in seen : rows'[c] = rows[c] /\ report'[c] = report[c]
        BY <1>1, <3>1
    <3>. QED
        BY <2>2, <3>1, <3>2 DEF GateInv, SeenInv, PromoteReady, Passed
  <2>. QED
      BY <2>1, <2>2
<1>. QED
    BY <1>4, <1>5, <1>6, <1>7

LEMMA GateInitInv == GateInit => GateInv
<1>. SUFFICES ASSUME GateInit
              PROVE  GateInv
    OBVIOUS
<1>1. << >> \in Seq(Rows) /\ Len(<< >>) = 0 /\ DOMAIN << >> = {} /\ NoReport.verdict = "none"
      /\ Len(Checks) \in Nat
    BY DEF NoReport
<1>2. NoReport \in [verdict : {"none", "passed", "blocked"}, born : Nat]
      /\ Idle \in [status : {"idle", "running", "completed", "failed"}, report : SUBSET Threads]
    BY DEF NoReport, Idle
<1>3. GateTypeOK
  <2>1. /\ stage \in [Checklists -> {"new", "check", "run", "commit", "done"}]
        /\ tried \in [Checklists -> (Files \X Files) \cup {<< >>}]
        /\ over \in [Checklists -> BOOLEAN] /\ spent \in [Checklists -> BOOLEAN]
      BY DEF GateInit
  <2>2. /\ rows \in [Checklists -> Seq(Rows)]
        /\ report \in [Checklists -> [verdict : {"none", "passed", "blocked"}, born : Nat]]
      BY <1>1, <1>2 DEF GateInit
  <2>3. {current, candidate, runtime} \subseteq Files \cup {Broken}
      BY DEF GateInit
  <2>4. births \in Nat /\ edits \in 0 .. MaxEdits
      BY DEF GateInit
  <2>5. /\ committed \subseteq Checklists /\ seen \subseteq Reports
        /\ touched \subseteq Checklists /\ lost \subseteq Checklists /\ jammed \in BOOLEAN
      BY DEF GateInit, Reports
  <2>6. progress \in [status : {"idle", "running", "completed", "failed"}, report : SUBSET Threads]
      BY <1>2 DEF GateInit
  <2>. QED
      BY <2>1, <2>2, <2>3, <2>4, <2>5, <2>6 DEF GateTypeOK
<1>4. RowsInv /\ StageInv
    BY <1>1 DEF GateInit, RowsInv, StageInv
<1>5. OnePairInv /\ SeenInv
    BY <1>1 DEF GateInit, OnePairInv, SeenInv
<1>6. ProgressInv
    BY DEF GateInit, ProgressInv, Idle
<1>. QED
    BY <1>3, <1>4, <1>5, <1>6 DEF GateInv

LEMMA GateInvStep == GateInv /\ [GateNext]_gateVars => GateInv'
<1>. SUFFICES ASSUME GateInv, [GateNext]_gateVars
              PROVE  GateInv'
    OBVIOUS
<1>. USE DEF disk, work, db, operator, history
<1>1. /\ stage \in [Checklists -> {"new", "check", "run", "commit", "done"}]
      /\ tried \in [Checklists -> (Files \X Files) \cup {<< >>}]
      /\ over \in [Checklists -> BOOLEAN]
      /\ rows \in [Checklists -> Seq(Rows)]
      /\ report \in [Checklists -> [verdict : {"none", "passed", "blocked"}, born : Nat]]
      /\ progress \in [status : {"idle", "running", "completed", "failed"}, report : SUBSET Threads]
      /\ births \in Nat /\ committed \subseteq Checklists /\ seen \subseteq committed
      /\ touched \subseteq Checklists /\ lost \subseteq Checklists
    BY DEF GateInv, GateTypeOK, Reports
<1>2. ASSUME NEW c \in Checklists, SkipCheck(c) \/ FailRun(c) \/ Alarm(c) \/ EndRun(c)
      PROVE  GateInv'
    BY <1>2, Leaves, LeftKeeps DEF GateInv
<1>3. ASSUME NEW c \in Checklists, Begin(c)
      PROVE  GateInv'
  <2>1. /\ stage[c] = "new"
        /\ stage' = [stage EXCEPT ![c] = IF Loadable(Pair) THEN "check" ELSE "done"]
        /\ jammed' = (jammed \/ (c \in Threads /\ ~Loadable(Pair)))
        /\ progress' = IF c \in Threads THEN [status |-> "running", report |-> {}] ELSE progress
        /\ UNCHANGED <<disk, runtime, tried, over, spent, rows, db, operator, touched, lost>>
      BY <1>3 DEF Begin, Goto, Show
  <2>2. /\ \A d \in Checklists \ {c} : stage'[d] = stage[d]
        /\ stage'[c] \in {"check", "done"} /\ (Loadable(Pair) => stage'[c] = "check")
      BY <1>1, <2>1
  <2>3. report[c] = NoReport /\ c \notin committed
      BY <2>1 DEF GateInv, StageInv
  <2>4. GateTypeOK'
    <3>1. stage' \in [Checklists -> {"new", "check", "run", "commit", "done"}]
        BY <1>1, <2>1
    <3>2. jammed' \in BOOLEAN
        BY <2>1
    <3>3. progress' \in [status : {"idle", "running", "completed", "failed"}, report : SUBSET Threads]
        BY <1>1, <2>1
    <3>. QED
        BY <2>1, <3>1, <3>2, <3>3 DEF GateInv, GateTypeOK, Reports
  <2>5. RowsInv'
      BY <2>1 DEF GateInv, RowsInv, Passed
  <2>6. StageInv'
      BY <2>1, <2>2, <2>3 DEF GateInv, StageInv, Done, Passed
  <2>7. OnePairInv'
      BY <2>1, <2>2 DEF GateInv, OnePairInv, Pair
  <2>8. ProgressInv'
    <3>1. CASE c \in Threads
      <4>1. progress' = [status |-> "running", report |-> {}]
          BY <2>1, <3>1
      <4>2. progress'.status = "running"
          BY <4>1
      <4>3. ~jammed' => stage'[c] = "check"
          BY <2>1, <2>2, <3>1
      <4>. QED
          BY <3>1, <4>2, <4>3 DEF ProgressInv
    <3>2. CASE c \notin Threads
      <4>1. progress' = progress /\ jammed' = jammed /\ \A d \in Threads : stage'[d] = stage[d]
          BY <2>1, <2>2, <3>2 DEF GateInv, GateTypeOK
      <4>. QED
          BY <1>1, <2>1, <4>1 DEF GateInv, ProgressInv
    <3>. QED
        BY <3>1, <3>2
  <2>9. SeenInv'
      BY <2>1 DEF GateInv, SeenInv, PromoteReady, Passed
  <2>. QED
      BY <2>4, <2>5, <2>6, <2>7, <2>8, <2>9 DEF GateInv
<1>4. ASSUME NEW c \in Checklists, StartRun(c)
      PROVE  GateInv'
  <2>1. /\ stage[c] = "check" /\ ~Done(c) /\ Loadable(Pair)
        /\ tried' = [tried EXCEPT ![c] = Pair]
        /\ stage' = [stage EXCEPT ![c] = "run"]
        /\ progress' = IF c \in Threads THEN [status |-> "running", report |-> {}] ELSE progress
        /\ UNCHANGED <<disk, runtime, over, spent, rows, db, operator, history>>
      BY <1>4 DEF StartRun, Goto, Show
  <2>2. Pair \in Files \X Files
      BY <2>1 DEF Pair, Loadable, GateInv, GateTypeOK
  <2>3. /\ \A d \in Checklists \ {c} : stage'[d] = stage[d] /\ tried'[d] = tried[d]
        /\ stage'[c] = "run" /\ tried'[c] = Pair
      BY <1>1, <2>1
  <2>4. GateTypeOK'
    <3>1. stage' \in [Checklists -> {"new", "check", "run", "commit", "done"}]
        BY <1>1, <2>1
    <3>2. tried' \in [Checklists -> (Files \X Files) \cup {<< >>}]
        BY <1>1, <2>1, <2>2
    <3>3. progress' \in [status : {"idle", "running", "completed", "failed"}, report : SUBSET Threads]
        BY <1>1, <2>1
    <3>. QED
        BY <2>1, <3>1, <3>2, <3>3 DEF GateInv, GateTypeOK, Reports
  <2>5. RowsInv'
      BY <2>1 DEF GateInv, RowsInv, Passed
  <2>6. StageInv'
      BY <2>1, <2>2, <2>3 DEF GateInv, StageInv, Done, Passed
  <2>7. OnePairInv'
    <3>1. Pair' = Pair
        BY <2>1 DEF Pair
    <3>. QED
        BY <2>1, <2>3, <3>1 DEF GateInv, OnePairInv
  <2>8. ProgressInv'
    <3>1. CASE c \in Threads
      <4>1. progress' = [status |-> "running", report |-> {}]
          BY <2>1, <3>1
      <4>. QED
          BY <2>3, <3>1, <4>1 DEF ProgressInv
    <3>2. CASE c \notin Threads
      <4>1. progress' = progress /\ \A d \in Threads : stage'[d] = stage[d]
          BY <2>1, <2>3, <3>2
      <4>. QED
          BY <1>1, <2>1, <4>1 DEF GateInv, ProgressInv
    <3>. QED
        BY <3>1, <3>2
  <2>9. SeenInv'
      BY <2>1 DEF GateInv, SeenInv, PromoteReady, Passed
  <2>. QED
      BY <2>4, <2>5, <2>6, <2>7, <2>8, <2>9 DEF GateInv
<1>5. ASSUME NEW c \in Checklists, TimeIsUp(c)
      PROVE  GateInv'
  <2>1. over' = [over EXCEPT ![c] = TRUE]
        /\ UNCHANGED <<disk, runtime, stage, tried, spent, rows, db, progress, operator, history>>
      BY <1>5 DEF TimeIsUp
  <2>2. over' \in [Checklists -> BOOLEAN]
      BY <1>1, <2>1
  <2>3. GateTypeOK' /\ RowsInv'
      BY <2>1, <2>2 DEF GateInv, GateTypeOK, Reports, RowsInv, Passed
  <2>4. StageInv' /\ OnePairInv'
      BY <2>1 DEF GateInv, StageInv, Done, Passed, OnePairInv, Pair
  <2>5. ProgressInv' /\ SeenInv'
      BY <2>1 DEF GateInv, ProgressInv, SeenInv, PromoteReady, Passed
  <2>. QED
      BY <2>3, <2>4, <2>5 DEF GateInv
<1>6. ASSUME NEW c \in Checklists, Conclude(c)
      PROVE  GateInv'
  <2>1. /\ stage[c] = "check" /\ Done(c) /\ births' = births + 1
        /\ stage' = [stage EXCEPT ![c] = "commit"]
        /\ progress' = IF c \in Threads THEN [status |-> "completed", report |-> {c}] ELSE progress
        /\ UNCHANGED <<disk, runtime, work, committed, operator, history>>
      BY <1>6 DEF Conclude, Goto, Show
  <2>2. PICK healthy \in Health :
           report' = [report EXCEPT ![c] =
             [verdict |-> IF healthy /\ \A i \in DOMAIN rows[c] : Passed(rows[c][i])
                          THEN "passed" ELSE "blocked",
              born |-> births + 1]]
      BY <1>6 DEF Conclude
  <2>3. /\ \A d \in Checklists \ {c} : stage'[d] = stage[d] /\ report'[d] = report[d]
        /\ stage'[c] = "commit" /\ c \notin committed
        /\ report' \in [Checklists -> [verdict : {"none", "passed", "blocked"}, born : Nat]]
        /\ report'[c].verdict = "passed" => \A i \in DOMAIN rows[c] : Passed(rows[c][i])
    <3>1. c \notin committed
        BY <2>1 DEF GateInv, StageInv
    <3>. QED
        BY <1>1, <2>1, <2>2, <3>1
  <2>4. GateTypeOK'
    <3>1. stage' \in [Checklists -> {"new", "check", "run", "commit", "done"}]
        BY <1>1, <2>1
    <3>2. progress' \in [status : {"idle", "running", "completed", "failed"}, report : SUBSET Threads]
        BY <1>1, <2>1
    <3>. QED
        BY <1>1, <2>1, <2>3, <3>1, <3>2 DEF GateInv, GateTypeOK, Reports
  <2>5. RowsInv'
      BY <2>1 DEF GateInv, RowsInv, Passed
  <2>6. StageInv'
    <3>. SUFFICES ASSUME NEW d \in Checklists
                  PROVE  /\ stage'[d] = "run" => ~Done(d) /\ tried[d] \in Files \X Files
                         /\ stage'[d] \in {"new", "check", "run"} => report'[d] = NoReport
                         /\ d \in committed => stage'[d] = "done"
                         /\ report'[d].verdict = "passed" =>
                              Done(d) /\ \A i \in DOMAIN rows[d] : Passed(rows[d][i])
        BY <2>1 DEF StageInv, Done, Passed
    <3>1. CASE d = c
        BY <2>1, <2>3, <3>1
    <3>2. CASE d # c
        BY <2>3, <3>2 DEF GateInv, StageInv
    <3>. QED
        BY <3>1, <3>2
  <2>7. OnePairInv'
      BY <2>1, <2>3 DEF GateInv, OnePairInv, Pair
  <2>8. ProgressInv'
    <3>1. CASE c \in Threads
      <4>1. progress' = [status |-> "completed", report |-> {c}]
          BY <2>1, <3>1
      <4>. QED
          BY <2>3, <4>1 DEF ProgressInv
    <3>2. CASE c \notin Threads
      <4>1. progress' = progress /\ \A d \in Threads : stage'[d] = stage[d]
          BY <2>1, <2>3, <3>2
      <4>. QED
          BY <1>1, <2>1, <4>1 DEF GateInv, ProgressInv
    <3>. QED
        BY <3>1, <3>2
  <2>9. SeenInv'
    <3>1. \A d \in seen : d # c /\ d \in Checklists
        BY <1>1, <2>3
    <3>. QED
        BY <2>1, <2>3, <3>1 DEF GateInv, SeenInv, PromoteReady, Passed
  <2>. QED
      BY <2>4, <2>5, <2>6, <2>7, <2>8, <2>9 DEF GateInv
<1>7. ASSUME NEW c \in Checklists, Commit(c) \/ Fail(c) \/ LoseCommit(c) \/ EndProcess(c)
      PROVE  GateInv'
  <2>1. PICK lose \in SUBSET {c} : Ends({c}, lose) /\ committed' \in {committed, committed \cup ({c} \ lose)}
    <3>1. CASE Commit(c)
        BY <3>1 DEF Commit, Ends, Active
    <3>2. CASE Fail(c) \/ LoseCommit(c) \/ EndProcess(c)
      <4>1. Finish({c}, {c}) /\ Active(c) /\ UNCHANGED <<births, committed>>
          BY <3>2 DEF Fail, LoseCommit, EndProcess, Active
      <4>. QED
          BY <4>1 DEF Ends
    <3>. QED
        BY <1>7, <3>1, <3>2
  <2>2. UNCHANGED <<disk, runtime, births, seen, edits, touched, jammed>>
      BY <1>7 DEF Commit, Fail, LoseCommit, EndProcess
  <2>3. {c} \subseteq Checklists
      OBVIOUS
  <2>4. RowsInv' /\ StageInv' /\ OnePairInv' /\ SeenInv'
      BY <2>1, <2>2, <2>3, EndsInv
  <2>5. /\ committed \subseteq committed' /\ committed' \subseteq Checklists
        /\ lost \subseteq lost' /\ lost' \subseteq Checklists
        /\ progress' \in {progress, [status |-> "failed", report |-> {}]}
      BY <1>1, <1>7, <2>1 DEF Commit, Fail, LoseCommit, EndProcess, Show
  <2>6. GateTypeOK'
    <3>1. progress' \in [status : {"idle", "running", "completed", "failed"}, report : SUBSET Threads]
        BY <1>1, <2>5
    <3>. QED
        BY <1>1, <2>1, <2>2, <2>3, <2>5, <3>1, EndsKeep DEF GateInv, GateTypeOK, Reports
  <2>7. ProgressInv'
    <3>1. CASE progress' = [status |-> "failed", report |-> {}]
        BY <3>1 DEF ProgressInv
    <3>2. CASE progress' = progress /\ progress.status # "failed"
      <4>1. \A d \in Checklists \ {c} : stage'[d] = stage[d]
          BY <2>1, <2>3, EndsKeep
      <4>2. \/ c \in committed' \cup lost'
            \/ c \notin Threads
          BY <1>7, <3>2, <1>1 DEF Commit, Fail, LoseCommit, EndProcess, Show
      <4>3. c \in Threads => stage[c] = "commit"
        <5>1. ~(Fail(c) /\ c \in Threads)
            BY <3>2 DEF Fail, Show
        <5>2. ~(EndProcess(c) /\ c \in Threads)
            BY DEF EndProcess
        <5>. QED
            BY <1>7, <5>1, <5>2 DEF Commit, LoseCommit
      <4>4. progress.status = "running" /\ ~jammed => \E d \in Threads : stage'[d] \in {"check", "run"}
        <5>. SUFFICES ASSUME progress.status = "running", ~jammed
                      PROVE  \E d \in Threads : stage'[d] \in {"check", "run"}
            OBVIOUS
        <5>1. PICK d \in Threads : stage[d] \in {"check", "run"}
            BY DEF GateInv, ProgressInv
        <5>2. d # c
            BY <4>3, <5>1
        <5>. QED
            BY <4>1, <5>1, <5>2
      <4>5. progress.status = "completed" =>
              \A d \in progress.report : d \in committed' \cup lost' \/ stage'[d] = "commit"
        <5>. SUFFICES ASSUME progress.status = "completed", NEW d \in progress.report
                      PROVE  d \in committed' \cup lost' \/ stage'[d] = "commit"
            OBVIOUS
        <5>1. d \in Threads /\ (d \in committed \cup lost \/ stage[d] = "commit")
            BY <1>1 DEF GateInv, ProgressInv
        <5>. QED
            BY <2>5, <4>1, <4>2, <5>1
      <4>. QED
          BY <2>2, <3>2, <4>4, <4>5 DEF ProgressInv
    <3>3. CASE progress' = progress /\ progress.status = "failed"
        BY <3>3 DEF ProgressInv
    <3>. QED
        BY <2>5, <3>1, <3>2, <3>3
  <2>. QED
      BY <2>4, <2>6, <2>7 DEF GateInv
<1>8. CASE Edit
  <2>1. PICK f \in Files \cup {Broken} : candidate' = f
      BY <1>8 DEF Edit
  <2>2. /\ edits < MaxEdits /\ edits' = edits + 1
        /\ touched' = touched \cup {c \in Checklists : stage[c] # "new"}
        /\ UNCHANGED <<current, runtime, stage, work, db, progress, seen, jammed, lost>>
      BY <1>8 DEF Edit, Touch
  <2>3. GateTypeOK'
    <3>1. edits' \in 0 .. MaxEdits
        BY <2>2 DEF GateInv, GateTypeOK
    <3>. QED
        BY <2>1, <2>2, <3>1 DEF GateInv, GateTypeOK, Reports
  <2>4. RowsInv' /\ StageInv'
      BY <2>2 DEF GateInv, StageInv, Done, Passed, RowsInv
  <2>5. OnePairInv'
    <3>1. \A c \in Checklists \ touched' : stage[c] = "new" /\ rows[c] = << >>
        BY <2>2 DEF GateInv, OnePairInv
    <3>2. DOMAIN << >> = {}
        OBVIOUS
    <3>. QED
        BY <2>2, <3>1, <3>2 DEF OnePairInv
  <2>6. ProgressInv' /\ SeenInv'
      BY <2>2 DEF GateInv, ProgressInv, SeenInv, PromoteReady, Passed
  <2>. QED
      BY <2>3, <2>4, <2>5, <2>6 DEF GateInv
<1>9. CASE Look
  <2>1. PICK c \in Latest : Shown(c).ready /\ seen' = {c}
      BY <1>9 DEF Look
  <2>2. UNCHANGED <<disk, runtime, stage, work, db, progress, edits, history>>
      BY <1>9 DEF Look
  <2>3. c \in committed /\ PromoteReady(c)
      BY <2>1 DEF Latest, Reports, Shown
  <2>4. GateTypeOK' /\ RowsInv'
      BY <2>1, <2>2, <2>3 DEF GateInv, GateTypeOK, Reports, RowsInv, Passed
  <2>5. StageInv' /\ OnePairInv'
      BY <2>2 DEF GateInv, StageInv, Done, Passed, OnePairInv, Pair
  <2>6. ProgressInv'
      BY <2>2 DEF GateInv, ProgressInv
  <2>7. SeenInv'
      BY <2>1, <2>2, <2>3 DEF SeenInv, PromoteReady, Passed
  <2>. QED
      BY <2>4, <2>5, <2>6, <2>7 DEF GateInv
<1>10. ASSUME NEW file \in {current, candidate}, StartServer(file),
              UNCHANGED <<candidate, births, committed, edits, lost>>,
              \/ UNCHANGED <<current, seen, touched>>
              \/ touched' = touched \cup {c \in Checklists : stage[c] # "new"} /\ seen' = {} /\ current' = candidate
       PROVE  GateInv'
  <2>. DEFINE stopped == {c \in Threads : Active(c)}
  <2>1. Ends(stopped, stopped) /\ stopped \subseteq Checklists
      BY <1>10 DEF StartServer, Ends
  <2>2. RowsInv' /\ StageInv' /\ OnePairInv' /\ SeenInv'
      BY <1>10, <2>1, EndsInv
  <2>3. runtime' = file /\ progress' = Idle /\ jammed' = FALSE
      BY <1>10 DEF StartServer
  <2>4. Idle \in [status : {"idle", "running", "completed", "failed"}, report : SUBSET Threads]
        /\ Idle.status = "idle"
      BY DEF Idle
  <2>5. GateTypeOK'
    <3>1. /\ stage' \in [Checklists -> {"new", "check", "run", "commit", "done"}]
          /\ tried' \in [Checklists -> (Files \X Files) \cup {<< >>}]
          /\ over' \in [Checklists -> BOOLEAN] /\ spent' \in [Checklists -> BOOLEAN]
          /\ rows' \in [Checklists -> Seq(Rows)]
          /\ report' \in [Checklists -> [verdict : {"none", "passed", "blocked"}, born : Nat]]
        BY <2>1, EndsKeep
    <3>2. /\ {current', candidate', runtime'} \subseteq Files \cup {Broken}
          /\ births' \in Nat /\ edits' \in 0 .. MaxEdits
        BY <1>10, <2>3 DEF GateInv, GateTypeOK
    <3>3. /\ committed' \subseteq Checklists /\ seen' \subseteq Reports'
          /\ touched' \subseteq Checklists /\ lost' \subseteq Checklists
        BY <1>1, <1>10 DEF Reports
    <3>4. /\ jammed' \in BOOLEAN
          /\ progress' \in [status : {"idle", "running", "completed", "failed"}, report : SUBSET Threads]
        BY <2>3, <2>4
    <3>. QED
        BY <3>1, <3>2, <3>3, <3>4 DEF GateTypeOK
  <2>6. ProgressInv'
      BY <2>3, <2>4 DEF ProgressInv
  <2>. QED
      BY <2>2, <2>5, <2>6 DEF GateInv
<1>11. CASE Promote
    BY <1>10, <1>11 DEF Promote, Touch
<1>12. CASE Restart
    BY <1>10, <1>12 DEF Restart
<1>13. CASE UNCHANGED gateVars
  <2>1. GateTypeOK' /\ RowsInv'
      BY <1>13 DEF gateVars, GateInv, GateTypeOK, Reports, RowsInv, Passed
  <2>2. StageInv' /\ OnePairInv'
      BY <1>13 DEF gateVars, GateInv, StageInv, Done, Passed, OnePairInv, Pair
  <2>3. ProgressInv' /\ SeenInv'
      BY <1>13 DEF gateVars, GateInv, ProgressInv, SeenInv, PromoteReady, Passed
  <2>. QED
      BY <2>1, <2>2, <2>3 DEF GateInv
<1>. QED
    BY <1>2, <1>3, <1>4, <1>5, <1>6, <1>7, <1>8, <1>9, <1>11, <1>12, <1>13 DEF GateNext, Step

\* Type correctness for any files, any checks and any number of checklists.
THEOREM GateTypeCorrect == GateSpec => []GateTypeOK
<1>1. GateInv => GateTypeOK
    BY DEF GateInv
<1>. QED
    BY <1>1, GateInitInv, GateInvStep, PTL DEF GateSpec

\* A verdict of "passed" stands only on runs that came to their ends in time and passed,
\* one for every check: no run that was late, was skipped or could not start counts.
THEOREM GateVerdictEarned == GateSpec => []VerdictEarned
<1>1. ASSUME GateInv
      PROVE  VerdictEarned
  <2>. SUFFICES ASSUME NEW c \in committed, report[c].verdict = "passed"
                PROVE  /\ PromoteReady(c)
                       /\ \A i \in DOMAIN rows[c] : rows[c][i].status = "completed" /\ ~rows[c][i].late
      BY DEF VerdictEarned, Reports
  <2>1. c \in Checklists
      BY <1>1 DEF GateInv, GateTypeOK
  <2>2. Done(c) /\ \A i \in DOMAIN rows[c] : Passed(rows[c][i])
      BY <1>1, <2>1 DEF GateInv, StageInv
  <2>. QED
      BY <1>1, <2>1, <2>2 DEF GateInv, RowsInv, PromoteReady, Done
<1>. QED
    BY <1>1, GateInitInv, GateInvStep, PTL DEF GateSpec

\* The progress does not show a checklist that has gone, nor a report that is nowhere.
THEOREM GateProgressTells == GateSpec => []ProgressTells
<1>1. GateInv => ProgressTells
  <2>1. \A c \in Threads : stage[c] \in {"check", "run"} => Active(c)
      BY DEF Active
  <2>. QED
      BY <2>1 DEF GateInv, ProgressInv, ProgressTells
<1>. QED
    BY <1>1, GateInitInv, GateInvStep, PTL DEF GateSpec

\* What is promoted passed every check, compared with what it replaces.
THEOREM GatePromotedAsJudged == GateSpec => PromotedAsJudged
<1>1. ASSUME GateInv, NEW c \in seen, Promote, c \notin touched
      PROVE  \A i \in DOMAIN rows[c] : rows[c][i].pair = <<current, current'>> /\ Passed(rows[c][i])
  <2>1. c \in Checklists /\ PromoteReady(c)
      BY <1>1 DEF GateInv, GateTypeOK, SeenInv, Reports
  <2>2. <<current, current'>> = Pair
      BY <1>1 DEF Promote, Pair
  <2>3. \A i \in DOMAIN rows[c] : Passed(rows[c][i]) /\ rows[c][i].status = "completed"
      BY <1>1, <2>1 DEF GateInv, RowsInv, PromoteReady
  <2>. QED
      BY <1>1, <2>1, <2>2, <2>3 DEF GateInv, OnePairInv
<1>2. ASSUME GateInv
      PROVE  [\A c \in seen : Promote /\ c \notin touched =>
                \A i \in DOMAIN rows[c] :
                    rows[c][i].pair = <<current, current'>> /\ Passed(rows[c][i])]_gateVars
    BY <1>1, <1>2
<1>. QED
    BY <1>2, GateInitInv, GateInvStep, PTL DEF GateSpec, PromotedAsJudged
----------------------------------------------------------------------------
(* IdleWorld: until another one commits, what a pass or the seed of a newcomer has *)
(* read of an NPC is true, and it changes only NPCs it has read.                   *)

HIDE GateConstants DEF Checklists
USE IdleConstants

\* A pass knows where the NPCs are that it deals with, and lets one of them walk.
PassFits(p) ==
    /\ phase[p] \in {"idle", "due", "picking", "locking", "beats", "walking"}
    /\ phase[p] \in {"idle", "due", "picking"} =>
          /\ cast[p] = << >> /\ profiles[p] = {} /\ walker[p] = {}
          /\ \A n \in Npcs : here[p][n] = Nowhere
    /\ phase[p] \in {"locking", "walking"} => cast[p] # << >>
    /\ \A n \in Cast(p) \cup profiles[p] \cup walker[p] : here[p][n] # Nowhere
    /\ actors[p] \subseteq walker[p]
    /\ IF phase[p] = "walking" THEN walker[p] = {Head(cast[p])} ELSE walker[p] \subseteq actors[p]

\* As long as nobody commits, an NPC is where the pass takes it to be, or one road away.
PassTrue(p) == ~late[p] =>
    \A n \in Npcs : here[p][n] # Nowhere =>
        IF n \in walker[p] THEN <<at[n], here[p][n]>> \in Roads ELSE here[p][n] = at[n]

\* The seed has taken home whatever it has written, up to the NPC it is about.
SeedFits(j) ==
    /\ phase[j] \in {"idle", "seeding", "homing", "settling"}
    /\ phase[j] = "idle" => cast[j] = << >> /\ profiles[j] = {} /\ actors[j] = {}
    /\ phase[j] \in {"homing", "settling"} => cast[j] # << >>
    /\ \A n \in profiles[j] \cup actors[j] :
          here[j][n] = Home[n] \/ (phase[j] \in {"homing", "settling"} /\ n = Head(cast[j]))

\* As long as nobody commits, an NPC whose profile it has written is at home or goes there.
SeedTrue(j) == ~late[j] =>
    /\ \A n \in profiles[j] : n \in actors[j] \/ at[n] = Home[n]
    /\ phase[j] = "settling" => Head(cast[j]) \in actors[j] \/ at[Head(cast[j])] = Home[Head(cast[j])]

Fits(j) == IF j \in Passes THEN PassFits(j) /\ PassTrue(j) ELSE SeedFits(j) /\ SeedTrue(j)

IdleInv == IdleTypeOK /\ \A j \in Jobs : Fits(j)

\* The least of the ids.
LEMMA FirstIsOne ==
    ASSUME NEW S, S \subseteq Npcs, S # {}
    PROVE  First(S) \in S
<1>. DEFINE less == {q \in Nat \X Nat : q[1] < q[2]}
<1>1. IsWellFoundedOn(less, Nat)
    BY NatLessThanWellFounded DEF OpToRel
<1>2. S \subseteq Nat
    OBVIOUS
<1>. HIDE DEF less
<1>3. \E n \in S : \A m \in S : ~(<<m, n>> \in less)
    BY <1>1, <1>2, WFMin
<1>4. ASSUME NEW m \in S, NEW n \in S, ~(<<m, n>> \in less)
      PROVE  n <= m
  <2>1. ~(m < n)
      BY <1>2, <1>4 DEF less
  <2>. QED
      BY <1>2, <2>1
<1>5. \E n \in S : \A m \in S : n <= m
    BY <1>3, <1>4
<1>. QED
    BY <1>5 DEF First

LEMMA CastOf ==
    ASSUME NEW s \in Seq(Npcs), s # << >>
    PROVE  /\ Head(s) \in Npcs /\ Tail(s) \in Seq(Npcs)
           /\ Head(s) \in {s[i] : i \in 1 .. Len(s)}
           /\ {Tail(s)[i] : i \in 1 .. Len(Tail(s))} \subseteq {s[i] : i \in 1 .. Len(s)}
<1>1. /\ Head(s) \in Npcs /\ Tail(s) \in Seq(Npcs) /\ Len(Tail(s)) = Len(s) - 1
      /\ \A i \in 1 .. Len(Tail(s)) : Tail(s)[i] = s[i + 1]
    BY HeadTailProperties
<1>2. Len(s) \in Nat \ {0} /\ Head(s) = s[1]
    BY EmptySeq
<1>3. Head(s) \in {s[i] : i \in 1 .. Len(s)}
    BY <1>2
<1>4. ASSUME NEW i \in 1 .. Len(Tail(s))
      PROVE  Tail(s)[i] \in {s[k] : k \in 1 .. Len(s)}
  <2>1. i + 1 \in 1 .. Len(s)
      BY <1>1, <1>2
  <2>. QED
      BY <1>1, <2>1
<1>. QED
    BY <1>1, <1>3, <1>4

LEMMA IdleInitInv == IdleInit => IdleInv
<1>. SUFFICES ASSUME IdleInit
              PROVE  IdleInv
    OBVIOUS
<1>1. IdleTypeOK
    BY EmptySeq DEF IdleInit, IdleTypeOK, Jobs
<1>2. \A j \in Jobs : Cast(j) = {}
    BY EmptySeq DEF IdleInit, Cast
<1>3. ASSUME NEW j \in Jobs
      PROVE  Fits(j)
    BY <1>2 DEF IdleInit, Fits, PassFits, PassTrue, SeedFits, SeedTrue
<1>. QED
    BY <1>1, <1>3 DEF IdleInv

\* One NPC more is known to be somewhere.
LEMMA HereIs ==
    ASSUME IdleTypeOK, NEW j \in Jobs, NEW n \in Npcs, NEW q \in Places,
           here' = [here EXCEPT ![j][n] = q]
    PROVE  /\ here' \in [Jobs -> [Npcs -> Places \cup {Nowhere}]]
           /\ here'[j][n] = q /\ q # Nowhere
           /\ \A m \in Npcs \ {n} : here'[j][m] = here[j][m]
           /\ \A i \in Jobs \ {j} : here'[i] = here[i]
<1>1. here \in [Jobs -> [Npcs -> Places \cup {Nowhere}]]
    BY DEF IdleTypeOK
<1>2. [here[j] EXCEPT ![n] = q] \in [Npcs -> Places \cup {Nowhere}]
    BY <1>1
<1>3. here' = [here EXCEPT ![j] = [here[j] EXCEPT ![n] = q]]
    OBVIOUS
<1>. QED
    BY <1>1, <1>2, <1>3

\* Steps that are about one job, and commit nothing.
Alone(j) ==
    /\ UNCHANGED at
    /\ \A i \in Jobs \ {j} :
         /\ phase'[i] = phase[i] /\ cast'[i] = cast[i] /\ here'[i] = here[i]
         /\ profiles'[i] = profiles[i] /\ actors'[i] = actors[i] /\ late'[i] = late[i]
         /\ i \in Passes => walker'[i] = walker[i]

LEMMA OthersFit ==
    ASSUME IdleInv, NEW j \in Jobs, Alone(j), NEW i \in Jobs, i # j
    PROVE  Fits(i)'
<1>1. /\ at' = at /\ phase'[i] = phase[i] /\ cast'[i] = cast[i] /\ here'[i] = here[i]
      /\ profiles'[i] = profiles[i] /\ actors'[i] = actors[i] /\ late'[i] = late[i]
      /\ i \in Passes => walker'[i] = walker[i]
    BY DEF Alone
<1>2. Fits(i)
    BY DEF IdleInv
<1>3. Cast(i)' = Cast(i)
    BY <1>1 DEF Cast
<1>4. CASE i \in Passes
    BY <1>1, <1>2, <1>3, <1>4 DEF Fits, PassFits, PassTrue
<1>5. CASE i \notin Passes
    BY <1>1, <1>2, <1>5 DEF Fits, SeedFits, SeedTrue
<1>. QED
    BY <1>4, <1>5

\* The steps of a job before its end.
Works(j) ==
    \/ (j = Scheduler /\ FindDue) \/ Trigger(j) \/ (j \in Passes /\ LookAbout(j)) \/ Pick(j) \/ Lock(j)
    \/ Stay(j) \/ Walk(j) \/ WriteWalk(j)
    \/ Meet(j) \/ ReadNpc(j) \/ TakeHome(j) \/ SettleProfile(j)

LEMMA WorksAlone ==
    ASSUME IdleTypeOK, NEW j \in Jobs, Works(j) \/ RollBackJob(j)
    PROVE  Alone(j)
<1>. USE DEF IdleTypeOK, Move, world, txn
<1>1. CASE (j = Scheduler /\ FindDue) \/ Trigger(j) \/ (j \in Passes /\ LookAbout(j)) \/ Lock(j)
    BY <1>1 DEF FindDue, Trigger, LookAbout, Lock, Alone
<1>2. CASE Pick(j)
    BY <1>2 DEF Pick, Alone
<1>3. CASE Stay(j) \/ WriteWalk(j)
    BY <1>3 DEF Stay, WriteWalk, Alone
<1>4. CASE Walk(j)
    BY <1>4 DEF Walk, Alone
<1>5. CASE Meet(j) \/ ReadNpc(j) \/ TakeHome(j)
    BY <1>5 DEF Meet, ReadNpc, TakeHome, Alone
<1>6. CASE SettleProfile(j)
    BY <1>6 DEF SettleProfile, Alone
<1>7. CASE RollBackJob(j)
    BY <1>7 DEF RollBackJob, Forget, Alone
<1>. QED
    BY <1>1, <1>2, <1>3, <1>4, <1>5, <1>6, <1>7 DEF Works

\* Whoever has forgotten its work fits.
LEMMA ForgottenFits ==
    ASSUME IdleInv, NEW j \in Jobs, Forget(j)
    PROVE  Fits(j)'
<1>1. /\ phase'[j] = "idle" /\ cast'[j] = << >> /\ here'[j] = [n \in Npcs |-> Nowhere]
      /\ profiles'[j] = {} /\ actors'[j] = {} /\ (j \in Passes => walker'[j] = {})
    BY DEF Forget, IdleInv, IdleTypeOK
<1>2. Cast(j)' = {}
    BY <1>1, EmptySeq DEF Cast
<1>. QED
    BY <1>1, <1>2 DEF Fits, PassFits, PassTrue, SeedFits, SeedTrue

LEMMA WorksType ==
    ASSUME IdleInv, NEW j \in Jobs, Works(j)
    PROVE  IdleTypeOK'
<1>. USE DEF Move, world, txn
<1>1. /\ IdleTypeOK /\ Home \in [Npcs -> Places] /\ PackOrder \in Seq(Npcs)
      /\ at \in [Npcs -> Places] /\ routine \in [Npcs -> Places] /\ cast \in [Jobs -> Seq(Npcs)]
      /\ here \in [Jobs -> [Npcs -> Places \cup {Nowhere}]]
      /\ profiles \in [Jobs -> SUBSET Npcs] /\ actors \in [Jobs -> SUBSET Npcs]
    BY DEF IdleInv, IdleTypeOK
<1>2. cast[j] # << >> => Head(cast[j]) \in Npcs /\ Tail(cast[j]) \in Seq(Npcs)
    BY <1>1, CastOf
<1>3. CASE (j = Scheduler /\ FindDue) \/ Trigger(j) \/ (j \in Passes /\ LookAbout(j))
    BY <1>1, <1>3 DEF FindDue, Trigger, LookAbout, IdleTypeOK
<1>4. CASE Pick(j)
  <2>1. PICK m \in Npcs, n \in Npcs :
         LET there == {k \in Npcs : at[k] = where[j]}
         IN  /\ Move(j, "picking", IF there = {} THEN "beats" ELSE "locking")
             /\ cast' = [cast EXCEPT ![j] = IF there = {} THEN << >>
                                            ELSE IF m = n THEN <<n>> ELSE <<m, n>>]
             /\ here' = [here EXCEPT ![j] = [k \in Npcs |->
                           IF k \in {m, n} \cap there THEN at[k] ELSE Nowhere]]
      BY <1>4 DEF Pick
  <2>2. UNCHANGED <<world, walker, profiles, actors, late>> /\ where' = [where EXCEPT ![j] = Nowhere]
      BY <1>4 DEF Pick
  <2>3. << >> \in Seq(Npcs) /\ <<n>> \in Seq(Npcs) /\ <<m, n>> \in Seq(Npcs)
      BY EmptySeq
  <2>4. cast' \in [Jobs -> Seq(Npcs)]
      BY <1>1, <2>1, <2>3
  <2>5. here' \in [Jobs -> [Npcs -> Places \cup {Nowhere}]]
      BY <1>1, <2>1
  <2>6. /\ phase' \in [Jobs -> {"idle", "due", "picking", "locking", "beats", "walking",
                               "seeding", "homing", "settling"}]
        /\ where' \in [Passes -> Places \cup {Nowhere}]
      BY <1>1, <2>1, <2>2 DEF IdleTypeOK
  <2>. QED
      BY <1>1, <2>2, <2>4, <2>5, <2>6 DEF IdleTypeOK
<1>5. CASE Lock(j)
  <2>1. Unlocked(j) \subseteq Npcs /\ Unlocked(j) # {}
      BY <1>1, <1>5 DEF Lock, Unlocked, Cast
  <2>2. First(Unlocked(j)) \in Npcs
      BY <2>1, FirstIsOne
  <2>. QED
      BY <1>1, <1>5, <2>2 DEF Lock, IdleTypeOK
<1>6. CASE Stay(j)
    BY <1>1, <1>2, <1>6 DEF Stay, IdleTypeOK
<1>7. CASE Walk(j)
  <2>1. PICK q \in Places : here' = [here EXCEPT ![j][Head(cast[j])] = q]
      BY <1>7 DEF Walk, OpenFrom
  <2>2. j \in Passes /\ Head(cast[j]) \in Npcs
      BY <1>2, <1>7 DEF Walk
  <2>3. here' \in [Jobs -> [Npcs -> Places \cup {Nowhere}]]
      BY <1>1, <2>1, <2>2, HereIs
  <2>4. walker' \in [Passes -> SUBSET Npcs]
      BY <1>1, <1>7, <2>2 DEF Walk, IdleTypeOK
  <2>. QED
      BY <1>1, <1>7, <2>3, <2>4 DEF Walk, IdleTypeOK
<1>8. CASE WriteWalk(j)
  <2>1. cast[j] # << >>
      BY <1>8 DEF WriteWalk, IdleInv, Fits, PassFits
  <2>. QED
      BY <1>1, <1>2, <1>8, <2>1 DEF WriteWalk, IdleTypeOK
<1>9. CASE Meet(j)
    BY <1>1, <1>9 DEF Meet, IdleTypeOK
<1>10. CASE ReadNpc(j)
  <2>1. /\ here' = [here EXCEPT ![j][Head(cast[j])] = routine[Head(cast[j])]]
        /\ Head(cast[j]) \in Npcs /\ routine[Head(cast[j])] \in Places
      BY <1>1, <1>2, <1>10 DEF ReadNpc
  <2>2. here' \in [Jobs -> [Npcs -> Places \cup {Nowhere}]]
      BY <1>1, <2>1, HereIs
  <2>. QED
      BY <1>1, <1>10, <2>2 DEF ReadNpc, IdleTypeOK
<1>11. ASSUME phase[j] \in {"homing", "settling"}
       PROVE  j \in Newcomers /\ cast[j] # << >>
    BY <1>11 DEF IdleInv, Fits, PassFits, SeedFits, Jobs
<1>12. CASE TakeHome(j)
    BY <1>1, <1>2, <1>11, <1>12 DEF TakeHome, IdleTypeOK
<1>13. CASE SettleProfile(j)
  <2>1. /\ phase[j] = "settling" /\ phase' = [phase EXCEPT ![j] = "seeding"]
        /\ profiles' \in {profiles, [profiles EXCEPT ![j] = @ \cup {Head(cast[j])}]}
        /\ here' = [here EXCEPT ![j][Head(cast[j])] = Home[Head(cast[j])]]
        /\ cast' = [cast EXCEPT ![j] = Tail(@)]
        /\ UNCHANGED <<world, where, walker, actors, late>>
      BY <1>13 DEF SettleProfile
  <2>2. Head(cast[j]) \in Npcs /\ Tail(cast[j]) \in Seq(Npcs) /\ Home[Head(cast[j])] \in Places
      BY <1>1, <1>2, <1>11, <2>1
  <2>3. here' \in [Jobs -> [Npcs -> Places \cup {Nowhere}]]
      BY <1>1, <2>1, <2>2, HereIs
  <2>4. cast' \in [Jobs -> Seq(Npcs)]
      BY <1>1, <2>1, <2>2
  <2>5. [profiles EXCEPT ![j] = @ \cup {Head(cast[j])}] \in [Jobs -> SUBSET Npcs]
      BY <1>1, <2>2
  <2>6. profiles' \in [Jobs -> SUBSET Npcs]
      BY <1>1, <2>1, <2>5
  <2>. QED
      BY <1>1, <2>1, <2>3, <2>4, <2>6 DEF IdleTypeOK
<1>. QED
    BY <1>3, <1>4, <1>5, <1>6, <1>7, <1>8, <1>9, <1>10, <1>12, <1>13 DEF Works

LEMMA PassWorks ==
    ASSUME IdleInv, NEW p \in Passes, Works(p)
    PROVE  Fits(p)'
<1>. USE DEF Move, world, txn
<1>. SUFFICES PassFits(p)' /\ PassTrue(p)'
    BY DEF Fits
<1>1. /\ IdleTypeOK /\ p \in Jobs
      /\ phase \in [Jobs -> {"idle", "due", "picking", "locking", "beats", "walking",
                             "seeding", "homing", "settling"}]
      /\ at \in [Npcs -> Places] /\ cast \in [Jobs -> Seq(Npcs)]
      /\ here \in [Jobs -> [Npcs -> Places \cup {Nowhere}]]
      /\ profiles \in [Jobs -> SUBSET Npcs] /\ actors \in [Jobs -> SUBSET Npcs]
      /\ walker \in [Passes -> SUBSET Npcs]
    BY DEF IdleInv, IdleTypeOK, Jobs
<1>2. PassFits(p) /\ PassTrue(p)
    BY <1>1 DEF IdleInv, Fits
<1>3. ASSUME UNCHANGED <<cast, here, profiles, actors, walker, at, late>>, phase'[p] \in {"due", "picking"},
             phase[p] \in {"idle", "due"}
      PROVE  PassFits(p)' /\ PassTrue(p)'
    BY <1>2, <1>3 DEF PassFits, PassTrue, Cast
<1>4. CASE (p = Scheduler /\ FindDue) \/ Trigger(p) \/ LookAbout(p)
    BY <1>1, <1>3, <1>4 DEF FindDue, Trigger, LookAbout
<1>5. CASE Pick(p)
  <2>1. PICK m \in Npcs, n \in Npcs :
         LET there == {k \in Npcs : at[k] = where[p]}
         IN  /\ Move(p, "picking", IF there = {} THEN "beats" ELSE "locking")
             /\ IF there = {} THEN m = n ELSE {m, n} \subseteq there
             /\ cast' = [cast EXCEPT ![p] = IF there = {} THEN << >>
                                            ELSE IF m = n THEN <<n>> ELSE <<m, n>>]
             /\ here' = [here EXCEPT ![p] = [k \in Npcs |->
                           IF k \in {m, n} \cap there THEN at[k] ELSE Nowhere]]
      BY <1>5 DEF Pick
  <2>2. UNCHANGED <<world, walker, profiles, actors, late>>
      BY <1>5 DEF Pick
  <2>. DEFINE there == {k \in Npcs : at[k] = where[p]}
  <2>3. /\ phase[p] = "picking" /\ phase'[p] = IF there = {} THEN "beats" ELSE "locking"
        /\ cast'[p] = IF there = {} THEN << >> ELSE IF m = n THEN <<n>> ELSE <<m, n>>
        /\ \A k \in Npcs : here'[p][k] = IF k \in {m, n} \cap there THEN at[k] ELSE Nowhere
        /\ there # {} => {m, n} \subseteq there
      BY <1>1, <2>1
  <2>. HIDE DEF there
  <2>4. profiles[p] = {} /\ walker[p] = {} /\ actors[p] = {}
      BY <1>2, <2>3 DEF PassFits
  <2>5. {cast'[p][i] : i \in 1 .. Len(cast'[p])} \subseteq {m, n} \cap there
    <3>1. CASE there = {}
        BY <2>3, <3>1, EmptySeq
    <3>2. CASE there # {}
      <4>1. /\ Len(<<n>>) = 1 /\ <<n>>[1] = n
            /\ Len(<<m, n>>) = 2 /\ <<m, n>>[1] = m /\ <<m, n>>[2] = n
          OBVIOUS
      <4>. QED
          BY <2>3, <3>2, <4>1
    <3>. QED
        BY <3>1, <3>2
  <2>6. \A k \in Npcs : at[k] # Nowhere
      BY <1>1
  <2>7. cast'[p] # << >> \/ phase'[p] = "beats"
      BY <2>3
  <2>8. PassFits(p)'
      BY <2>2, <2>3, <2>4, <2>5, <2>6, <2>7 DEF PassFits, Cast
  <2>9. PassTrue(p)'
      BY <2>2, <2>3, <2>4 DEF PassTrue
  <2>. QED
      BY <2>8, <2>9
<1>6. CASE Lock(p)
  <2>. DEFINE n == First(Unlocked(p))
  <2>1. Unlocked(p) \subseteq Npcs /\ Unlocked(p) # {}
      BY <1>1, <1>6 DEF Lock, Unlocked, Cast
  <2>2. n \in Cast(p)
      BY <2>1, FirstIsOne DEF Unlocked
  <2>. HIDE DEF n
  <2>3. /\ phase[p] = "locking" /\ phase'[p] \in {"beats", "locking"}
        /\ profiles'[p] = profiles[p] \cup {n}
        /\ UNCHANGED <<world, cast, here, walker, actors, late>>
      BY <1>1, <1>6 DEF Lock, n
  <2>4. Cast(p)' = Cast(p)
      BY <2>3 DEF Cast
  <2>5. PassFits(p)'
      BY <1>2, <2>2, <2>3, <2>4 DEF PassFits
  <2>6. PassTrue(p)'
      BY <1>2, <2>3 DEF PassTrue
  <2>. QED
      BY <2>5, <2>6
<1>7. ASSUME cast[p] # << >>, cast' = [cast EXCEPT ![p] = Tail(@)]
      PROVE  Cast(p)' \subseteq Cast(p)
  <2>1. cast[p] \in Seq(Npcs) /\ cast'[p] = Tail(cast[p])
      BY <1>1, <1>7
  <2>. QED
      BY <1>7, <2>1, CastOf DEF Cast
<1>8. CASE Stay(p)
  <2>1. /\ phase[p] = "beats" /\ phase'[p] = "beats" /\ cast' = [cast EXCEPT ![p] = Tail(@)]
        /\ cast[p] # << >> /\ UNCHANGED <<world, here, walker, profiles, actors, late>>
      BY <1>1, <1>8 DEF Stay
  <2>2. Cast(p)' \subseteq Cast(p)
      BY <1>7, <2>1
  <2>3. PassFits(p)'
      BY <1>2, <2>1, <2>2 DEF PassFits
  <2>4. PassTrue(p)'
      BY <1>2, <2>1 DEF PassTrue
  <2>. QED
      BY <2>3, <2>4
<1>9. CASE Walk(p)
  <2>. DEFINE n == Head(cast[p])
  <2>1. /\ phase[p] = "beats" /\ phase'[p] = "walking" /\ cast[p] # << >> /\ walker[p] = {}
        /\ walker'[p] = {n} /\ UNCHANGED <<world, cast, profiles, actors, late>>
      BY <1>1, <1>9 DEF Walk, MayWalk
  <2>2. PICK q \in Places : <<here[p][n], q>> \in Roads /\ here' = [here EXCEPT ![p][n] = q]
      BY <1>9 DEF Walk, OpenFrom
  <2>3. n \in Cast(p) /\ n \in Npcs
      BY <1>1, <2>1, CastOf DEF Cast
  <2>. HIDE DEF n
  <2>4. /\ here'[p][n] = q /\ q # Nowhere
        /\ \A m \in Npcs \ {n} : here'[p][m] = here[p][m]
      BY <1>1, <2>2, <2>3, HereIs
  <2>5. Cast(p)' = Cast(p) /\ Cast(p) \cup profiles[p] \subseteq Npcs
      BY <1>1, <2>1 DEF Cast
  <2>6. PassFits(p)'
    <3>1. \A m \in Cast(p) \cup profiles[p] \cup {n} : here'[p][m] # Nowhere
        BY <1>2, <2>3, <2>4, <2>5 DEF PassFits
    <3>2. walker'[p] = {Head(cast'[p])}
        BY <2>1 DEF n
    <3>. QED
        BY <1>2, <2>1, <2>5, <3>1, <3>2 DEF PassFits
  <2>7. PassTrue(p)'
    <3>1. here[p][n] # Nowhere
        BY <1>2, <2>3 DEF PassFits
    <3>2. ~late[p] => here[p][n] = at[n]
        BY <1>2, <2>1, <2>3, <3>1 DEF PassTrue
    <3>. QED
        BY <1>2, <2>1, <2>2, <2>4, <3>2 DEF PassTrue
  <2>. QED
      BY <2>6, <2>7
<1>10. CASE WriteWalk(p)
  <2>. DEFINE n == Head(cast[p])
  <2>1. /\ phase[p] = "walking" /\ phase'[p] = "beats" /\ actors'[p] = actors[p] \cup {n}
        /\ cast' = [cast EXCEPT ![p] = Tail(@)]
        /\ UNCHANGED <<world, here, walker, profiles, late>>
      BY <1>1, <1>10 DEF WriteWalk
  <2>2. cast[p] # << >> /\ walker[p] = {n}
      BY <1>2, <2>1 DEF PassFits
  <2>3. Cast(p)' \subseteq Cast(p)
      BY <1>7, <2>1, <2>2
  <2>. HIDE DEF n
  <2>4. PassFits(p)'
      BY <1>2, <2>1, <2>2, <2>3 DEF PassFits
  <2>5. PassTrue(p)'
      BY <1>2, <2>1 DEF PassTrue
  <2>. QED
      BY <2>4, <2>5
<1>11. CASE Meet(p) \/ ReadNpc(p) \/ TakeHome(p) \/ SettleProfile(p)
    BY <1>2, <1>11 DEF Meet, ReadNpc, TakeHome, SettleProfile, PassFits
<1>. QED
    BY <1>4, <1>5, <1>6, <1>8, <1>9, <1>10, <1>11 DEF Works

LEMMA SeedWorks ==
    ASSUME IdleInv, NEW j \in Newcomers, Works(j)
    PROVE  Fits(j)'
<1>. USE DEF Move, world, txn
<1>1. /\ IdleTypeOK /\ j \in Jobs /\ j \notin Passes
      /\ phase \in [Jobs -> {"idle", "due", "picking", "locking", "beats", "walking",
                             "seeding", "homing", "settling"}]
      /\ cast \in [Jobs -> Seq(Npcs)] /\ routine \in [Npcs -> Places] /\ Home \in [Npcs -> Places]
      /\ here \in [Jobs -> [Npcs -> Places \cup {Nowhere}]]
      /\ profiles \in [Jobs -> SUBSET Npcs] /\ actors \in [Jobs -> SUBSET Npcs]
    BY DEF IdleInv, IdleTypeOK, Jobs
<1>. SUFFICES SeedFits(j)' /\ SeedTrue(j)'
    BY <1>1 DEF Fits
<1>2. SeedFits(j) /\ SeedTrue(j)
    BY <1>1 DEF IdleInv, Fits
<1>3. CASE Meet(j)
  <2>1. /\ phase[j] = "idle" /\ phase'[j] = "seeding"
        /\ UNCHANGED <<world, here, profiles, actors, late>>
      BY <1>1, <1>3 DEF Meet
  <2>. QED
      BY <1>2, <2>1 DEF SeedFits, SeedTrue
<1>4. CASE ReadNpc(j)
  <2>. DEFINE n == Head(cast[j])
  <2>1. /\ cast[j] # << >> /\ phase[j] = "seeding"
        /\ phase'[j] = IF at[n] # Home[n] THEN "homing" ELSE "settling"
        /\ here' = [here EXCEPT ![j][n] = routine[n]]
        /\ UNCHANGED <<world, cast, profiles, actors, late>>
      BY <1>1, <1>4 DEF ReadNpc
  <2>2. n \in Npcs /\ routine[n] \in Places
      BY <1>1, <2>1, CastOf
  <2>3. \A m \in Npcs \ {n} : here'[j][m] = here[j][m]
      BY <1>1, <2>1, <2>2, HereIs
  <2>4. SeedFits(j)'
      BY <1>1, <1>2, <2>1, <2>3 DEF SeedFits
  <2>5. SeedTrue(j)'
      BY <1>2, <2>1 DEF SeedTrue
  <2>. QED
      BY <2>4, <2>5
<1>5. CASE TakeHome(j)
  <2>1. /\ phase[j] = "homing" /\ phase'[j] = "settling" /\ actors'[j] = actors[j] \cup {Head(cast[j])}
        /\ UNCHANGED <<world, cast, here, profiles, late>>
      BY <1>1, <1>5 DEF TakeHome
  <2>. QED
      BY <1>2, <2>1 DEF SeedFits, SeedTrue
<1>6. CASE SettleProfile(j)
  <2>. DEFINE n == Head(cast[j])
  <2>1. /\ phase[j] = "settling" /\ phase'[j] = "seeding"
        /\ profiles'[j] \subseteq profiles[j] \cup {n}
        /\ here' = [here EXCEPT ![j][n] = Home[n]]
        /\ UNCHANGED <<world, actors, late>>
      BY <1>1, <1>6 DEF SettleProfile
  <2>2. n \in Npcs /\ Home[n] \in Places
      BY <1>1, <1>2, <2>1, CastOf DEF SeedFits
  <2>3. here'[j][n] = Home[n] /\ \A m \in Npcs \ {n} : here'[j][m] = here[j][m]
      BY <1>1, <2>1, <2>2, HereIs
  <2>4. SeedFits(j)'
      BY <1>1, <1>2, <2>1, <2>3 DEF SeedFits
  <2>5. SeedTrue(j)'
      BY <1>2, <2>1 DEF SeedTrue
  <2>. QED
      BY <2>4, <2>5
<1>7. CASE Stay(j) \/ Walk(j) \/ WriteWalk(j)
    BY <1>1, <1>7 DEF Stay, Walk, WriteWalk
<1>8. CASE Trigger(j)
    BY <1>1, <1>8 DEF Trigger, Passes
<1>9. CASE Pick(j) \/ Lock(j)
    BY <1>2, <1>9 DEF Pick, Lock, SeedFits
<1>. QED
    BY <1>1, <1>3, <1>4, <1>5, <1>6, <1>7, <1>9, <1>8 DEF Works, Passes

\* Where the NPCs are that a job leaves behind.
LEMMA CommitWrites ==
    ASSUME IdleInv, NEW j \in Jobs, CommitJob(j)
    PROVE  /\ \A n \in actors[j] \cup profiles[j] : here[j][n] \in Places
           /\ j \in Passes => actors[j] = walker[j]
           /\ j \notin Passes => \A n \in actors[j] \cup profiles[j] : here[j][n] = Home[n]
<1>1. /\ here \in [Jobs -> [Npcs -> Places \cup {Nowhere}]] /\ Home \in [Npcs -> Places]
      /\ profiles \in [Jobs -> SUBSET Npcs] /\ actors \in [Jobs -> SUBSET Npcs]
    BY DEF IdleInv, IdleTypeOK
<1>2. phase[j] \in {"beats", "seeding"}
    BY DEF CommitJob, NothingLeft
<1>3. CASE j \in Passes
  <2>1. PassFits(j)
      BY <1>3 DEF IdleInv, Fits
  <2>2. actors[j] = walker[j]
      BY <1>2, <2>1 DEF PassFits
  <2>3. \A n \in actors[j] \cup profiles[j] : here[j][n] # Nowhere
      BY <2>1, <2>2 DEF PassFits
  <2>4. actors[j] \cup profiles[j] \subseteq Npcs
      BY <1>1
  <2>5. \A n \in actors[j] \cup profiles[j] : here[j][n] \in Places
      BY <1>1, <2>3, <2>4
  <2>. QED
      BY <1>3, <2>2, <2>5
<1>4. CASE j \notin Passes
  <2>1. \A n \in actors[j] \cup profiles[j] : here[j][n] = Home[n]
      BY <1>2, <1>4 DEF IdleInv, Fits, SeedFits
  <2>. QED
      BY <1>1, <1>4, <2>1
<1>. QED
    BY <1>3, <1>4

LEMMA ForgetType ==
    ASSUME IdleTypeOK, NEW j \in Jobs, Forget(j),
           at' \in [Npcs -> Places], routine' \in [Npcs -> Places],
           due' \in BOOLEAN, alive' \in BOOLEAN, late' \in [Jobs -> BOOLEAN]
    PROVE  IdleTypeOK'
<1>1. << >> \in Seq(Npcs) /\ [n \in Npcs |-> Nowhere] \in [Npcs -> Places \cup {Nowhere}]
    BY EmptySeq
<1>2. /\ phase' \in [Jobs -> {"idle", "due", "picking", "locking", "beats", "walking",
                             "seeding", "homing", "settling"}]
      /\ cast' \in [Jobs -> Seq(Npcs)]
      /\ profiles' \in [Jobs -> SUBSET Npcs] /\ actors' \in [Jobs -> SUBSET Npcs]
    BY <1>1 DEF Forget, IdleTypeOK
<1>3. here' \in [Jobs -> [Npcs -> Places \cup {Nowhere}]]
    BY <1>1 DEF Forget, IdleTypeOK
<1>4. where' \in [Passes -> Places \cup {Nowhere}] /\ walker' \in [Passes -> SUBSET Npcs]
    BY DEF Forget, IdleTypeOK
<1>. QED
    BY <1>2, <1>3, <1>4 DEF IdleTypeOK

\* A commit makes those late who know where an NPC is.
LEMMA CommitFits ==
    ASSUME IdleInv, NEW j \in Jobs, CommitJob(j), NEW i \in Jobs, i # j
    PROVE  Fits(i)'
<1>1. /\ phase'[i] = phase[i] /\ cast'[i] = cast[i] /\ here'[i] = here[i]
      /\ profiles'[i] = profiles[i] /\ actors'[i] = actors[i]
      /\ i \in Passes => walker'[i] = walker[i]
    BY DEF CommitJob, Forget, IdleInv, IdleTypeOK
<1>2. late'[i] = (late[i] \/ cast[i] # << >> \/ NothingLeft(i))
    BY DEF CommitJob
<1>3. Cast(i)' = Cast(i)
    BY <1>1 DEF Cast
<1>4. Fits(i)
    BY DEF IdleInv
<1>5. CASE i \in Passes
  <2>1. PassFits(i)'
      BY <1>1, <1>3, <1>4, <1>5 DEF Fits, PassFits
  <2>2. PassTrue(i)'
    <3>1. ~late'[i] => phase[i] \in {"idle", "due", "picking"}
        BY <1>2, <1>4, <1>5 DEF Fits, PassFits, NothingLeft
    <3>2. ~late'[i] => \A n \in Npcs : here[i][n] = Nowhere
        BY <1>4, <1>5, <3>1 DEF Fits, PassFits
    <3>. QED
        BY <1>1, <3>2 DEF PassTrue
  <2>. QED
      BY <1>5, <2>1, <2>2 DEF Fits
<1>6. CASE i \notin Passes
  <2>1. SeedFits(i)'
      BY <1>1, <1>4, <1>6 DEF Fits, SeedFits
  <2>2. SeedTrue(i)'
    <3>1. ~late'[i] => phase[i] = "idle"
        BY <1>2, <1>4, <1>6 DEF Fits, SeedFits, NothingLeft
    <3>2. ~late'[i] => profiles[i] = {}
        BY <1>4, <1>6, <3>1 DEF Fits, SeedFits
    <3>. QED
        BY <1>1, <3>1, <3>2 DEF SeedTrue
  <2>. QED
      BY <1>6, <2>1, <2>2 DEF Fits
<1>. QED
    BY <1>5, <1>6

LEMMA IdleInvStep == IdleInv /\ [IdleNext]_idleVars => IdleInv'
<1>. SUFFICES ASSUME IdleInv, [IdleNext]_idleVars
              PROVE  IdleInv'
    OBVIOUS
<1>. USE DEF world, txn
<1>1. IdleTypeOK
    BY DEF IdleInv
<1>2. ASSUME UNCHANGED <<at, routine, phase, txn, late>>, due' \in BOOLEAN, alive' \in BOOLEAN
      PROVE  IdleInv'
  <2>1. IdleTypeOK'
      BY <1>1, <1>2 DEF IdleTypeOK
  <2>2. ASSUME NEW j \in Jobs
        PROVE  Fits(j)'
    <3>1. Cast(j)' = Cast(j)
        BY <1>2 DEF Cast
    <3>2. CASE j \in Passes
        BY <1>2, <3>1, <3>2 DEF IdleInv, Fits, PassFits, PassTrue
    <3>3. CASE j \notin Passes
        BY <1>2, <3>3 DEF IdleInv, Fits, SeedFits, SeedTrue
    <3>. QED
        BY <3>2, <3>3
  <2>. QED
      BY <2>1, <2>2 DEF IdleInv
<1>3. CASE TakeTurn \/ TimePasses \/ RestartScheduler \/ UNCHANGED idleVars
    BY <1>1, <1>2, <1>3 DEF TakeTurn, TimePasses, RestartScheduler, idleVars, IdleTypeOK
<1>4. ASSUME NEW j \in Jobs, Works(j)
      PROVE  IdleInv'
  <2>1. IdleTypeOK'
      BY <1>4, WorksType
  <2>2. Alone(j)
      BY <1>1, <1>4, WorksAlone
  <2>3. Fits(j)'
      BY <1>4, PassWorks, SeedWorks DEF Jobs
  <2>4. \A i \in Jobs : Fits(i)'
      BY <2>2, <2>3, OthersFit
  <2>. QED
      BY <2>1, <2>4 DEF IdleInv
<1>5. ASSUME NEW j \in Jobs, RollBackJob(j)
      PROVE  IdleInv'
  <2>1. Forget(j) /\ UNCHANGED <<at, routine, due>> /\ alive' \in BOOLEAN /\ late' \in [Jobs -> BOOLEAN]
      BY <1>1, <1>5 DEF RollBackJob, IdleTypeOK
  <2>2. IdleTypeOK'
      BY <1>1, <2>1, ForgetType DEF IdleTypeOK
  <2>3. Alone(j) /\ Fits(j)'
      BY <1>1, <1>5, <2>1, WorksAlone, ForgottenFits
  <2>4. \A i \in Jobs : Fits(i)'
      BY <2>3, OthersFit
  <2>. QED
      BY <2>2, <2>4 DEF IdleInv
<1>6. ASSUME NEW j \in Jobs, CommitJob(j)
      PROVE  IdleInv'
  <2>1. at' \in [Npcs -> Places] /\ routine' \in [Npcs -> Places]
      BY <1>1, <1>6, CommitWrites DEF CommitJob, IdleTypeOK
  <2>2. late' \in [Jobs -> BOOLEAN]
    <3>1. \A i \in Jobs : (IF i = j THEN FALSE ELSE late[i] \/ cast[i] # << >> \/ NothingLeft(i)) \in BOOLEAN
        BY <1>1 DEF IdleTypeOK, NothingLeft
    <3>. QED
        BY <1>6, <3>1 DEF CommitJob
  <2>3. Forget(j) /\ due' \in BOOLEAN /\ alive' \in BOOLEAN
      BY <1>1, <1>6 DEF CommitJob, DueAfter, IdleTypeOK
  <2>4. IdleTypeOK'
      BY <1>1, <2>1, <2>2, <2>3, ForgetType
  <2>5. \A i \in Jobs : Fits(i)'
      BY <1>6, <2>3, ForgottenFits, CommitFits
  <2>. QED
      BY <2>4, <2>5 DEF IdleInv
<1>7. Scheduler \in Jobs
    BY DEF Jobs, Passes
<1>. QED
    BY <1>3, <1>4, <1>5, <1>6, <1>7 DEF IdleNext, JobStep, FailJob, EndDeadlock, Works

\* Whoever has nothing left to do and is idle after the step has committed.
LEMMA OnlyCommits ==
    ASSUME IdleInv, [IdleNext]_idleVars, NEW j \in Jobs, Commits(j)
    PROVE  CommitJob(j)
<1>. USE DEF world, txn
<1>1. /\ IdleTypeOK
      /\ phase \in [Jobs -> {"idle", "due", "picking", "locking", "beats", "walking",
                             "seeding", "homing", "settling"}]
    BY DEF IdleInv, IdleTypeOK
<1>2. phase[j] \in {"beats", "seeding"} /\ cast[j] = << >> /\ phase'[j] = "idle"
    BY DEF Commits, NothingLeft
<1>3. ~UNCHANGED phase
    BY <1>2
<1>4. ASSUME NEW i \in Jobs, Works(i)
      PROVE  FALSE
  <2>1. i = j
      BY <1>1, <1>2, <1>4, WorksAlone DEF Alone
  <2>2. ~Walk(j) /\ ~Stay(j) /\ ~ReadNpc(j)
      BY <1>2 DEF Walk, Stay, ReadNpc
  <2>. QED
      BY <1>1, <1>2, <1>4, <2>1, <2>2
         DEF Works, Move, FindDue, Trigger, LookAbout, Pick, Lock, WriteWalk, Meet, TakeHome, SettleProfile
<1>5. ASSUME NEW i \in Jobs, RollBackJob(i)
      PROVE  i = j
    BY <1>1, <1>2, <1>5, WorksAlone DEF Alone
<1>6. ~FailJob(j)
    BY DEF FailJob, Commits
<1>7. ~EndDeadlock
  <2>1. \A k \in Jobs : ~WaitsFor(j, k)
      BY <1>2 DEF WaitsFor
  <2>2. EndDeadlock => \E D \in SUBSET Jobs : j \in D /\ \E k \in D : WaitsFor(j, k)
    <3>1. ASSUME NEW D \in SUBSET Jobs, NEW i \in D, RollBackJob(i),
                 \A l \in D : (\E k \in D : WaitsFor(l, k)) /\ (\E k \in D : WaitsFor(k, l))
          PROVE  j \in D /\ \E k \in D : WaitsFor(j, k)
        BY <1>5, <3>1
    <3>. QED
        BY <3>1 DEF EndDeadlock
  <2>. QED
      BY <2>1, <2>2
<1>8. ASSUME NEW i \in Jobs, CommitJob(i)
      PROVE  CommitJob(j)
  <2>1. phase' = [phase EXCEPT ![i] = "idle"]
      BY <1>8 DEF CommitJob, Forget
  <2>2. i = j
      BY <1>1, <1>2, <2>1
  <2>. QED
      BY <1>8, <2>2
<1>9. ~TakeTurn /\ ~TimePasses /\ ~RestartScheduler /\ ~UNCHANGED idleVars
    BY <1>3 DEF TakeTurn, TimePasses, RestartScheduler, idleVars
<1>10. Scheduler \in Jobs
    BY DEF Jobs, Passes
<1>. QED
    BY <1>4, <1>5, <1>6, <1>7, <1>8, <1>9, <1>10 DEF IdleNext, JobStep, FailJob, Works

\* Type correctness for any NPCs, places, roads, operators and newcomers.
THEOREM IdleTypeCorrect == IdleSpec => []IdleTypeOK
<1>1. IdleInv => IdleTypeOK
    BY DEF IdleInv
<1>. QED
    BY <1>1, IdleInitInv, IdleInvStep, PTL DEF IdleSpec

\* The NPCs a job has taken up are where their profiles say, and have gone one road at most,
\* unless another job has committed since it read where they are.
THEOREM IdleTrueToRoutine == IdleSpec => TrueToRoutine
<1>1. ASSUME IdleInv, [IdleNext]_idleVars, NEW j \in Jobs, Commits(j), ~late[j]
      PROVE  /\ \A n \in profiles[j] : routine'[n] = at'[n]
             /\ j \in Passes => \A n \in Npcs : at'[n] # at[n] => <<at[n], at'[n]>> \in Roads
  <2>1. CommitJob(j)
      BY <1>1, OnlyCommits
  <2>2. /\ \A n \in Npcs : at'[n] = IF n \in actors[j] THEN here[j][n] ELSE at[n]
        /\ \A n \in Npcs : routine'[n] = IF n \in profiles[j] THEN here[j][n] ELSE routine[n]
        /\ profiles[j] \subseteq Npcs
      BY <1>1, <2>1 DEF CommitJob, IdleInv, IdleTypeOK
  <2>3. CASE j \in Passes
    <3>1. PassTrue(j) /\ actors[j] = walker[j] /\ \A n \in actors[j] \cup profiles[j] : here[j][n] # Nowhere
        BY <1>1, <2>1, <2>3, CommitWrites DEF IdleInv, Fits
    <3>. QED
        BY <1>1, <2>2, <3>1 DEF PassTrue
  <2>4. CASE j \notin Passes
    <3>1. SeedTrue(j) /\ \A n \in actors[j] \cup profiles[j] : here[j][n] = Home[n]
        BY <1>1, <2>1, <2>4, CommitWrites DEF IdleInv, Fits
    <3>. QED
        BY <1>1, <2>2, <2>4, <3>1 DEF SeedTrue
  <2>. QED
      BY <2>3, <2>4
<1>2. ASSUME IdleInv, [IdleNext]_idleVars
      PROVE  [\A j \in Jobs : Commits(j) /\ ~late[j] =>
         /\ \A n \in profiles[j] : routine'[n] = at'[n]
         /\ j \in Passes => \A n \in Npcs : at'[n] # at[n] => <<at[n], at'[n]>> \in Roads]_idleVars
    BY <1>1, <1>2
<1>. QED
    BY <1>2, IdleInitInv, IdleInvStep, PTL DEF IdleSpec, TrueToRoutine
=============================================================================
