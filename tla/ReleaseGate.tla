----------------------------- MODULE ReleaseGate -----------------------------
(***************************************************************************)
(* The gate before a release: a checklist evaluates the routes in the file *)
(* current.yaml and those in candidate.yaml on data sets and on turns of   *)
(* the past, and its report is what an operator promotes by, which is to   *)
(* copy the second file over the first and to restart the server.          *)
(* Checklists run in threads of the server, on request, and in the main    *)
(* threads of other processes, from the command line and every night.      *)
(* Only a main thread can be interrupted when a check takes too long.  All *)
(* of a checklist is one transaction; the files are read again for every   *)
(* check and when a report is shown, and the progress the admin page shows *)
(* is one record for all checklists of the server.                         *)
(*                                                                         *)
(* Of a route only the lane of the turn's prompt is told apart, of a case  *)
(* what forces the answers of the models and what is expected of it.       *)
(***************************************************************************)
EXTENDS Naturals, Sequences, FiniteSets

CONSTANTS
    Files,          \* contents of a configuration file
    Lane,           \* the lane each of them gives to session.turn_resolution, if it routes it
    Threads,        \* checklists in threads of the server
    Mains,          \* checklists in main threads of other processes
    Checks,         \* the checks of a checklist, in their order
    MaxEdits,       \* bound: edits of candidate.yaml
    MaxBegun        \* bound: checklists that begin

Checklists == Threads \cup Mains
Lanes == {"main_lane", "pro_lane"}
Unrouted == "unrouted"
Broken == "broken"
Kinds == {"smoke", "failure", "shadow", "pack"}

ASSUME GateConstants ==
    /\ Broken \notin Files
    /\ Lane \in [Files -> Lanes \cup {Unrouted}]
    /\ Threads \cap Mains = {}
    /\ Checks \in Seq(Kinds) /\ Len(Checks) > 0
    /\ MaxEdits \in Nat /\ MaxBegun \in Nat

VARIABLES
    current,    \* config/release/current.yaml
    candidate,  \* config/release/candidate.yaml
    runtime,    \* what the server has loaded, Broken when it did not start
    stage,      \* where each checklist is
    tried,      \* the files as its present run read them, << >> without one
    over,       \* the time of its present check is up
    spent,      \* its budget was used up when it came to a check
    rows,       \* EvalRun rows it refers to, one per check so far
    report,     \* its ReleaseGateReport
    births,     \* reports created so far, for created_at
    committed,  \* checklists whose rows are committed
    progress,   \* _release_progress of the server
    seen,       \* the report by which the operator is about to promote, if any
    edits,
    touched,    \* history: checklists since whose start a file has changed
    jammed,     \* history: a checklist of this server has not found its files
    lost        \* history: checklists whose COMMIT failed

disk == <<current, candidate>>
work == <<tried, over, spent, rows>>
db == <<report, births, committed>>
operator == <<seen, edits>>
history == <<touched, jammed, lost>>
gateVars == <<disk, runtime, stage, work, db, progress, operator, history>>

Idle == [status |-> "idle", report |-> {}]
NoReport == [verdict |-> "none", born |-> 0]
Pair == <<current, candidate>>
Loadable(pair) == Broken \notin {pair[1], pair[2]}

GateInit ==
    /\ current \in Files /\ candidate \in Files
    /\ runtime = current
    /\ stage = [c \in Checklists |-> "new"]
    /\ tried = [c \in Checklists |-> << >>]
    /\ over = [c \in Checklists |-> FALSE]
    /\ spent = [c \in Checklists |-> FALSE]
    /\ rows = [c \in Checklists |-> << >>]
    /\ report = [c \in Checklists |-> NoReport]
    /\ births = 0
    /\ committed = {}
    /\ progress = Idle
    /\ seen = {}
    /\ edits = 0
    /\ touched = {}
    /\ jammed = FALSE
    /\ lost = {}

Active(c) == stage[c] \notin {"new", "done"}
Goto(c, s) == stage' = [stage EXCEPT ![c] = s]

\* The transactions of some checklists end: those in lose are rolled back.
Finish(ending, lose) ==
    /\ stage' = [c \in Checklists |-> IF c \in ending THEN "done" ELSE stage[c]]
    /\ rows' = [c \in Checklists |-> IF c \in lose THEN << >> ELSE rows[c]]
    /\ report' = [c \in Checklists |-> IF c \in lose THEN NoReport ELSE report[c]]
    /\ tried' = [c \in Checklists |-> IF c \in ending THEN << >> ELSE tried[c]]
    /\ over' = [c \in Checklists |-> over[c] /\ c \notin ending]
    /\ spent' = [c \in Checklists |-> spent[c] /\ c \notin ending]

\* Only the server's checklists show in the server's progress.
Show(c, status, r) ==
    progress' = IF c \in Threads THEN [status |-> status, report |-> r] ELSE progress
----------------------------------------------------------------------------
(* The evaluation of a case: a turn resolved by the council, with its repair *)

\* The stub narrates any turn, but a marker in the text silences its main lane.
Stub(case, lane) == IF case = "invalid" /\ lane = "main_lane" THEN "no narrative" ELSE "whole"

\* The markers of an evaluation let the stub answer in the place of the models.
Sent(case, lane) ==
    IF case \in {"invalid", "rejected", "overreach"}
    THEN {Stub(case, lane)}
    ELSE {"whole", "patchy", "no narrative", "exception"}

\* What a model leaves out is filled in from what it was asked, except the narrative.
Normalized(raw) == IF raw = "patchy" THEN "whole" ELSE raw

\* An attempt counts when its answer, so completed, is of the schema.
Attempts(case, lane) == {Normalized(raw) = "whole" : raw \in Sent(case, lane)}

\* A prompt the file does not route keeps the lane it names itself.
RequestedLane(file) == IF Lane[file] = Unrouted THEN "main_lane" ELSE Lane[file]

LaneSequence(lane, fallback) ==
    IF fallback /\ lane # "pro_lane" THEN <<lane, "pro_lane">> ELSE <<lane>>

\* The lanes are asked in turn until an attempt counts.
Execute(case, lanes) ==
    LET mayFail(n) == \A k \in 1 .. n : FALSE \in Attempts(case, lanes[k])
    IN  {TRUE : n \in {k \in DOMAIN lanes : mayFail(k - 1) /\ TRUE \in Attempts(case, lanes[k])}}
        \cup {FALSE : n \in {k \in {Len(lanes)} : mayFail(k)}}

\* The turn is asked for once, and its repair once.
ResolveTurn(case, lane) ==
    LET answered == Execute(case, LaneSequence(lane, FALSE))
    IN  {IF case = "rejected" THEN "forced safety rejection"
         ELSE IF first \/ second THEN "resolved"
         ELSE "repair_failed" : first \in answered, second \in answered}

Dataset(check) ==
    IF check = "failure" THEN {"invalid", "rejected", "overreach"} ELSE {"plain"}

\* Turns of the past that were resolved in either lane, if there are any.
Replays == SUBSET {"replay of main", "replay of pro"}

Cases(check) == IF check = "shadow" THEN Replays ELSE {Dataset(check)}

ExpectedLane(case) == IF case = "replay of pro" THEN "pro_lane" ELSE "main_lane"

\* The texts a case brings are searched; when they cannot be, all are taken.
Retrieval == {"ready", "degraded"}

\* fits: what was found and what was narrated is as the case expects.
CasePassed(case, lane, end, retrieved, fits) ==
    /\ lane = ExpectedLane(case)
    /\ CASE case = "invalid" -> end = "repair_failed"
         [] case = "rejected" -> end = "forced safety rejection"
         [] OTHER -> end = "resolved" /\ fits
    /\ case \in UNION Replays => retrieved = "ready"

CaseGate(check, case, lane) ==
    {IF check \in {"smoke", "pack"}
     THEN end = "resolved"
     ELSE CasePassed(case, lane, end, retrieved, fits) :
        end \in ResolveTurn(case, lane), retrieved \in Retrieval, fits \in BOOLEAN}

\* What the gate of a check may say of a file, given its cases.
Gate(check, cases, file) ==
    {\A case \in cases : v[case] :
        v \in {u \in [cases -> BOOLEAN] :
                 \A case \in cases : u[case] \in CaseGate(check, case, RequestedLane(file))}}

\* Both files are tried on the same cases, and the same file twice only once.
Verdicts == [check \in Kinds |-> [pair \in Files \X Files |->
    UNION {{v \in Gate(check, cases, pair[1]) \X Gate(check, cases, pair[2]) :
              pair[1] = pair[2] => v[1] = v[2]} : cases \in Cases(check)}]]
----------------------------------------------------------------------------
(* A checklist *)

\* A command has a container of its own, a request that of the server.
Served(c) == c \in Threads => runtime # Broken

\* run_release_checklist up to its first check. Files it cannot load end it outside of
\* the try: the progress goes on showing it.
Begin(c) ==
    /\ stage[c] = "new"
    /\ Cardinality({d \in Checklists : stage[d] # "new"}) < MaxBegun
    /\ Served(c)
    /\ Goto(c, IF Loadable(Pair) THEN "check" ELSE "done")
    /\ jammed' = (jammed \/ (c \in Threads /\ ~Loadable(Pair)))
    /\ Show(c, "running", {})
    /\ UNCHANGED <<disk, runtime, tried, over, spent, rows, db, operator, touched, lost>>

Present(c) == Checks[Len(rows[c]) + 1]
Done(c) == Len(rows[c]) = Len(Checks)

Result(pair, passed, late) ==
    [status |-> "completed", pair |-> pair, passed |-> passed, late |-> late]
NoResult(status) ==
    [status |-> status, pair |-> << >>, passed |-> <<FALSE, FALSE>>, late |-> FALSE]

\* A check is over: its row is flushed.
Refer(c, row) ==
    /\ rows' = [rows EXCEPT ![c] = Append(@, row)]
    /\ Goto(c, "check")
    /\ tried' = [tried EXCEPT ![c] = << >>]
    /\ over' = [over EXCEPT ![c] = FALSE]
    /\ Show(c, "running", {})
    /\ UNCHANGED <<disk, runtime, db, operator, history>>

\* A run that is written only to say that the check has no result. Which files it names is
\* left out.
Synthetic(c, status) == Refer(c, NoResult(status))

\* The budget of the whole checklist is used up, now or before.
SkipCheck(c) ==
    /\ stage[c] = "check" /\ ~Done(c)
    /\ spent' = [spent EXCEPT ![c] = TRUE]
    /\ Synthetic(c, "timeout")

\* Fault: the candidate's routes are read from the file of the others.
StartRunTwice(c) ==
    /\ stage[c] = "check" /\ ~Done(c)
    /\ ~spent[c]
    /\ Loadable(Pair)
    /\ tried' = [tried EXCEPT ![c] = <<current, current>>]
    /\ Goto(c, "run")
    /\ Show(c, "running", {})
    /\ UNCHANGED <<disk, runtime, over, spent, rows, db, operator, history>>

StartRun(c) ==
    /\ stage[c] = "check" /\ ~Done(c)
    /\ ~spent[c]
    /\ Loadable(Pair)
    /\ tried' = [tried EXCEPT ![c] = Pair]
    /\ Goto(c, "run")
    /\ Show(c, "running", {})
    /\ UNCHANGED <<disk, runtime, over, spent, rows, db, operator, history>>

\* A file cannot be loaded, or a run fails otherwise than in the database.
FailRun(c) ==
    /\ \/ stage[c] = "run"
       \/ stage[c] = "check" /\ ~Done(c) /\ ~spent[c] /\ ~Loadable(Pair)
    /\ Synthetic(c, "failed")
    /\ UNCHANGED spent

\* The time of the check is up.
TimeIsUp(c) ==
    /\ stage[c] = "run"
    /\ ~over[c]
    /\ over' = [over EXCEPT ![c] = TRUE]
    /\ UNCHANGED <<disk, runtime, stage, tried, spent, rows, db, progress, operator, history>>

\* Only a main thread can be told by a signal.
Interruptible(c) == c \in Mains

\* The alarm in a main thread. What the run has flushed stays, and nothing refers to it.
Alarm(c) ==
    /\ Interruptible(c)
    /\ stage[c] = "run" /\ over[c]
    /\ Synthetic(c, "timeout")
    /\ UNCHANGED spent

\* Fault: only the alarm tells that a run is late.
EndRunWhenever(c) ==
    /\ stage[c] = "run"
    /\ \E v \in Verdicts[Present(c)][tried[c]] : Refer(c, Result(tried[c], v, over[c]))
    /\ UNCHANGED spent

\* The run ends. In a thread, a late one is found out only now.
EndRun(c) ==
    /\ stage[c] = "run"
    /\ \/ /\ ~over[c]
          /\ \E v \in Verdicts[Present(c)][tried[c]] :
                Refer(c, Result(tried[c], v, over[c]))
       \/ over[c] /\ Refer(c, NoResult("timeout"))
    /\ UNCHANGED spent

Passed(row) == row.passed[1] /\ row.passed[2]

\* What the snapshot finds in the tables other requests write, whatever the runs say.
Worlds == [bound : BOOLEAN, template : BOOLEAN,
           gaps : SUBSET {"axis", "memory", "event", "lock"}]
WorldReady(w) == w.template /\ w.gaps = {}
WorldsReady(worlds) == \A w \in worlds : w.bound => WorldReady(w)

\* The canary is another server that is asked how it is.
Canary(reply) ==
    CASE reply = "no address" -> "not_configured"
      [] reply = "ok" -> "healthy"
      [] OTHER -> "unhealthy"

Snapshots ==
    [outboxFailed : BOOLEAN, lag : BOOLEAN, packs : BOOLEAN, reasons : BOOLEAN,
     canary : {"no address", "exception", "refused", "ok"}, worlds : {{w} : w \in Worlds}]

BlockedReasons(s) ==
    {r \in {"failed_outbox", "lag", "canary", "packs", "sp", "worlds"} :
        \/ r = "failed_outbox" /\ s.outboxFailed
        \/ r = "lag" /\ s.lag
        \/ r = "canary" /\ Canary(s.canary) # "healthy"
        \/ r = "packs" /\ ~s.packs
        \/ r = "sp" /\ ~s.reasons
        \/ r = "worlds" /\ ~WorldsReady(s.worlds)}

Health == {BlockedReasons(s) = {} : s \in Snapshots}

Conclude(c) ==
    /\ stage[c] = "check" /\ Done(c)
    /\ births' = births + 1
    /\ \E healthy \in Health :
         report' = [report EXCEPT ![c] =
             [verdict |-> IF healthy /\ \A i \in DOMAIN rows[c] : Passed(rows[c][i])
                          THEN "passed" ELSE "blocked",
              born |-> births + 1]]
    /\ Goto(c, "commit")
    /\ Show(c, "completed", {c})
    /\ UNCHANGED <<disk, runtime, work, committed, operator, history>>

Commit(c) ==
    /\ stage[c] = "commit"
    /\ committed' = committed \cup {c}
    /\ Finish({c}, {})
    /\ UNCHANGED <<disk, runtime, births, progress, operator, history>>

\* Fault: the progress is left as it is.
FailUnseen(c) ==
    /\ Active(c)
    /\ Finish({c}, {c})
    /\ UNCHANGED <<disk, runtime, births, committed, progress, operator, history>>

\* The database, the snapshot or the account of the report fails: the exception is shown
\* and nothing is kept.
Fail(c) ==
    /\ Active(c)
    /\ Finish({c}, {c})
    /\ Show(c, "failed", {})
    /\ UNCHANGED <<disk, runtime, births, committed, operator, history>>

\* The progress was set before the commit.
LoseCommit(c) ==
    /\ stage[c] = "commit"
    /\ lost' = lost \cup {c}
    /\ Finish({c}, {c})
    /\ UNCHANGED <<disk, runtime, births, committed, progress, operator, touched, jammed>>

EndProcess(c) ==
    /\ c \in Mains
    /\ Active(c)
    /\ Finish({c}, {c})
    /\ UNCHANGED <<disk, runtime, births, committed, progress, operator, history>>
----------------------------------------------------------------------------
(* The operator *)

\* Reports that can be read.
Reports == committed
Latest == {c \in Reports : \A d \in Reports : report[d].born <= report[c].born}

\* cutover_status: by the verdict and by what the rows of the runs say.
PromoteReady(c) ==
    /\ report[c].verdict = "passed"
    /\ Len(rows[c]) = Len(Checks)
    /\ \A i \in DOMAIN rows[c] : Passed(rows[c][i])

\* What is shown of a report: its verdict, the cutover status and today's difference.
Shown(c) ==
    [verdict |-> report[c].verdict, ready |-> PromoteReady(c), diff |-> Pair]

\* Whoever changes the file leaves what was begun with another one.
Touch == touched' = touched \cup {c \in Checklists : stage[c] # "new"}

Edit ==
    /\ edits < MaxEdits
    /\ edits' = edits + 1
    /\ \E f \in (Files \cup {Broken}) \ {candidate} : candidate' = f
    /\ Touch
    /\ UNCHANGED <<current, runtime, stage, work, db, progress, seen, jammed, lost>>

\* GET release: the latest report, shown with the difference of the files of today.
Look ==
    /\ runtime # Broken
    /\ Loadable(Pair)
    /\ \E c \in Latest : Shown(c).ready /\ seen' = {c}
    /\ UNCHANGED <<disk, runtime, stage, work, db, progress, edits, history>>

\* The server starts again, with the file of today.
StartServer(file) ==
    /\ runtime' = file
    /\ LET stopped == {c \in Threads : Active(c)} IN Finish(stopped, stopped)
    /\ progress' = Idle
    /\ jammed' = FALSE

Promote ==
    /\ seen # {}
    /\ current' = candidate
    /\ StartServer(candidate)
    /\ Touch
    /\ seen' = {}
    /\ UNCHANGED <<candidate, births, committed, edits, lost>>

Restart ==
    /\ StartServer(current)
    /\ UNCHANGED <<disk, births, committed, operator, touched, lost>>
----------------------------------------------------------------------------
Step(c) ==
    \/ Begin(c) \/ SkipCheck(c) \/ StartRun(c) \/ FailRun(c) \/ TimeIsUp(c)
    \/ Alarm(c) \/ EndRun(c) \/ Conclude(c) \/ Commit(c) \/ Fail(c) \/ LoseCommit(c) \/ EndProcess(c)

GateNext == (\E c \in Checklists : Step(c)) \/ Edit \/ Look \/ Promote \/ Restart

GateSpec == GateInit /\ [][GateNext]_gateVars
----------------------------------------------------------------------------
(* Properties *)

Rows == [status : {"completed"}, pair : Files \X Files, passed : BOOLEAN \X BOOLEAN,
         late : BOOLEAN]
        \cup {NoResult("timeout"), NoResult("failed")}

GateTypeOK ==
    /\ {current, candidate, runtime} \subseteq Files \cup {Broken}
    /\ stage \in [Checklists -> {"new", "check", "run", "commit", "done"}]
    /\ tried \in [Checklists -> (Files \X Files) \cup {<< >>}]
    /\ over \in [Checklists -> BOOLEAN] /\ spent \in [Checklists -> BOOLEAN]
    /\ rows \in [Checklists -> Seq(Rows)]
    /\ report \in [Checklists -> [verdict : {"none", "passed", "blocked"}, born : Nat]]
    /\ births \in Nat
    /\ committed \subseteq Checklists
    /\ progress \in [status : {"idle", "running", "completed", "failed"}, report : SUBSET Threads]
    /\ seen \subseteq Reports
    /\ edits \in 0 .. MaxEdits
    /\ touched \subseteq Checklists /\ lost \subseteq Checklists /\ jammed \in BOOLEAN

\* A verdict of "passed" is earned: every check has a run that came to its end within its
\* time and passed for both files, and so the cutover status says.
VerdictEarned ==
    \A c \in Reports : report[c].verdict = "passed" =>
        /\ PromoteReady(c)
        /\ \A i \in DOMAIN rows[c] : rows[c][i].status = "completed" /\ ~rows[c][i].late

\* What is promoted was judged: it passed every check, and what it replaces was what it was
\* compared with, unless a file has changed since the checklist began.
PromotedAsJudged ==
    [][\A c \in seen : Promote /\ c \notin touched =>
         \A i \in DOMAIN rows[c] : rows[c][i].pair = <<current, current'>> /\ Passed(rows[c][i])]_gateVars

\* The progress shows a checklist as running only while one runs, unless one has not found
\* its files, and one as completed only with its report, unless its commit is still to come
\* or has failed.
ProgressTells ==
    /\ progress.status = "running" /\ ~jammed => \E c \in Threads : Active(c)
    /\ progress.status = "completed" =>
         \A c \in progress.report : c \in committed \cup lost \/ stage[c] = "commit"
=============================================================================
