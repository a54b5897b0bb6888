---------------------------- MODULE TurnPipeline ----------------------------
(***************************************************************************)
(* A turn from POST /turns to its last WebSocket event.  Three activities  *)
(* of the server process share its job row, its Turn row and the ledger:   *)
(*   - the request, which debits the turn, books a TurnResolutionJob and   *)
(*     starts the background task;                                         *)
(*   - the worker, TurnResolutionManager._resolve_work in a thread, which  *)
(*     makes at most MaxAttempts attempts of one transaction each;         *)
(*   - the task, _resolve_turn_background on the event loop, which relays  *)
(*     the worker's progress and then reports the result.                  *)
(* A crash loses all three and keeps the database.  Nothing resumes a job  *)
(* after a restart.                                                        *)
(***************************************************************************)
EXTENDS Naturals

CONSTANTS
    Turns,          \* turns; each is one POST /turns
    MaxAttempts,    \* max_resolution_attempts
    MaxQueue,       \* bound: progress reports waiting in the queue of a turn
    MaxCrashes      \* bound: crashes of the server process

ASSUME PipelineConstants ==
    /\ MaxAttempts \in Nat \ {0}
    /\ MaxQueue \in Nat
    /\ MaxCrashes \in Nat

VARIABLES
    job,        \* database: TurnResolutionJob.status
    turn,       \* database: status of the committed Turn row
    charge,     \* database: ledger entries of the turn
    text,       \* database: the player-facing text has been persisted
    request,    \* where the request is
    worker,     \* where the worker is
    attempt,    \* its attempt, from 1
    result,     \* what the worker returned
    unheard,    \* history: a commit of the worker succeeded without its knowing
    queue,      \* progress reports the worker queued for the task
    task,       \* where the task is
    last,       \* the last event the turn's player was sent
    told,       \* the content of its turn.resolved or turn.failed
    ends,       \* history: how many of these were sent
    crashes

database == <<job, turn, charge, text>>
working == <<worker, attempt, result, unheard>>
stream == <<last, told, ends>>
vars == <<database, request, working, queue, task, stream, crashes>>

Outcome == {"resolved", "failed"}
Ended(k) == worker[k] \in {"returned", "raised"}
Relaying(k) == task[k] \in {"draining", "erroring", "reporting", "localized",
                            "persisted", "announcing"}

Init ==
    /\ job = [k \in Turns |-> "none"]
    /\ turn = [k \in Turns |-> "none"]
    /\ charge = [k \in Turns |-> "none"]
    /\ text = [k \in Turns |-> FALSE]
    /\ request = [k \in Turns |-> "new"]
    /\ worker = [k \in Turns |-> "none"]
    /\ attempt = [k \in Turns |-> 0]
    /\ result = [k \in Turns |-> "none"]
    /\ unheard = [k \in Turns |-> FALSE]
    /\ queue = [k \in Turns |-> 0]
    /\ task = [k \in Turns |-> "none"]
    /\ last = [k \in Turns |-> "none"]
    /\ told = [k \in Turns |-> "none"]
    /\ ends = [k \in Turns |-> 0]
    /\ crashes = 0

\* An event is sent to the sockets of the turn's session.
Send(k, event) == last' = [last EXCEPT ![k] = event]
----------------------------------------------------------------------------
(* The request *)

\* prepare_turn_for_session debits the turn; the job row joins the same commit.
Accept(k) ==
    /\ request[k] = "new"
    /\ request' = [request EXCEPT ![k] = "accepted"]
    /\ charge' = [charge EXCEPT ![k] = "charged"]
    /\ job' = [job EXCEPT ![k] = "accepted"]
    /\ UNCHANGED <<turn, text, working, queue, task, stream, crashes>>

\* 404, 409 or an unavailable world: nothing is committed.
Reject(k) ==
    /\ request[k] = "new"
    /\ request' = [request EXCEPT ![k] = "done"]
    /\ UNCHANGED <<database, working, queue, task, stream, crashes>>

\* turn.accepted is sent, then the task is created, which starts the worker; no
\* other task runs between the two.
Launch(k) ==
    /\ request[k] = "accepted"
    /\ request' = [request EXCEPT ![k] = "done"]
    /\ Send(k, "turn.accepted")
    /\ task' = [task EXCEPT ![k] = "draining"]
    /\ worker' = [worker EXCEPT ![k] = "starting"]
    /\ attempt' = [attempt EXCEPT ![k] = 1]
    /\ UNCHANGED <<database, result, unheard, queue, told, ends, crashes>>

\* The commit's answer is lost, or RealtimeHub.emit raises: the request fails
\* before it creates the task.
FailToLaunch(k) ==
    /\ request[k] = "accepted"
    /\ request' = [request EXCEPT ![k] = "done"]
    /\ UNCHANGED <<database, working, queue, task, stream, crashes>>
----------------------------------------------------------------------------
(* The worker *)

StartAttempt(k) ==
    /\ worker[k] = "starting"
    /\ job' = [job EXCEPT ![k] = "running"]
    /\ worker' = [worker EXCEPT ![k] = "resolving"]
    /\ UNCHANGED <<turn, charge, text, request, attempt, result, unheard, queue,
                   task, stream, crashes>>

\* A role run or a span of the resolution reports progress.  The report goes
\* through call_soon_threadsafe, so it is in the queue before the worker's end
\* is known to the task.
Report(k) ==
    /\ worker[k] = "resolving"
    /\ queue[k] < MaxQueue
    /\ queue' = [queue EXCEPT ![k] = @ + 1]
    /\ UNCHANGED <<database, request, working, task, stream, crashes>>

\* Fault: the failed turn is committed without its refund.
SettlesWithoutRefund(k, o) ==
    /\ turn' = [turn EXCEPT ![k] = o]
    /\ job' = [job EXCEPT ![k] = o]
    /\ UNCHANGED <<charge, text, request, attempt, queue, task, stream, crashes>>

\* The one commit of the resolution: Turn row, event, outbox row, world changes and
\* job status, and for a failed turn the refund.
Settle(k, o) ==
    /\ turn' = [turn EXCEPT ![k] = o]
    /\ charge' = [charge EXCEPT ![k] = IF o = "failed" THEN "refunded" ELSE @]
    /\ job' = [job EXCEPT ![k] = o]
    /\ UNCHANGED <<text, request, attempt, queue, task, stream, crashes>>

Resolve(k, o) ==
    /\ worker[k] = "resolving"
    /\ Settle(k, o)
    /\ worker' = [worker EXCEPT ![k] = "returned"]
    /\ result' = [result EXCEPT ![k] = o]
    /\ UNCHANGED unheard

\* Fault: a lost connection counts as retryable.
RetriesUnheard(k, o) ==
    /\ worker[k] = "resolving"
    /\ Settle(k, o)
    /\ worker' = [worker EXCEPT ![k] = IF attempt[k] < MaxAttempts THEN "retrying"
                                                                 ELSE "giving_up"]
    /\ unheard' = [unheard EXCEPT ![k] = TRUE]
    /\ UNCHANGED result

\* The database commits but the connection breaks before the answer: an
\* OperationalError without a SQLSTATE, which _is_retryable_db_error refuses.
ResolveUnheard(k, o) ==
    /\ worker[k] = "resolving"
    /\ Settle(k, o)
    /\ worker' = [worker EXCEPT ![k] = "giving_up"]
    /\ unheard' = [unheard EXCEPT ![k] = TRUE]
    /\ UNCHANGED result

\* An attempt is repeated only for a serialization failure or a deadlock.
MayRetry(k) == attempt[k] < MaxAttempts

\* Anything raises before the commit: the transaction is rolled back.
Raise(k) ==
    /\ worker[k] \in {"starting", "resolving"}
    /\ \/ worker' = [worker EXCEPT ![k] = "giving_up"]
       \/ MayRetry(k) /\ worker' = [worker EXCEPT ![k] = "retrying"]
    /\ UNCHANGED <<database, request, attempt, result, unheard, queue, task, stream,
                   crashes>>

\* _mark_job_retrying, then the next attempt after a sleep.
MarkRetrying(k) ==
    /\ worker[k] = "retrying"
    /\ job' = [job EXCEPT ![k] = "retrying"]
    /\ worker' = [worker EXCEPT ![k] = "starting"]
    /\ attempt' = [attempt EXCEPT ![k] = @ + 1]
    /\ UNCHANGED <<turn, charge, text, request, result, unheard, queue, task, stream,
                   crashes>>

\* _mark_job_failed, then the exception goes on to the task.
MarkFailed(k) ==
    /\ worker[k] = "giving_up"
    /\ job' = [job EXCEPT ![k] = "failed"]
    /\ worker' = [worker EXCEPT ![k] = "raised"]
    /\ UNCHANGED <<turn, charge, text, request, attempt, result, unheard, queue, task,
                   stream, crashes>>

\* Marking raises in its turn: the job keeps the status it had, unless only the
\* answer to the commit of "retrying" was lost.
MarkRaises(k) ==
    /\ worker[k] \in {"retrying", "giving_up"}
    /\ worker' = [worker EXCEPT ![k] = "raised"]
    /\ \/ UNCHANGED job
       \/ worker[k] = "retrying" /\ job' = [job EXCEPT ![k] = "retrying"]
    /\ UNCHANGED <<turn, charge, text, request, attempt, result, unheard, queue, task,
                   stream, crashes>>
----------------------------------------------------------------------------
(* The task *)

Relay(k) ==
    /\ task[k] = "draining"
    /\ queue[k] > 0
    /\ queue' = [queue EXCEPT ![k] = @ - 1]
    /\ Send(k, "turn.progress")
    /\ UNCHANGED <<database, request, working, task, told, ends, crashes>>

\* Five seconds without a report; the worker may have ended meanwhile.  The single
\* turn.provisional that may follow a progress event is not told apart from it.
Heartbeat(k) ==
    /\ task[k] = "draining"
    /\ queue[k] = 0
    /\ Send(k, "turn.progress")
    /\ UNCHANGED <<database, request, working, queue, task, told, ends, crashes>>

\* Fault: the loop does not look at the queue after the worker's end.
DrainedAtEnd(k) == Ended(k)

\* Fault: the loop waits for a result and never sees an exception.
DrainedAtReturn(k) == worker[k] = "returned" /\ queue[k] = 0

\* The loop ends when the worker has ended and no report is left.
Drained(k) == Ended(k) /\ queue[k] = 0

StopDraining(k) ==
    /\ task[k] = "draining"
    /\ Drained(k)
    /\ task' = [task EXCEPT ![k] = IF worker[k] = "raised" THEN "erroring"
                                                            ELSE "reporting"]
    /\ UNCHANGED <<database, request, working, queue, stream, crashes>>

\* The final event of the turn.
Tell(k, answer) ==
    /\ told' = [told EXCEPT ![k] = answer]
    /\ ends' = [ends EXCEPT ![k] = @ + 1]
    /\ Send(k, IF answer = "resolved" THEN "turn.resolved" ELSE "turn.failed")

\* Fault: the error branch does not return.
TellErrorGoesOn(k) ==
    /\ task[k] = "erroring"
    /\ Tell(k, "error")
    /\ task' = [task EXCEPT ![k] = "reporting"]
    /\ UNCHANGED <<database, request, working, queue, crashes>>

\* The worker raised: turn.failed, retryable, and the task returns.

TellError(k) ==
    /\ task[k] = "erroring"
    /\ Tell(k, "error")
    /\ task' = [task EXCEPT ![k] = "done"]
    /\ UNCHANGED <<database, request, working, queue, crashes>>

\* Phases nobody reported, and the localization of the response.
Localize(k) ==
    /\ task[k] = "reporting"
    /\ Send(k, "turn.progress")
    /\ task' = [task EXCEPT ![k] = "localized"]
    /\ UNCHANGED <<database, request, working, queue, told, ends, crashes>>

\* _persist_player_facing_turn_text, in a transaction of its own.
PersistText(k) ==
    /\ task[k] = "localized"
    /\ text' = [text EXCEPT ![k] = TRUE]
    /\ task' = [task EXCEPT ![k] = "persisted"]
    /\ UNCHANGED <<job, turn, charge, request, working, queue, stream, crashes>>

\* _emit_turn_result_events: a failed turn has no results to show.
SendResults(k) ==
    /\ task[k] = "persisted"
    /\ IF result[k] = "resolved" THEN Send(k, "results") ELSE UNCHANGED last
    /\ task' = [task EXCEPT ![k] = "announcing"]
    /\ UNCHANGED <<database, request, working, queue, told, ends, crashes>>

Announce(k) ==
    /\ task[k] = "announcing"
    /\ Tell(k, IF result[k] = "resolved" THEN "resolved" ELSE "refunded")
    /\ task' = [task EXCEPT ![k] = "done"]
    /\ UNCHANGED <<database, request, working, queue, crashes>>

\* Sending, localizing or persisting raises: nothing catches it, the task ends and
\* the worker goes on.
Die(k) ==
    /\ Relaying(k)
    /\ task' = [task EXCEPT ![k] = "dead"]
    /\ UNCHANGED <<database, request, working, queue, stream, crashes>>
----------------------------------------------------------------------------
(* The server process *)

Crash ==
    /\ crashes < MaxCrashes
    /\ crashes' = crashes + 1
    /\ request' = [k \in Turns |-> IF request[k] = "accepted" THEN "done"
                                                              ELSE request[k]]
    /\ worker' = [k \in Turns |-> IF worker[k] = "none" THEN "none" ELSE "lost"]
    /\ task' = [k \in Turns |-> IF Relaying(k) THEN "dead" ELSE task[k]]
    /\ queue' = [k \in Turns |-> 0]
    /\ UNCHANGED <<database, attempt, result, unheard, stream>>

Request(k) == Accept(k) \/ Reject(k) \/ Launch(k) \/ FailToLaunch(k)
Work(k) ==
    \/ StartAttempt(k) \/ Report(k) \/ Raise(k)
    \/ \E o \in Outcome : Resolve(k, o) \/ ResolveUnheard(k, o)
    \/ MarkRetrying(k) \/ MarkFailed(k) \/ MarkRaises(k)
Follow(k) ==
    \/ Relay(k) \/ Heartbeat(k) \/ StopDraining(k)
    \/ TellError(k) \/ Localize(k) \/ PersistText(k) \/ SendResults(k)
    \/ Announce(k) \/ Die(k)

\* Every activity has run its course.
Quiet ==
    /\ \A k \in Turns :
         /\ request[k] = "done"
         /\ Ended(k) \/ worker[k] \in {"none", "lost"}
         /\ task[k] \in {"none", "done", "dead"}
    /\ UNCHANGED vars

Next ==
    \/ \E k \in Turns : Request(k) \/ Work(k) \/ Follow(k)
    \/ Crash
    \/ Quiet

Spec == Init /\ [][Next]_vars

\* The event loop runs every ready task, the thread pool every worker, and a worker
\* ends its attempt: every model call has a timeout.  That progress is reported,
\* or that a request arrives, is not assumed.
FairSpec ==
    /\ Spec
    /\ \A k \in Turns :
         /\ WF_vars(Launch(k) \/ FailToLaunch(k))
         /\ WF_vars(StartAttempt(k) \/ Raise(k) \/ MarkRetrying(k)
                      \/ MarkFailed(k) \/ MarkRaises(k)
                      \/ \E o \in Outcome : Resolve(k, o) \/ ResolveUnheard(k, o))
         /\ WF_vars(Relay(k) \/ StopDraining(k) \/ TellError(k) \/ Localize(k)
                      \/ PersistText(k) \/ SendResults(k) \/ Announce(k))
----------------------------------------------------------------------------
(* Properties *)

TypeOK ==
    /\ job \in [Turns -> {"none", "accepted", "running", "retrying"} \cup Outcome]
    /\ turn \in [Turns -> {"none"} \cup Outcome]
    /\ charge \in [Turns -> {"none", "charged", "refunded"}]
    /\ text \in [Turns -> BOOLEAN]
    /\ request \in [Turns -> {"new", "accepted", "done"}]
    /\ worker \in [Turns -> {"none", "starting", "resolving", "retrying", "giving_up",
                             "returned", "raised", "lost"}]
    /\ attempt \in [Turns -> 0 .. MaxAttempts]
    /\ result \in [Turns -> {"none"} \cup Outcome]
    /\ unheard \in [Turns -> BOOLEAN]
    /\ queue \in [Turns -> 0 .. MaxQueue]
    /\ task \in [Turns -> {"none", "draining", "erroring", "reporting", "localized",
                           "persisted", "announcing", "done", "dead"}]
    /\ last \in [Turns -> {"none", "turn.accepted", "turn.progress", "results",
                           "turn.failed", "turn.resolved"}]
    /\ told \in [Turns -> {"none", "resolved", "refunded", "error"}]
    /\ ends \in [Turns -> 0 .. 1]
    /\ crashes \in 0 .. MaxCrashes

\* The job row, the Turn row and the ledger tell one story through retries, crashes
\* and lost answers: a resolved job has an applied turn that keeps its charge; a
\* refund goes with a failed turn and a failed job; an applied turn may show a
\* failed job only when the answer to its commit was lost
\* (TurnResolutionManager._resolve_work, _build_failed_turn_result).
JobTellsFate ==
    \A k \in Turns :
        /\ job[k] = "none" <=> charge[k] = "none"
        /\ charge[k] = "refunded" <=> turn[k] = "failed"
        /\ job[k] = "resolved" => turn[k] = "resolved"
        /\ turn[k] = "resolved" => job[k] = "resolved" \/ (unheard[k] /\ job[k] = "failed")
        /\ turn[k] = "failed" => job[k] = "failed"

\* The final event comes when the worker's story is complete: every report has been
\* relayed, a turn.resolved finds the job resolved and its text persisted, a
\* refund is announced after it is in the ledger, and an error leaves either no
\* Turn row or one whose commit was not answered (_resolve_turn_background).
ToldIsTrue ==
    \A k \in Turns :
        /\ told[k] # "none" => queue[k] = 0
        /\ told[k] = "resolved" => job[k] = "resolved" /\ text[k]
        /\ told[k] = "refunded" => charge[k] = "refunded" /\ text[k]
        /\ told[k] = "error" => turn[k] = "none" \/ unheard[k]

\* After its final event nothing about a turn changes any more, in the database or
\* on the wire: no second answer, no late progress, no settlement behind the
\* player's back.
FinalWord ==
    [][\A k \in Turns : ends[k] = 1 =>
          /\ job'[k] = job[k] /\ turn'[k] = turn[k]
          /\ charge'[k] = charge[k] /\ text'[k] = text[k]
          /\ last'[k] = last[k] /\ ends'[k] = ends[k]]_vars

\* An accepted turn comes to rest: it was not launched, or its task has sent the
\* final event or died, and its worker has ended or was lost with the process.
TurnsEnd ==
    \A k \in Turns :
        request[k] = "accepted" ~>
          \/ request[k] = "done" /\ task[k] = "none"
          \/ task[k] \in {"done", "dead"} /\ (Ended(k) \/ worker[k] = "lost")

\* The pipeline keeps the promise of TurnSettlement: the charge of an applied turn is
\* kept, whatever its job says.
Promise == INSTANCE TurnSettlement
    WITH fate <- [k \in Turns |-> IF turn[k] = "resolved" THEN "kept" ELSE charge[k]]
Settlement == Promise!Spec
=============================================================================
