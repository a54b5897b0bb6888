---------------------------- MODULE PlayerClient ----------------------------
(***************************************************************************)
(* The player's page (the runtime hook), the hub that carries events to it *)
(* and the requests it sends.  One session of one player: the page posts a *)
(* turn, the server accepts it, resolves it in the background, and tells   *)
(* the outcome over the WebSocket of the session.  The page merges what it *)
(* is told into the state it shows and fetches the whole state again.      *)
(*                                                                         *)
(* Whenever the access token is renewed the page closes its socket and     *)
(* opens another; a socket that closes by itself is not reopened.  The     *)
(* state shown is modelled by the set of turns that are visible in it.     *)
(***************************************************************************)
EXTENDS Naturals, Sequences, FiniteSets

CONSTANTS
    MaxTurns,   \* bound on the turns the player sends
    MaxConns    \* bound on the sockets the page opens

ASSUME ClientConstants == {MaxTurns, MaxConns} \subseteq Nat \ {0}

Turns == 1 .. MaxTurns
NoTurn == 0
Conns == 1 .. MaxConns
NoConn == 0

\* Fetches: of the state and the story at the start, and of the state after each turn.
StateAtStart == <<"state">>
StoryAtStart == <<"story">>
After(t) == <<"state", t>>
AtStart == {StateAtStart, StoryAtStart}
Fetches == AtStart \cup {After(t) : t \in Turns}

VARIABLES
    \* the server
    turn,       \* how far each turn has come
    announced,  \* turns whose task is over: the final word is sent, or will not be
    hub,        \* sockets registered for the session; they come in the order of their numbers
    endpoint,   \* the coroutine that serves each socket
    \* the network
    line,       \* each socket, as the page sees it
    wire,       \* final words under way on each socket
    fetch,      \* how far each fetch has come
    answer,     \* what the answer of a served fetch contains
    \* the page
    socket,     \* the socket in use
    hydrating,  \* the overlay of the starting session is up
    pending,    \* turnPending: nothing can be sent
    posting,    \* POST /turns whose answer the page waits for
    loaded,     \* sessionState is not null
    shown,      \* turns visible in sessionState
    story,      \* turns in storyItems
    \* history
    owner,      \* the turn that was sent last
    gaveUp,     \* the page has given up on a POST that ended with an error
    heard,      \* turns whose final word the page has received
    received,   \* turns whose result it has received
    passed,     \* fetches that were overtaken: a result came after the server answered them
    stale,      \* the answer applied last was an overtaken one
    halfway     \* the story came when the page was already in use

server == <<turn, announced>>
sockets == <<hub, endpoint, line, wire, socket>>
requests == <<fetch, answer, passed>>
view == <<loaded, shown, story, received, stale, halfway>>
form == <<pending, posting, owner, gaveUp>>
pageVars == <<server, sockets, requests, view, form, hydrating, heard>>

Fates == {"applied", "refunded"}
Resolved == {t \in Turns : turn[t] = "applied"}

PageInit ==
    /\ turn = [t \in Turns |-> "unsent"]
    /\ announced = {}
    /\ hub = {}
    /\ endpoint = [c \in Conns |-> "none"]
    /\ line = [c \in Conns |-> "none"]
    /\ wire = [c \in Conns |-> <<>>]
    /\ fetch = [f \in Fetches |-> "none"]
    /\ answer = [f \in Fetches |-> {}]
    /\ socket = NoConn
    /\ hydrating = FALSE
    /\ pending = FALSE
    /\ posting = {}
    /\ loaded = FALSE
    /\ shown = {}
    /\ story = {}
    /\ owner = NoTurn
    /\ gaveUp = FALSE
    /\ heard = {}
    /\ received = {}
    /\ passed = {}
    /\ stale = FALSE
    /\ halfway = FALSE
----------------------------------------------------------------------------
(* Sockets *)

\* The effect on [session, token] opens a socket; its cleanup closes the one before, and
\* what was under way on it is dropped.
Dial(c) ==
    /\ socket' = c
    /\ line' = [d \in Conns |-> IF d = c THEN "dialing" ELSE IF d = socket THEN "closed" ELSE line[d]]
    /\ wire' = [d \in Conns |-> IF d = socket THEN <<>> ELSE wire[d]]

\* handleStartSession, when POST /sessions has answered.
StartSession ==
    /\ socket = NoConn
    /\ Dial(1)
    /\ hydrating' = TRUE
    /\ fetch' = [f \in Fetches |-> IF f \in AtStart THEN "sent" ELSE "none"]
    /\ UNCHANGED <<server, hub, endpoint, answer, passed, view, form, heard>>

\* ensureFreshToken finds a new token, or refreshWallet fills in a filter.
RenewToken ==
    /\ socket \in 1 .. MaxConns - 1
    /\ Dial(socket + 1)
    /\ UNCHANGED <<server, hub, endpoint, requests, view, form, hydrating, heard>>

\* The connection breaks or cannot be made: onerror, onclose.
Break(c) ==
    /\ line[c] \in {"dialing", "open"}
    /\ line' = [line EXCEPT ![c] = "closed"]
    /\ wire' = [wire EXCEPT ![c] = <<>>]
    /\ UNCHANGED <<server, hub, endpoint, socket, requests, view, form, hydrating, heard>>

\* A send meets a socket that is gone: the error is recognised and the socket dropped, the
\* data is lost unnoticed, or the error is another one and is raised.
Gone(c) == line[c] = "closed" \/ endpoint[c] = "ended"
MayRaise(c) == line[c] = "closed" /\ endpoint[c] # "ended"

\* What is sent reaches some sockets; those that are gone may be dropped.
Send(word, reached) ==
    /\ \E dropped \in SUBSET {c \in reached : Gone(c)} :
          /\ {c \in reached : endpoint[c] = "ended"} \subseteq dropped
          /\ hub' = hub \ dropped
    /\ wire' = [c \in Conns |->
                   IF c \in reached /\ ~Gone(c) THEN wire[c] \o word ELSE wire[c]]

\* RealtimeHub.emit to the sockets in turn; what is raised ends it.
EmitToAll(word) == Send(word, hub)
EmitRaises(word) == \E c \in hub : MayRaise(c) /\ Send(word, {d \in hub : d < c})

\* session_socket registers a socket and greets the whole session; an error at another
\* socket ends the coroutine and leaves the new socket registered.
Connect(c) ==
    /\ line[c] = "dialing"
    /\ line' = [line EXCEPT ![c] = "open"]
    /\ endpoint' = [endpoint EXCEPT ![c] = "greeting"]
    /\ hub' = hub \cup {c}
    /\ UNCHANGED <<server, wire, socket, requests, view, form, hydrating, heard>>

Greet(c) ==
    /\ endpoint[c] = "greeting"
    /\ \/ EmitToAll(<<>>) /\ endpoint' = [endpoint EXCEPT ![c] = "listening"]
       \/ EmitRaises(<<>>) /\ endpoint' = [endpoint EXCEPT ![c] = "ended"]
    /\ UNCHANGED <<server, line, socket, requests, view, form, hydrating, heard>>

\* The server has ended the coroutine of a socket, and the page sees it closed.
Drop(c) ==
    /\ line[c] = "open"
    /\ endpoint[c] = "ended"
    /\ line' = [line EXCEPT ![c] = "closed"]
    /\ wire' = [wire EXCEPT ![c] = <<>>]
    /\ UNCHANGED <<server, hub, endpoint, socket, requests, view, form, hydrating, heard>>

\* Fault: the session is forgotten when one of its sockets disconnects.
UnregisterSession(c) == {}

\* RealtimeHub.disconnect
Unregister(c) == hub \ {c}

\* receive_text raises WebSocketDisconnect.
Disconnect(c) ==
    /\ endpoint[c] = "listening"
    /\ line[c] = "closed"
    /\ endpoint' = [endpoint EXCEPT ![c] = "ended"]
    /\ hub' = Unregister(c)
    /\ UNCHANGED <<server, line, wire, socket, requests, view, form, hydrating, heard>>
----------------------------------------------------------------------------
(* A turn *)

\* submitTurnRequest of the next turn
Submit(t) ==
    /\ socket # NoConn
    /\ ~hydrating
    /\ ~pending
    /\ t = owner + 1
    /\ turn' = [turn EXCEPT ![t] = "posted"]
    /\ pending' = TRUE
    /\ posting' = posting \cup {t}
    /\ owner' = t
    /\ UNCHANGED <<announced, sockets, requests, view, gaveUp, hydrating, heard>>

Accept(t) ==
    /\ turn[t] = "posted"
    /\ turn' = [turn EXCEPT ![t] = "running"]
    /\ UNCHANGED <<announced, sockets, requests, view, form, hydrating, heard>>

Reject(t) ==
    /\ turn[t] = "posted"
    /\ turn' = [turn EXCEPT ![t] = "rejected"]
    /\ UNCHANGED <<announced, sockets, requests, view, form, hydrating, heard>>

\* Fault: any answer unlocks the form.
AnswerAcceptedUnlocks(t) ==
    /\ t \in posting
    /\ turn[t] \in {"running"} \cup Fates
    /\ posting' = posting \ {t}
    /\ pending' = FALSE
    /\ UNCHANGED <<server, sockets, requests, view, owner, gaveUp, hydrating, heard>>

\* The answer "accepted": the final word comes over the socket.
AnswerAccepted(t) ==
    /\ t \in posting
    /\ turn[t] \in {"running"} \cup Fates
    /\ posting' = posting \ {t}
    /\ UNCHANGED <<server, sockets, requests, view, pending, owner, gaveUp, hydrating, heard>>

\* A rejection, a timeout of the page or a network error: the page is free again, whatever
\* has become of the turn.
AnswerError(t) ==
    /\ t \in posting
    /\ turn[t] # "unsent"
    /\ posting' = posting \ {t}
    /\ pending' = FALSE
    /\ gaveUp' = TRUE
    /\ UNCHANGED <<server, sockets, requests, view, owner, hydrating, heard>>

Resolve(t) ==
    /\ turn[t] = "running"
    /\ turn' \in {[turn EXCEPT ![t] = fate] : fate \in Fates}
    /\ UNCHANGED <<announced, sockets, requests, view, form, hydrating, heard>>

Settled(t) == turn[t] \in Fates

Word(t) == [turn |-> t, event |-> IF turn[t] = "refunded" THEN "turn.failed" ELSE "turn.resolved"]

\* The task of the turn sends the final word, once.
Tell(t) ==
    /\ Settled(t)
    /\ t \notin announced
    /\ announced' = announced \cup {t}
    /\ EmitToAll(<<Word(t)>>) \/ EmitRaises(<<Word(t)>>)
    /\ UNCHANGED <<turn, endpoint, line, socket, requests, view, form, hydrating, heard>>

\* An error that an earlier event of the turn met has ended the task.
NeverTell(t) ==
    /\ turn[t] \in Fates
    /\ t \notin announced
    /\ \E c \in hub : MayRaise(c)
    /\ announced' = announced \cup {t}
    /\ UNCHANGED <<turn, sockets, requests, view, form, hydrating, heard>>
----------------------------------------------------------------------------
(* What the page receives *)

\* Fault: what was received is not merged into the state.
MergedLater(t) == shown

\* mergeTurnResponseIntoSessionState
Merged(t) == IF loaded THEN shown \cup {t} ELSE shown

Overtaken == {f \in Fetches : fetch[f] = "answered"}

\* turn.resolved: applyResolvedTurnResponse
ReceiveResolved(t) ==
    /\ shown' = Merged(t)
    /\ story' = story \cup {t}
    /\ received' = received \cup {t}
    /\ pending' = FALSE
    /\ fetch' = [fetch EXCEPT ![After(t)] = "sent"]
    /\ passed' = passed \cup Overtaken
    /\ UNCHANGED <<loaded, stale, halfway, answer, posting, owner, gaveUp>>

\* Fault: the notice of failure is shown, the form stays locked.
ReceiveFailedLocked(t) == UNCHANGED <<view, requests, form>>

\* turn.failed
ReceiveFailed(t) ==
    /\ pending' = FALSE
    /\ UNCHANGED <<view, requests, posting, owner, gaveUp>>

Receive ==
    /\ socket # NoConn
    /\ wire[socket] # <<>>
    /\ wire' = [wire EXCEPT ![socket] = Tail(@)]
    /\ heard' = heard \cup {Head(wire[socket]).turn}
    /\ LET word == Head(wire[socket]) IN
          IF word.event = "turn.resolved" THEN ReceiveResolved(word.turn) ELSE ReceiveFailed(word.turn)
    /\ UNCHANGED <<server, hub, endpoint, line, socket, hydrating>>

Answer(f) ==
    /\ fetch[f] = "sent"
    /\ fetch' = [fetch EXCEPT ![f] = "answered"]
    /\ answer' = [answer EXCEPT ![f] = Resolved]
    /\ UNCHANGED <<server, sockets, passed, view, form, hydrating, heard>>

\* The overlay goes when both fetches of the start are done, or one has failed.
Hydrated(f, failed) ==
    hydrating' = (hydrating /\ ~(f \in AtStart /\ (failed \/ \A g \in AtStart \ {f} : fetch[g] = "over")))

Over(f) ==
    /\ fetch' = [fetch EXCEPT ![f] = "over"]
    /\ answer' = [answer EXCEPT ![f] = {}]
    /\ passed' = passed \ {f}

\* refreshWorldState and refreshStoryHistory overwrite what is there.
ApplyAnswer(f) ==
    /\ fetch[f] = "answered"
    /\ Over(f)
    /\ IF f = StoryAtStart
       THEN /\ story' = answer[f]
            /\ halfway' = (f \in passed)
            /\ UNCHANGED <<loaded, shown, stale>>
       ELSE /\ shown' = answer[f]
            /\ loaded' = TRUE
            /\ stale' = (f \in passed)
            /\ UNCHANGED <<story, halfway>>
    /\ Hydrated(f, FALSE)
    /\ UNCHANGED <<server, sockets, received, form, heard>>

\* One after a turn that fails changes nothing; one at the start ends the hydration.
FetchFails(f) ==
    /\ f \in AtStart
    /\ fetch[f] = "sent"
    /\ Over(f)
    /\ Hydrated(f, TRUE)
    /\ UNCHANGED <<server, sockets, view, form, heard>>
----------------------------------------------------------------------------
ServerStep(t) == Accept(t) \/ Reject(t) \/ Resolve(t) \/ Tell(t) \/ NeverTell(t)
Serve(c) == Connect(c) \/ Greet(c) \/ Disconnect(c)
Fetch(f) == Answer(f) \/ ApplyAnswer(f)

PageNext ==
    \/ StartSession \/ RenewToken \/ Receive
    \/ \E c \in Conns : Break(c) \/ Serve(c) \/ Drop(c)
    \/ \E t \in Turns : Submit(t) \/ ServerStep(t) \/ AnswerAccepted(t) \/ AnswerError(t)
    \/ \E f \in Fetches : Fetch(f) \/ FetchFails(f)

PageSpec == PageInit /\ [][PageNext]_pageVars

\* Server, network and page go on with what has begun; only the player may stop.
Progress ==
    \/ Receive
    \/ \E t \in Turns : ServerStep(t) \/ AnswerAccepted(t) \/ AnswerError(t)
    \/ \E c \in Conns : Serve(c)

PageFairSpec == PageSpec /\ WF_pageVars(Progress)
----------------------------------------------------------------------------
Words == [turn : Turns, event : {"turn.resolved", "turn.failed"}]

PageTypeOK ==
    /\ turn \in [Turns -> {"unsent", "posted", "rejected", "running"} \cup Fates]
    /\ announced \subseteq {t \in Turns : turn[t] \in Fates}
    /\ hub \subseteq Conns
    /\ endpoint \in [Conns -> {"none", "greeting", "listening", "ended"}]
    /\ line \in [Conns -> {"none", "dialing", "open", "closed"}]
    /\ wire \in [Conns -> Seq(Words)]
    /\ fetch \in [Fetches -> {"none", "sent", "answered", "over"}]
    /\ answer \in [Fetches -> SUBSET Turns]
    /\ socket \in Conns \cup {NoConn}
    /\ posting \subseteq Turns
    /\ owner \in Turns \cup {NoTurn}
    /\ shown \subseteq Turns /\ story \subseteq Turns
    /\ heard \subseteq Turns /\ received \subseteq Turns
    /\ passed \subseteq Fetches
    /\ hydrating \in BOOLEAN /\ pending \in BOOLEAN /\ gaveUp \in BOOLEAN
    /\ loaded \in BOOLEAN /\ stale \in BOOLEAN /\ halfway \in BOOLEAN

\* A socket that the page holds open and the server listens to is registered: an older
\* socket that disconnects, fails in a send or was left behind by a failed greeting never
\* takes the new one with it.
HeardWhileOpen ==
    \A c \in Conns :
        line[c] = "open" /\ endpoint[c] = "listening" => c \in hub

\* The state on the page has every turn whose result it has received, unless an answer that
\* a result had overtaken was applied last; and so has the story.
ShowsWhatItWasTold ==
    /\ loaded /\ ~stale => received \subseteq shown
    /\ ~halfway => received \subseteq story

\* As long as the page never gave up on a request, the form is unlocked by the final word of
\* the turn that locked it, and not by that of another.
UnlockedByOwn ==
    [][pending /\ ~pending' /\ ~gaveUp'
          => /\ turn[owner] \in Fates
             /\ owner \in announced
             /\ \A t \in Turns \ {owner} : turn[t] \in Fates => t \in announced]_pageVars

\* The final word of t can no longer reach the page.
Missed(t) ==
    /\ t \in announced
    /\ t \notin heard
    /\ ~\E i \in 1 .. Len(wire[socket]) : wire[socket][i].turn = t

\* A locked form is unlocked, unless the final word of its turn was missed.
UnlockedUnlessMissed == pending ~> (~pending \/ Missed(owner))
=============================================================================
