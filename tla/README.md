# Verification of GESTALOKA

TLA+ models of GESTALOKA v2, TLC runs on small instances, and TLAPS proofs for all
instances. GESTALOKA is a narrative MMO: players act in free text, a council of
model-driven game masters proposes what happens, deterministic code decides what of it
becomes canonical, and an execution budget (SP) pays for the model calls. Paths below are
relative to the repository; `app/` is `backend/app/`, and files without a directory are in
`app/modules/world_state/` or where the component table says.

## The system

One `uvicorn` process serves HTTP and WebSockets. Other processes project outbox rows into
a graph store, let idle worlds go on, and evaluate releases. PostgreSQL at READ COMMITTED
is the canonical store, used through SQLAlchemy sessions with
`autoflush=False, expire_on_commit=False` (`app/core/db.py`). `async` handlers run on the
event loop, `def` handlers and turn workers in threads. There is no version column on any
row and few explicit locks.

| Component | State | Operations | Hard part |
|---|---|---|---|
| Execution budget, `modules/economy_sp` | `sp_accounts` row (paid, bonus, total), `sp_ledger` | wallet read, purchase, adjustment, debit, refund | transactions that overlap; first creation of the row |
| Turn pipeline, `api/routes/turns.py`, `modules/session/turn_manager.py` | `turn_resolution_jobs`, `turns`, events on the wire | accept, attempt, retry, relay, report | three activities per turn, lost commits, failing sends, crashes |
| AI GM turn, `modules/session/service.py`, `modules/gm_council` | player position, items, quests, world tables | plan, propose, review, repair, fall back, apply | the review and the application read at different times; what the models are told and what is tested are different reads |
| World state, `service.py`, `scene.py` | quests, chapters, scenes, items | quest lifecycle, rewards, travel, item use | concurrent turns; long sequences of offers and resolutions |
| Consequences, `consequence.py`, `shared_consequence.py` | threads, relationships, world axes, history | open, raise, cool, resolve; apply rules | read-then-write without locks; rows taken in several orders |
| Timeline, `timeline.py` | sequence counter, broadcasts and deliveries | canonicalize, broadcast, consume | order of commits; deliveries inserted by two |
| Ambient world, `ambient.py`, `scheduler.py` | NPC positions, profiles, ticks | due worlds, idle passes | a process of its own; state read before a wait |
| Session bootstrap, `api/routes/sessions.py`, `worlds.py`, `modules/actor` | profiles, sessions, actors, world seed | register, patch, start, resume, seed | concurrent starts; content that changes |
| Player client, `frontend/src/hooks` | pending flag, state and story shown | submit, receive, fetch, reconnect | missed events, timeouts, answers out of order |
| Realtime hub, `core/realtime.py`, `main.py` | socket lists per session | connect, emit, disconnect | lists change during an emission |
| Graph projection, `modules/graph_projection`, `worker.py` | `outbox_events`, graph store | poll, retry, project at a session start, rebuild | several writers, a failing store, crashes between store and commit |
| World packs, `modules/world_pack`, `api/routes/admin.py` | files, two registries, overrides, preprocess runs, seeded rows | create, import, load, preprocess, publish | files and registries shared by threads; a gate that reads before it writes |
| Release gate, `modules/eval_harness` | routing files, reports, progress | checklist, checks, snapshot, promotion | late runs, files edited meanwhile, lost commits |
| Model router, memory, localization, identity, observability, admin pages | caches, rows, metrics | | outside the game's core state |

How they interact: `POST /turns` debits SP and books a job in one commit, then starts a
task that runs the resolution in a thread. The thread's last commit writes the Turn,
its event, the outbox row, the world changes and either the job's success or the
refund. The task relays progress and sends the final event through the hub. The
projection worker reads the outbox. The client changes its pending state on the final
event or on an error of its request. Idle passes and the starts of other sessions write the same NPCs,
threads and chapters as turns do. What the rules of a turn may change was seeded from the
files of a pack by a preprocess run; which models answer is what the last promoted
release file says.

## Modules

| Module | Models | Program |
|---|---|---|
| `SpRules` | arithmetic of a wallet: normalisation, split of a debit, reversal, acceptance | `economy_sp/service.py` |
| `SpWallet`, `MCSpWallet` | one player's account and ledger under concurrent transactions | `economy_sp/service.py`, the routes that call it |
| `TurnSettlement` | abstract: what is promised about a turn's charge | |
| `TurnPipeline` | a turn from `POST /turns` to its last event; refines `TurnSettlement` | `turns.py`, `turn_manager.py`, `session/service.py` |
| `TurnReview`, `MCTurnReview` | context, planning, review and application of a player's turn, two turns at a time | `session/service.py`, `gm_council/service.py`, `service.py` |
| `QuestLifecycle`, `MCQuestLifecycle` | the quests of a player: resolution, reward, epilogue, focus, proposals, the current chapter, for turns and idle passes | `service.py`, `scene.py`, `session/service.py` |
| `Consequences` | consequence threads and relationships of a player, for turns and idle passes | `service.py`, `consequence.py`, `shared_consequence.py`, `ambient.py` |
| `WorldCanon`, `MCWorldCanon` | numbering of the timeline, a world axis, broadcasts and their deliveries | `timeline.py`, `shared_consequence.py`, `session/service.py` |
| `IdleWorld`, `MCIdleWorld` | the scheduler, idle passes, the seed's effect on NPCs | `ambient.py`, `scheduler.py`, `actor/service.py` |
| `PlayerEntry`, `MCPlayerEntry` | profiles, session starts, the seed of a newcomer | `session/service.py`, `worlds.py`, `service.py` |
| `PlayerClient` | the page, its sockets and fetches, the hub | `useGestalokaRuntime.ts`, `realtime.py`, `main.py` |
| `GraphProjection` | outbox, worker, retries, rebuilds, the graph | `graph_projection/service.py`, `worker.py` |
| `PackContent` | files of a pack, the loader's validation, seeded rows | `world_pack/service.py`, `preprocess.py` |
| `PackLifecycle`, `MCPackLifecycle` | creation, import, preprocessing, publication; uses `PackContent` | `world_pack/service.py`, `preprocess.py`, `admin.py` |
| `ReleaseGate`, `MCReleaseGate` | checklists, evaluation of a case, promotion | `eval_harness/service.py`, `llm_harness/service.py` |
| `SpWalletProofs`, `TurnReviewProofs`, `QuestLifecycleProofs`, `GraphProjectionProofs`, `WorldCanonProofs` | theorems and proofs about the module of that name | |
| `ServerProofs` | about `TurnPipeline`, `ReleaseGate`, `IdleWorld` | |
| `PlayerProofs` | about `PlayerEntry`, `PlayerClient` | |
| `ContentProofs` | about `PackLifecycle`, `PackContent`, `Consequences` | |

Components that share a proof module share no state; their invariants are told apart by
their names (`Page...`, `Entry...`, `Gate...`, `Idle...`, `Thread...`). `PROJECT.json` maps
every definition to its lines. Definitions marked "Fault" are plausible bugs of the code;
replacing the definition named in `mutants` by them must break the property named there.

### SpWallet

A transaction `t` goes `idle -> load -> (insert ->) apply -> commit -> done`.
`LoadAccount` is the SELECT of `_ensure_account`; `view[t]` is the copy the ORM keeps.
`CreateAccount` and `LoseInsertRace` are the two ends of the savepoint: PostgreSQL makes
the second INSERT of a key wait for the first, so it either succeeds or meets a
committed row. `Apply` is the whole of `_apply_bucket_deltas` up to its flush: the
UPDATE waits for the row lock but does not compare what it overwrites, and `Stored`
writes only the columns whose value changed since the load, because that is what the
ORM puts in the statement. `Commit`, `Refuse` (409, 422) and `Abort` (any failure, or
the server stopping) end it. Debits do not overlap each other, because `POST /turns` is
`async` and runs them on the event loop without an `await` between load and commit;
everything else does overlap. `status` is the turn's fate as the pipeline sees it and
decides which debits and refunds may start.

`booked` (sum of the ledger) and `lost` (columns a commit overwrote without having
loaded their value) are history variables: no action reads them. The last word on lost
updates is `BooksBalance`: the program does lose them. A refund that loads the account
before a new turn is debited overwrites this debit; and a row whose buckets are both 0
while its total is not, as a lost update may leave it, is taken by
`_normalize_account_balance` for a row of an older release and its total becomes bonus SP.

### TurnPipeline and TurnSettlement

Per turn: `request` (the handler), `worker` (the thread of
`TurnResolutionManager._resolve_work`), `task` (`_resolve_turn_background`). `Accept` is
one commit: debit and job. `Launch` is one step because nothing else of this turn runs
between the event and `create_task`. The worker's steps are its commits:
`StartAttempt` ("running"), `Resolve` (all of the resolution), `MarkRetrying`,
`MarkFailed`. `ResolveUnheard` is a commit whose answer is lost: the error has no
SQLSTATE, so `_is_retryable_db_error` refuses a retry and the job of an applied turn is
marked failed. `Raise` covers every exception before the commit; whether it is of the
retryable kind is not known, so both continuations are there. The task relays the
queue, adds heartbeats, and then either sends the error or localizes, persists the
text, sends the results and announces the turn. `Die` is an exception from any of
these: nothing catches it. `Crash` loses all activities and keeps the database; no code
resumes a job.

`TurnSettlement` knows two facts per turn, `fate` and `told`. The refinement maps a turn
with a resolved Turn row to `kept`, whatever its job says, and reads the ledger
otherwise.

### TurnReview

A turn goes `loaded -> planning -> asking -> review -> approved -> applied -> resolved`, by
way of `mending` (repair of an unusable answer) and `repairing -> second review` (repair
after an objection). `Load` keeps the player's row for the whole transaction, as the ORM
does; `Look` is the session state built from it, a later read: ways, usable items, who is
at the loaded place and who will be met at the end of each way. `Plan` is the planner: of
the references it picks, those the directory of the world resolves and the scene does not
show become cards. `DryRun` and `Apply` are the same harness with `apply_changes` off and
on: the first compares a narration with what the turn saw, the second looks up the road
again (from the loaded place) and reads the item again, records what fails and applies the
rest. Both look up where people are when they run. `Commit` publishes; the player's row is
written only when the harness moved him. A proposal is reduced to the claims the harness
tests: a place by a name and perhaps a key, people present, people addressed, items and how
often each is named, internal metadata. Names are compared as the alias index does it: by
parts of one another (`Within`), by what the pack calls a place, and by the translations met
so far. `Turnpike` and `Walk` are the effects of others: a gated road
(`_route_requirements_met`) opens or closes, an idle pass moves somebody. `stale` is a
history variable.

`ToldIsAccepted` is about names that are part of no other place's name (`Plain`). The pack
`ashlight_frontier` has others: an alias of its hub is part of the full names of places
next to it (`Lampfort`, `Lampfort Outer Gate`), so a narration that claims such a place is taken
to be at the hub already and the player stays, although the comment at
`session/service.py:1588-1596` wants him moved. And the fallback narration, which is not
reviewed, says that the player stays; if his own text names an exit, the application still
moves him.

### QuestLifecycle

A turn looks at quests and chapter when it starts, and minutes later applies the answer
in one transaction: `found -> (touching ->) granting -> (retouching ->) resolved`
(`apply_active_quest_resolution`), `-> leaving | resuming -> directed`
(`apply_quest_lifecycle_directive`), `-> following -> proposed`
(`_evaluate_and_create_dynamic_quest_offers`: a proposal of its own, then one that
follows a quest), `-> framing -> closing | reopening | rewording -> applied`
(`SceneFrameEngine.apply`), `Commit`. Every SELECT that decides something is a step before the
UPDATE it decides, because an UPDATE may wait for the row (`Free`, `FreeChapter`) and does
not look again. `draft`, `prize` and `chapter` are what a transaction has written and not
committed; `Seen` and `Chapter` are what it reads. Two UPDATEs change nothing but texts and are
there for the row they lock: that of an epilogue that is open when its quest is resolved
again (`Touch`, `service.py:2238-2242`) and that of a chapter whose summary is another one
(`RewordChapter`, `scene.py:632-640`). When the reward is there already, quest and epilogue
are written in one flush, in an order that the ORM chooses: either is allowed. The item and the epilogue have unique keys (`MayInsert`,
`MayOpen`): meeting them is an IntegrityError, which fails the turn. A proposal that
resembles an offered quest is merged into its row (`FindSimilar`, `Merge`); how alike two
texts are is left open, so any offered quest may be the one. An idle pass of the world
scheduler, in its own process or by way of the ops route, is an actor of its own: it builds
the session state (`LookAtWorld`), asks the models, and frames the scene with what it saw
before; it touches no quest.

The scene step resolves a chapter the session state does not know and activates the one
it knows. The packs leave `opening_chapter_key` and `followup_chapter_key` empty, so the
epilogue is the only chapter there ever is.

No caller reaches `accept_quest`, `decline_quest`, `ignore_quest` or the resolution hint,
so offered quests never become active, `superseded` and `declined` do not occur, and only
the seeded quest has an epilogue. It also means that the first offered quest is the last
one: `create_dynamic_quest_offer` drops or merges every other proposal while it is offered,
which ADR-003:27 and :39 (no new soft lock) do not intend.

### Consequences

Per player: threads of three kinds, and a relationship per NPC. A turn (`Evaluate`) reads
what is in the air and lets the rules decide; it writes a relationship (`WriteBond`),
matches or inserts a thread (`Match`, `Insert`, `Update`), counts the active ones (`Count`)
and cools the oldest above the cap (`Cool`), then applies a rule of the pack (`RuleBond`).
An idle pass does so for at most one thread and one relationship on its way through two
NPCs (`Beat`). Every read sees what is committed by then, every UPDATE waits for its row,
no lock is taken first; jobs that wait for each other in a circle end through PostgreSQL's
detection of deadlocks only (`EndDeadlock`). The standing with a faction, a row of the
same sort, is left out.

### WorldCanon

A turn: `Load` and the deliveries it finds missing (`Look`, `InsertDelivery`), `Tell` (what
binds the models), `Think`, `ReadAxis` without a lock, `WriteAxis` at the flush, `NumberTurn`
under the counter's lock, deliveries of its own broadcast, `Commit`. The start of a session
takes numbers too and delivers what is active at the starter location. The unique key of
a delivery makes a second insert wait and then fail (`Violate`), which is not retried;
a deadlock is, up to `MaxAttempts`. Resource locks are reached from the unreachable
narrative path only.

### IdleWorld

`TimePasses` makes a world due; `FindDue` and `Trigger` begin passes, `LookAbout`, `Pick`,
`Lock` choose a place, two NPCs and lock their profiles by id; `Walk` and `WriteWalk` move one
of them. What a pass read of an NPC before it waited for the lock stays in memory. `Meet` to
`SettleProfile` are the seed of another player's first session, which takes every NPC home
and writes NPC and profile in the opposite order. A failing pass ends the scheduler's
process, which has no restart policy (`RestartScheduler` is an operator). A pass an operator
asks for runs on the event loop of the server; what it blocks there is not modelled.

### PlayerEntry

`Register` and patches keep profiles; a start reads the profile (`ReadProfile`,
`ReadOwnProfile`), looks for the player's seed (`FindSeed`), waits for the advisory lock of
the world's seed (`LockSeed`), looks again and inserts what is missing (`SeedOnce`), looks for
an active session (`FindSession`) and commits: a session, the opening scene (no
chapter: the packs leave `opening_chapter_key` empty), the introduction, the locked identity,
the place. Other content may become active at any time
(`Activate`). Nothing in the schema keeps a player from two active sessions; what does is that
the session is looked for under the lock of the seed, or with a seed that was committed
before. Facts met on the way: a patch that was admitted before the first start committed
changes an identity the world has been told; a player who was seeded gets none of the
quests a new content brings; idle passes frame the scene with the place they read at
their start, so they may take the open scene back to where the player no longer is.

### PlayerClient

Server side: a turn's fate (`Accept`, `Reject`, `Resolve`) and its one final word (`Tell`,
`NeverTell` when an earlier send raised). Hub: `Connect` registers and then greets, `Send`
reaches some sockets and may raise; `Unregister`. Page: `Dial` closes the former socket,
`Submit` locks the form, `AnswerError` (rejection, timeout, network) frees it without knowing
what became of the turn, `ReceiveResolved` merges a result and fetches the state,
`ApplyAnswer` overwrites what is shown. A socket that closes by itself is not reopened for
the same session and token: whoever misses the final word waits until the token is renewed
or the page reloaded, which is why `UnlockedUnlessMissed` says no more.

### GraphProjection

Five kinds of transactions write to a graph that takes part in none: worker (`Poll`), session
start (`StartSession`), preprocess run (`preprocess.py:257`; it acts as a session start does),
retry (`RetryFailed`), rebuild (`BeginRebuild`, `ClearWorld`). `Take` sets
a row to "processing" and loads its bundle as of the transaction's first view; `WriteBundle`
upserts. A bundle fails because the store does, or because the event is one the store refuses
(`unfit`, any set of the events in `Doubtful`), at once or half written. The failure is noted on the row
(`FailBundle`), ends a rebuild (`FailRebuild`), or rolls everything back (`RollBackPoll`,
`Abort`, `Die`). A fact met here: a worker's poll in which nothing is projected and nothing
embedded is rolled back with its "failed" rows (`worker.py:14-17`), so an event that cannot be
projected stays "pending" and is tried at every poll until another one is projected beside it. A session start that has projected its event and not committed is not seen
by others. Vertices and edges are upserted; only a rebuild deletes any, those of its world.

### PackContent and PackLifecycle

`PackContent` has a pack as tables of what mentions what, the loader's checks (`Sound` of the
schema, `AnchorsHold` and `PeopleHold` across the files, together `Fits`) and the rows a
world is seeded with (`Rows`). `PackLifecycle` has files, the registry of the container and the
active one of the module, overrides and the latest run, all shared by requests in threads:
`Remove`, `Copy`, `Check`, `ReadFiles`, `Activate`, `HandOver` for files, `BeginRun`, `Seed` (one
part), `Project`, `FailRun`, `CommitRun` for a run, `ReadPatch` with the gate and `CommitPatch` for publication, and `Restart`. Two
copies into one directory leave a mixture of versions, which may load or not.

A run is for the pack of the container's registry, whose hash it keeps, but each part it
seeds (`Parts`: places, routes, people, axes with factions, each quest) looks the active
registry up anew (`resolve_world_pack`), so an import that activates in between leaves a
world of two contents under one hash. `seed` and `built` therefore say for each part
which content it is from, and `Rows(c, s)` which rows come of it. `shaken` marks a run during
which another content was active. One part is taken with one look-up: that a part looks up
single words once more (a role, a default), and that `ensure_world` seeds places and routes
which the run seeds again, is left out. What a run read before it waited for another one's
lock may stay as that one left it (`MayKeep`).

Not asked by the loader, and so allowed: route ends that are no places (the route is left out)
and people without a home. Assumed (`ContentConstants`): ids within a table are different rows; two
locations of one id would share one. Seeds add and rewrite rows and never delete them;
knowledge and its events are replaced. Turns of sessions that exist apply the rules of the
version that was activated last. `Manifest` is the same for all versions: an import whose
manifest itself says public and playable passes no gate, then or in the model; what keeps an
unprepared one from the catalogs and from sessions is `Ready`, which `ListedIsBuilt` rests on.

### ReleaseGate

A checklist is one transaction in a thread of the server or in the main thread of a process of
its own. Every check loads both files again (`StartRun`), evaluates each case with either
(`Verdicts`, from `CasePassed`, `ResolveTurn`, `Execute`), and ends in time, late, by alarm
(main threads only) or by failure; `Conclude` adds the world health snapshot and the
canary and writes report and progress, `Commit` may be lost after the progress said
"completed". An operator edits the candidate, looks at the latest report, promotes it and
restarts. Facts: the routes of the release files do not name `session.turn_resolution`, so
the lane of a turn is the prompt's own `main_lane` for both (`RequestedLane`); files that
cannot be loaded leave the progress at "running" (`jammed`); a report is shown with the
difference of the files of the moment.

## Runs

Distinct states, rounded. Every run explores its instance completely.

| Run | Instance | States |
|---|---|---|
| `sp_wallet` | 3 transactions, 2 turns, cost 3, grant 2, one purchase amount, a withdrawal and a gift; symmetric | 68,000 |
| `turn_pipeline` | 2 turns, 2 attempts, 1 queued report, 1 crash | 224,000 |
| `turn_review` | 2 turns of one player, a town and a hall behind a gate, a clerk who walks, a token; a name that is part of another and a translation; 4 answers | 415,000 |
| `quest_lifecycle` | 2 turns and an idle pass, each any number of times; symmetric turns | 1,410,000 |
| `consequences` | a turn and an idle pass, one NPC, two kinds, cap 2 | 153,000 |
| `world_canon` | turns of two players and a session start, 3 places in a row, 1 broadcast, axis 0..2, 2 attempts | 283,000 |
| `idle_world` | scheduler, operator, newcomer, 2 NPCs of whom one walks, 3 places in a row | 184,000 |
| `player_entry` | 2 players, 3 starts, 1 patch, 2 names, 2 contents, 1 journey; symmetric | 178,000 |
| `player_client` | 2 turns, 2 sockets | 824,000 |
| `graph_projection` | 2 events, of which the older may be unfit, worker, session start or retry, rebuild, batch limit 1 | 849,000 |
| `pack_lifecycle` | 3 requests, 3 versions and 2 mixtures, 5 parts; symmetric | 638,000 |
| `release_gate` | 2 checklists of two threads and a main thread, 2 checks, 3 files, 1 edit; symmetric | 2,180,000 |

Wallet. `SignupOnce`: one sign-up entry, whoever wins the race and however
losers and aborted creators end. `TurnsBooked`: the ledger alone tells what became of a
charge, and a refund gives the same amounts back to the same buckets. `BooksBalance`:
account and ledger agree column by column unless a commit overwrote a value it had not
loaded.

Pipeline. `JobTellsFate`: job, Turn row and ledger tell one story. `ToldIsTrue`: the final
event agrees with the database and follows all progress. `FinalWord`: nothing changes
after it. `Settlement`: the refinement. `TurnsEnd`: every launched turn comes to rest.

Review. `AsReviewed`: what was approved is what happens, if nothing changed under the
turn; the unreviewed fallback included. `ToldIsAccepted`: a narration that repeats what
the models were told is not refused, if nothing changed. `OneStep`: an old view of the
world never moves the player over more than one road from where the turn loaded him, and a
turn that stays put writes no place, so it does not take back what another one moved. `NotUsedAgain`: a use that was committed before the application is respected (two
turns that overlap in the application do both use an item; its row is read without a lock).

Quests. `Settled`: one reward item, and an epilogue, from the first completion on,
however often the quest is reopened and resolved. `ReopenedLate`, `OneLive`, `ClosedLate`:
a resolution is taken back, a second quest goes live, an epilogue is closed, only by a turn
during whose application (not its minutes of model calls) another job committed, or by an
idle pass during which one did. `NobodyStuck`: with one offered quest at most, any set of jobs
without a turn that resolves a quest again (`Again`) has one that waits for none of them. Such a
turn must be excepted: it holds the epilogue's row and goes on to rows that others take before
the chapter's; TLC finds the circle without the exception, and in the program PostgreSQL ends it
by failing one turn.

Consequences. `DoubledLate`: a second thread of a kind appears only by a job that another
one overtook. `AtMostCap`: whoever raises a thread and was not overtaken leaves at most the
cap, however many earlier overlaps had left.

Canon. `NumberedInOrder`: what a commit makes visible carries the numbers that follow, each
once. `AxisExplained`: the axis is what the applied rules make of it, unless a turn wrote
over a value it had not read. `Informed`: a turn is told every broadcast that was active for
its place when it began.

Idle world. `TrueToRoutine`: a job nobody overtook leaves its NPCs where their profiles say,
and moves one by one open road. `Visited`: a quiet world is visited while the scheduler lives.

Entry. `EnteredOnce`: one session, one of each seeded row, and all rows of a newcomer.
`ToldTruly`: what the world was told of a player is so, unless a patch overlapped his first
start. `StaysInWorld`: resuming does not move him.

Client. `HeardWhileOpen`: an open socket stays registered whatever others do. `ShowsWhatItWasTold`:
no received result is lost from the page except to an answer it had overtaken.
`UnlockedByOwn`: only its own turn's word frees the form while the page has given up on no request.
`UnlockedUnlessMissed`: the form is freed unless the word was missed.

Graph. `ProjectedInGraph`: "projected" rows are in the graph unless a rebuild has broken off
or is under way. `FreshUnlessOvertaken`: the graph shows the newest state unless the last writer was
overtaken. `Drains`: while the store is up and the worker alive, nothing but what the store refuses stays
pending, so an event that cannot be projected does not keep the others back.

Packs. `RegistriesShowFiles`, `ListedIsBuilt`, `PublishedWhenReady`: registries show the files,
every part of what players enter is seeded from it and the whole holds every row its rules
change, and no patch makes a template public unprepared; each unless changes overlapped where
the code takes no lock. For `ListedIsBuilt` that is two runs at once, or another content
active while the run seeded (`crossed`); TLC finds the mixture when the second is not excepted.

Release. `VerdictEarned`: "passed" stands on a timely, passed run for every check.
`ProgressTells`: the progress record never shows what has gone. `PromotedAsJudged`: what is
promoted is what every check compared, if no file changed.

Bounds. Every hazard here is a matter of one actor's reads and another's commit, so two of
a kind, often repeated any number of times, and one of each other kind make it happen; the
theorems are for any number. Named bounds: `MaxAttempts` (a retry and its exhaustion; three
were run once, 494,321 states), `MaxQueue`, `MaxCrashes`, `MaxTurns`, `MaxConns` (a socket and
the one that replaces it), `MaxTravels`, `Limit` (1, so that the second event is beyond the
batch of a session start), `Doubtful` (the older event, alone in a batch, before the other or beside it;
with both, 1,471,332 states, the run holds too but takes too long to repeat), `MaxEdits`, `MaxBegun`. Losing an update of the wallet takes three
transactions; cost and grant are such that a purchase makes a debit take from both buckets. The
idle pass of `quest_lifecycle` is the third actor it takes to close an epilogue while the
quest is reopened and resolved again, which then meets the closed chapter's key
(`EpilogueTaken`). Two places cannot show "more than one road" in `turn_review`; the theorem
does. Runs with liveness use no symmetry. `CHECK_DEADLOCK FALSE` stands where requests
may all have been made.

Fairness. Pipeline: the event loop runs ready tasks, the pool runs workers, and an attempt
ends, since every model call has a timeout (`core/config.py`). Reports, heartbeats, crashes
and requests are not assumed. Client: server, network and page go on with what has begun
(`Progress`, as a whole); the player may stop. Graph: the worker polls for ever, what has
begun goes on, and PostgreSQL ends deadlocks; that the store stays up and the worker
alive is a hypothesis of `Drains`. Idle world: the scheduler's loop comes back
(strong, since a world may be due and not due in turns), a row others keep taking is
handed to its waiters in turn (strong fairness of `JobStep`), and deadlocks are ended.

## Proofs

Every safety and action property of the runs is a theorem, for any number of turns,
transactions, requests, players, places, files and models. All are invariance or
step-simulation arguments from the named assumptions on the constants (`WalletConstants`,
`PipelineConstants`, `ReviewConstants`, `QuestConstants`, `ConsequenceConstants`,
`CanonConstants` with `NoneIsNoKey`, `IdleConstants`, `EntryConstants`, `ClientConstants`,
`GraphConstants`, `ContentConstants`, `PackConstants`, `GateConstants`), which say that sets of
actors are disjoint, that a marker is no value, and that figures are in range; the
content of a pack is any well-formed table. Type correctness of every module is proved and
not run on its own. A recurring form: what a transaction has read is true as long as nobody
else committed, the history variable `late` (`stale`, `overlaps`, `alone`, `touched`) says whether one
did, and the invariant relates the two.

`SpWalletProofs`. `WalletTypeOK` is inductive: a column of the account never goes below zero
although `Stored` mixes columns of different transactions; each column comes either from an
accepted draft or from the row. `WalletBooksBalance` needs `BookInv`, which says of each
transaction on its way that a creator holds the lock and works on a fresh row nobody else
sees, that any other one copied a committed row which was sound while nothing was lost, and
that its draft differs from its copy by the deltas it will book; the commit then moves row
and ledger by the same amount (`CommitBalances`). `SignupOnce` is `GrantInv`: the grant and the
row appear in one commit. `TurnsBooked` is `TurnInv`: what a transaction may be about
(`TurnTx`), that a charge and a refund of a turn exclude one another (`Exclusive`), and that
`status` and ledger agree (`Booking`), so no sums or cardinalities have to be computed.

`ServerProofs`, pipeline. `IInv` describes one turn: `Requested`, `Worked`, `Settled`,
`Followed` and `Told` relate the three activities to the database. None of the properties
is inductive alone: that a refund is announced only after it is in the ledger needs what
is known of the task while it reports, which needs what the worker left behind when it
returned. From `IInv` follow the invariants, `FinalWord` (a step of another activity of the
same turn is no longer enabled) and `Settlement` (each step charges, settles, tells, or
leaves both facts alone: `StepSettles`).

`ServerProofs`, release gate. `GateInv`: passed rows came in time (`RowsInv`), a report is
written when every check is done (`StageInv`), untouched checklists have read one pair of
files throughout (`OnePairInv`), the progress (`ProgressInv`) and what the operator has seen
(`SeenInv`). `EndsInv` says once what the end of some transactions leaves of it.

`ServerProofs`, idle world. `IdleInv`: a pass has read the place of every NPC it deals with,
and the NPC is there or, if it walks, one road away (`PassFits`, `PassTrue`); the seed has taken home
what it has written (`SeedFits`, `SeedTrue`). That the profiles are locked in the order of
ids needs that a set of ids has a least one (`FirstIsOne`, by well-foundedness of `<`).

`TurnReviewProofs`. `IInv` says of one turn how far its view can be trusted (`Sight`: the
loaded place is current until another turn of the player commits, what was seen is true
until anything changes, the roads it saw exist), what approval guarantees (`Approved`)
and what an application did (`Applied`, `Kept`). `ApplyKeepsReview` is the heart: dry run
and application are different computations, and agree when nothing changed. `ToldIsAccepted`
needs `PlainMatch`: a plain name is matched with its place whatever key comes with it and
however "longest" is chosen.

`QuestLifecycleProofs`. `IInv` adds to the types `Sound` (`Settled`; the seeded quest is never
offered; one transaction at a time has written a quest's row, `Alone`), and says of each job
what it may have written (`Rows`), how that relates to item and epilogue (`Paid`: a
completion brings both or finds both), and that what it read still holds while it is not `late`
(`Fresh`). `Settled` is not inductive: that a commit adds no second item needs `Paid` of the
committing turn, and `Paid` of the others needs `Alone`. The action properties follow from
`Fresh`. That a chapter's row has one writer at a time is `OneAuthor`. `NobodyStuck` follows from the
order of the rows: the seeded quest's, an offered one's (`WaitsForOffer`), the chapter's: whoever holds that
and has more to write has just inserted the epilogue, of which nobody else knows, or is an
`Again` (`HeldRows`). With two offered quests
it is false: two turns can merge into them crosswise, and PostgreSQL fails one.

`GraphProjectionProofs`. `ShapeInv` ties the local state of a transaction to its stage;
`GraphInv` says that what is projected, or about to be committed so (`Claimed`), is in the graph, or
among what the rebuild under way has still to do; `FreshInv` that whoever was not overtaken
sees all that is claimed.

`WorldCanonProofs`. `NumberInv`: one transaction counts at a time, all visible numbers are
below the counter, and a counting one's follow them. `AxisInv`: one transaction at a time has
written the axis, and what another read is still there unless it is `late`. `DueInv`: every broadcast due
has a delivery or is on the list of what the turn still has to see to.

`PlayerProofs`. `EntryInv`: one holder of the lock, its rows are new, whoever creates a session
does so under the lock for a player who has none and is seeded (`Seeds`), and rows of a player
exist only with his session (`SeededHere`). `ToldInv`: what a start knows of its player is true, and no
patch is on its way to a player the world was told of, unless they overlap. `PageInv`: which
sockets are in use and registered (`SocketInv`), that words are true and answers contain
what was received before (`TruthInv`), and that at most one word is under way, that of the turn that
locks the form (`UnlockInv`).

`ContentProofs`. `FilesInv`: a request alone with the files has brought the registries so far;
`RunInv`: a run alone with the world is the latest (`RunAlone`), what it has seeded is its own content
in every part as long as no other became active (`RunSteady`), and what it wrote is what is there;
`BuiltShape`: a world has all of its structure or none; `GateInv`: nothing
has changed since the gate of a patch that is alone was asked; and `FittingResolved`: whatever the loader
accepts, the seeds make every row that its rules change. `ThreadInv`: a job changes one
thread (`OneThread`), writes committed rows or its own (`OwnRows`), has seen no rival of what it inserts
(`Unrivalled`) and has counted (`Counted`), while it is not `late`.

Only model-checked, because the prover has no rule for fairness or ENABLED: `TurnsEnd`,
`Drains`, `UnlockedUnlessMissed`, `Visited`.

## Not modelled

- Entity drafts of an answer. `session/service.py:2903` calls `item.to_update_payload()`,
  `MaterializedEntity` (`entity_generation.py:27-46`) has only `payload()`: a public turn whose
  answer carries an entity draft that is materialized raises and fails, although the prompts ask for
  drafts. No model is needed for that; the tests call `materialize_entity_drafts` directly.
- Claims about the player's own state; standings, titles and history records; memories
  and their retrieval; murmurs and wording of idle passes.
- Locks on text-only updates: a preprocess run that is repeated deletes its own timeline entries,
  a turn updates the status of deliveries it has shown. Their deadlocks are `Abort` or `Fail`.
- Several worlds in one transaction of the scheduler; what a synchronous idle pass blocks on
  the event loop; time in general.
- Code nothing reaches: the narrative path of `session/service.py`, `gm_council` resolution
  of choices, `AmbientWorldPassService.run`, resource locks, the branch engine for the packs there are.
- Preferences, icons, localization, prompts, providers, payload coercion, single evaluation
  runs, pack export, admin forms, telemetry, identity, the event log (one insert inside the
  turn's transaction).

Not tied together: the modules share no variables except where one EXTENDS another; each
takes from the others what they do to its state as actions of its own (other turns in
`TurnReview`, the seed in `IdleWorld`, a new content in `PlayerEntry`). A composition of
`TurnPipeline` with `SpWallet`, and of `TurnPipeline` with `PlayerClient`, would show that `status` and
`Fates` are the pipeline's.
