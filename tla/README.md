# Verification of purecheckers

A TLA+ project about the server in `src/server`, the rules and searches in
`src/shared`, and the protocol-bearing parts of the client in `src/src/lib`:
models that TLC checks on small instances, and theorems about them that TLAPS
checks for every value of the constants.

## 1. The system

purecheckers plays checkers between people, and between people and bots. One
Node process owns all gameplay at a time; PostgreSQL holds everything that must
survive it. The process keeps *projections* of durable rows (rooms, games,
results, sessions) and changes them only after a transaction has committed. The
difficulty is in the gaps: between a decision and its commit, a commit and its
response, a response and its installation, a timer firing and the evaluation of
what it asked for, one process and its successor. The client has gaps of its own:
a request and its answer, with an account change, a navigation or a newer answer
in between.

| Component | State | Operations | Interacts with | Hard behaviour | What makes it correct |
|---|---|---|---|---|---|
| Gameplay ownership (`services/gameplayOwnership.js`) | generation in `GameplayOwner`, owner object in the process | claim, fence every transaction, watch, lose | every gameplay transaction | a superseded process with a transaction in flight | only the newest generation writes |
| Durable transitions (`services/gameTransitions.js`, `domain/gameCheckpoint.js`) | `GameRun`, `GameCommandReceipt`, `GameSettlementJob`, `GameResultRecord`, `ActiveGamePlayer` | commit with expected revision and command identity; recovery read | live games, settlement, results | lost responses, repeated and reused command identities, rereads, stale views | one history of checkpoints, each command once, terminal records together |
| Live games (`domain/games.js`, `gameRecovery.js`, `lifecycle.js`) | `GameRoom`: engine, clocks, queue of transitions, ending promise, reveal and recovery deadlines | moves, resignation, draws, clock ticks, bot turns, forfeits, reveal, restart pause | sessions, transitions, bots, rooms | timers against queued commands, coalesced endings, failing commits | no timer is lost, a paused game stands still, endings are neither lost nor doubled |
| Rooms (`domain/rooms.js`, `roomRuntime.js`, `roomState.js`, `roomRules.js`, `services/roomRecords.js`) | `RoomRecord`, `ActiveRoomMember`, projection and queue per room | create, join, ready, settings, kick, spectate, invite, challenge, leave, expire, reconcile presence | sessions, game starts, quick play | lost responses, departure against start, stale terms | one seat per person, consent is to the terms on the table, absences end |
| Game starts and restoration (`services/gameRuns.js`, `gameMembership.js`, `gameRestoration.js`, `domain/roomRestoration.js`) | `GameRun` with a creation key, seats, reserved stakes | create, abort, install, restore at startup | rooms, wallets | crash between stake and game; the same start twice | stakes get a game or come back |
| Settlement and economy (`services/gameSettlement.js`, `settlementRecovery.js`, `vault.js`, `coins.js`, `economy.js`, `walletActions.js`) | terminal jobs, wallets, vault, pending payouts, receipts | settle, retry, pay a bounty, claim a pending payout, buy, tip, equip | transitions, starts, shop | retries after lost responses, empty vault | coins are conserved, each job and each action counts once |
| Results and rematches (`services/resultRecords.js`, `domain/resultState.js`, `resultRuntime.js`) | `GameResultRecord`, `ActiveResultViewer`, expiry and retry timers | request a rematch, dismiss, expire, resume, cancel | games, rooms, sessions | expiry against a rematch being created | both consent, no viewer is stranded |
| Quick play (`services/quickPlay.js`, matching in `domain/games.js`, `createQuickPlayRoom`) | pool of searches, claims on exact entries | search, cancel, pair, restore or finish a claim | sessions, rooms | cancellation and renewal while pairing waits for the database | nobody is paired twice or lost from the pool |
| Sessions (`domain/sessions.js`, `sessionCommands.js`, `sessionWork.js`, `snapshots.js`) | phase, context, connection, timers, queue and receipts per user | connect, disconnect, change phase, dispatch | everything a player does | replaced connections, stale contexts, nested queues | commands act in the context they were sent from |
| Command transport (`socket/commandRouter.js`, `socket/index.js`, client `sessionClient.js`) | one outstanding command, receipts per session, newest snapshot | send, retransmit, acknowledge, recover | sessions | lost acknowledgements, new connections, restarted server | at most once per process, old snapshots never win |
| Gameplay work and shutdown (`services/gameplayWork.js`, `server/index.js`) | lifetime of the owner, pending work | admit, retry, drain | every queue | work admitted while stopping | nothing runs under a later owner |
| Client journals (`lib/actions/journal.js`, `lib/puzzle/journal.js`) | one saved intent per account | start, retry, change account | HTTP services with receipts | unknown outcome, replies after an account change | an uncertain action is neither forgotten nor doubled |
| Accounts (`server/routes/auth.js`, `services/guestCleanup.js`, `guestIdentity.js`, client auth store) | user rows, guest expiry, the token and profile of a page | visit, renew, convert, retire, sign in and out | every request | late answers, a guest returning at its expiry | active accounts are kept; a page never shows another account's profile |
| Navigation and reads (`lib/navigationController.js`, `gameLogFeed.js`, ...) | screen, address, invitation, the last reading of each view | open, follow, dismiss, read again on a hint | transport, HTTP | answers that arrive after the player moved on | the screen follows the session, a view is never left stale |
| Puzzles (`shared/puzzle*.js`, `services/puzzle*.js`, `lib/puzzle`) | calendar, attempts, rewards, journal | mine, publish, attempt, reveal, reward | searches, accounts | two publishers, lost answers | one solution, one puzzle a day, progress is kept |
| Worker pool (`shared/workerPool.js`) | slots, queue, deadlines | run, cancel, time out, retire, close | bots, puzzles, previews | late answers, terminating workers, full queue | bounded threads, each job answered once |
| Rules and searches (`shared/game.js`, `ai.js`, `puzzleSearch.js`) | board, turn, counters; bounds of a search | legal moves, play, end; search | live games, bots, puzzles | forced captures, chains, pruning at the horizon | only legal positions; a pruned search gives the full value |
| Session notices (`services/sessionNotices.js`, `domain/notices.js`) | rows per account, a cursor in the session | append with a transition, read, apply, dismiss | sessions, transitions | readings applied late, dismissals without an answer | what was dismissed stays away, the latest is shown |
| Chat (`services/chat.js`, `socket/chatHandler.js`, `lib/chat/client.js`) | `ChatMessage`, one window of messages per browser | write, read pages, send again, merge | sockets, sessions | a page and events in any order, lost acknowledgements | a text is sent once, the window is current |
| Phantom players (`phantom/`) | a connection and a mirror of its game per phantom; one brain with locks, timers and breaks | come online and leave by sessions, search, open, join and leave rooms, play, talk | the server, as a client | connections that overlap, timers of what is over, events heard once per phantom | nobody searches, stalls or stays for ever; one phantom reacts to a message |
| Public pages, previews, presence statistics | their tables or none | record keeping and presentation | HTTP and sockets | | outside the game protocol |

`PROJECT.json` lists these parts with their sources, what of each is modelled,
and the hazards with the line where each bites.

## 2. The modules

| Module | Subject |
|---|---|
| `GameLedger` | abstract: what one game promises its players |
| `GameTransitions` | the commit pipeline of one game: database rows, several processes, repeated commands |
| `GameLifecycle` | one installed game: queue, timers, connections, endings, pauses |
| `GameStarts` | rooms, wagered starts, seats, stakes, settlement, restart |
| `Results` | a finished game's result, its viewers, the rematch |
| `SessionTransport` | a tab's commands, their receipts, snapshots, replaced connections and processes |
| `Rooms` | one room's members, terms, invitations, challenges, absences |
| `QuickPlay`, `AccountActions`, `WorkerPool` | searches for an opponent; actions with receipts and their journal; the thread pool |
| `Checkers`, `CheckersSearch` | the rules as operators; both searches against the full game tree |
| `PuzzleSelection`, `PuzzleCommentary`, `PuzzlePublishing`, `PuzzleProgress` | what a puzzle is; what is written about it; the calendar; attempts and the player's journal |
| `Accounts`, `Navigation`, `BrowserReads`, `Chat` | guest lifetimes and a page's identity; screens; views that are read again; the chat window and what is sent |
| `Sessions`, `ServerRuntime` | one session's phase, deadline and notice; a process from its start to the end of its shutdown |
| `Phantoms`, `PhantomChat` | the phantom players: what they do and what they say |
| `...Proofs` | theorems about the module of that name (section 4) |
| `MC...` | the constants of TLC's instances |

The models cut the system along its own seams. `GameTransitions` follows one
commit through every failure and takeover and leaves out why a commit is made.
`GameLifecycle` follows why and when, inside one process, with a commit reduced to
its decision and its response. `GameStarts` and `Results` cover what comes before
and after a game, with the game reduced to opening, play and an outcome. `Rooms`
covers what happens in a room when no start is in progress. They meet at durable
facts: the checkpoint, the terminal job, the run, the claims on a player.

In every model of the server a transaction is one step: it holds its rows
together. The awaits around it are the boundaries between steps, where everything
else interleaves. A transaction may fail, or commit without its answer arriving.

**GameTransitions.** `owner` is `GameplayOwner.generation`; `run`, `receipts`,
`job`, `result` and `seats` are rows of the database. Each process has its
generation, the revision and view of its `GameRoom`, and the head of
`GameRoom.transitions`: `step` walks through `commit` and `commitGameTransition`
(write, lost response, confirm by identity, reread, install). `Start` is
`restoreActiveGames` under a new generation, which writes the restart pause
before it serves. `Settle` is the settlement worker of any process. A move is its
ply and its command; the checkpoint is the list of moves, the generation of its
pause, and whether it is over. `ledger` is a history variable.

**GameLifecycle.** The queue of `commit`, the draft a transition decided on, and
the response that arrives, is lost or fails (`Decide`, `Land`, `LandUnheard`,
`Fail`, `Pass`, `Refuse`, `Conflict`). Sessions are connection numbers, so that
readiness and absence belong to one connection; `expiry`, `reveal`, `recovery` and
the clock are timers that fire at any moment they are armed. Bots move by
themselves.

**GameStarts.** Per room, the durable record and the process's copy of it
(`seen`), and the task at the head of the room's queue (`task`), walked stage by
stage through `startRoomGame`, `createGame`, `cancelRoomStart` and `leaveRoom`.
Money is counted coin by coin: wallets, vault, bounties, pending payouts.
`BootAbort`, `BootReset` and `BootUp` are the startup sequence of
`server/index.js`. All players are registered people and all rooms are wagered.

**Results.** The record, the claims of its viewers and the rematch's run are
durable; the copy, the queue of result work (walked await by await: refresh,
change, confirm, cancel, create, seat, install, settle), the sessions and three
timers are the process's. A person claimed by another room or game is `elsewhere`.

**SessionTransport.** A tab has one pending command; links break and are replaced, and
what is under way on one arrives in any order, which a socket does not even do. A server keeps a queue, receipts and an epoch per session.
An acknowledgement and the `sync:state` sent with it are one message, and at most
`MaxFlight` messages are under way on a link. A tab whose membership could not be
restored is disconnected by the server (`io server disconnect`), after which the
client library does not reconnect: its command stays pending until the page is
loaded again.

**Rooms.** `record` is the room's row with its members, readiness, terms, open
invitation or challenge; the copy and the queue of room work are the process's;
absences are noted in the row and expire by a timer. Starts are those of
`GameStarts` and are not repeated.

**QuickPlay, AccountActions, WorkerPool.** A search is a distinct entry of the
pool, which is a set: the code keeps it in the order of the searches, and the
entries carry that order. A pairing holds claims on two entries across the awaits of
admission. Work that concerns several sessions reserves all their queues at once
(`sessionWork.js`), so one sequence of work stands for all of them, and a piece of
work runs when nothing before it concerns one of its players. `AccountActions` pairs the tab's persisted intent with
the receipt the service writes in the transaction that does the work. A late
attempt of an action may arrive after a refusal was shown (`journal.js:68-70`);
the model has it. A request may also be turned away before its receipt is looked for, by a
token that has run out or an account that has retired (`ShutOut`); the journal then
drops the intent whatever became of an earlier attempt (`journal.js:70`), and the
property is about refusals by the rules of the action only. `WorkerPool` counts threads, including those that are still
terminating; its queue is a set too, of which the most urgent job is taken next.

**Checkers, CheckersSearch, PuzzleSelection, PuzzlePublishing.** `Checkers` is a
board of any size with the rules of `game.js`; the two searches are recursive
functions over the tree it generates, compared with plain minimax, with their
window, horizon, extension in chains and deepening; the budget of nodes is taken to be
large enough, so no search is cut short. Publishers plan
days under an advisory lock and replace what nobody has seen. A solution that is
refused because a position has two ways to win (`two-wins`) is refused
conservatively: the model says the same.

**PuzzleCommentary.** The themes of a puzzle and the statements of its commentary: which
pieces a turn removes, what is crowned or offered, which reply is forced, the material and
the choices on the board, how the game ends, and the sample lines of other moves. All of
it is taken from the search's own tree; the property replays the solution by the rules
of the game, draws included, and compares. The grade (`EASY` to `HARD`), the sentences and
the order of the sample lines are left out.

**Phantoms, PhantomChat.** `player` is `PhantomPlayer`, `brain` the locks and timers of
`Brain`, `sockets` every connection that was ever made with what is under way on it: a phantom
may have several, of which `this.socket` is the last, and each keeps its listeners.
`batches` are the runs of `_bringOnline`, which overlap when the rotation
comes again. The server is the environment the client was written for, which answers
requests, seats people and plays; the server of this repository has changed its
protocol since, so the two are not composed. Delays, personalities, the choice of a move and the
texts are nondeterministic. In `PhantomChat` each phantom hears each message on its own
connection, while what is said of it is decided by the brain they share.

**Sessions, ServerRuntime.** A session is its phase, its connection, the deadline of
its search and its notice with the cursor that says which reading came last. Notices
are read by different work and applied whenever that work gets there; a dismissal is
tried twice and its answer may be lost. `ServerRuntime` has the lifetime that
`gameplayWork.js` gives admitted work, the chores `server/index.js` starts, and the
shutdown that drains both before it closes the database. What the work does is left to
the other modules: here it is queued, at the database, reading after a lost answer,
asleep before the next reading, or waiting for work it handed on.

**Chat.** The table of messages, whose ids are taken before their transactions commit,
the events of one socket in order, and `ChatClient`: the window, one reading of a page,
one text that is sent again under its identifier until its fate is known. Pruning of old
messages and the separation of test accounts are left out.

**Accounts, Navigation, BrowserReads, PuzzleProgress.** The page's side: what it
believes, what it has asked, and answers arriving in any order or not at all. A
puzzle's progress is a journal entry per account merged with what the server
knows; an unsent reveal of an account is overwritten when a visitor's solve is
taken over at sign-in (`puzzle/journal.js:20-22`), which the property exempts.
In `BrowserReads` a friends view hears nothing while it is hidden or while the journal of
friendship actions is busy, whoever sends: this view, another, or a retry
(`src/src/lib/friendsClient.js:13-15`, `isBusy` of `FriendsScreen.svelte` and
`PlayerFriendship.svelte`). A retry that fails is followed by no read
(`FriendsScreen.svelte:41-47`), so what was missed stays missed until the heartbeat, the window's
focus or a new connection. `ReadsAreCurrent` promises of this view what
`src/docs/friends-state.md:29` does: it shows what had happened at the last heartbeat that
made it read, and everything once nothing was missed.

## 3. What TLC checks

| Run | Instance | Shows |
|---|---|---|
| `transitions_moves` | 2 processes, 3 moves over 2 identities (one used for two moves), 3 revisions, 2 faults, fair | `InstalledIsCommitted`, `MovesOnce`, `RepliesHold`; the pipeline implements `GameLedger` (`ImplementsLedger`); lost responses do not leave the owner behind for ever (`OwnerCatchesUp`) |
| `transitions_takeover` | 3 processes in a row without draw answers and faults, or 2 with both; 1 identity, 3 revisions; 2 phantoms with one of seven plans, or six evenings | `HandoverPausesTheGame`, `OutcomeIsFinal`, with a takeover at any step; `PhantomsAreSound`, `OneReacts` |
| `lifecycle_bot` | a person and a bot, timed, 2 connections, 1 fault, fair | `NothingIsLeftWaiting`, `PausedGameStandsStill`, `EveryWaitEnds` |
| `starts` | 2 players; 2 rooms with up to 2 faults or 1 room with 4; 2 starts; fair | `CoinsAreConserved`, `ClaimsAgree`, `GamesAreNotCancelled`, `StakesAreNotForgotten` |
| `results` | 2 players, 1 spectator, 1 rematch, 1 connection after the first, 2 faults (1 while the spectator watches), fair | `PlacesAreOnesOwn`, `NobodyIsSeatedInAbsence`, `ResultsEnd` |
| `transport` | 1 tab, 1 command, 2 servers, 2 links, 3 time units, 1 receipt, 2 messages in flight, fair | `CommandsCountOnce`, `SnapshotsNeverGoBack`, `TheTabCatchesUp` |
| `rooms` | host and guest, an open room, one that starts by itself and a challenge, 3 orders, 2 sets of terms, 1 fault, fair; a view with 3 reads, 2 changes, 1 broken connection | `ScreensFollowMembership`, `ReadsAreCurrent`, `ConsentIsToTheTerms`, `NotedAbsencesEnd` |
| `services` | 5 openings at depth 2 and a sixth that is only looked at; 2 publishers; 2 searchers with 2 sockets and an outage; 2 accounts; a pool of 1 with 4 jobs; a session with 2 notices or 2 searches; a process with 2 pieces of work, 2 games to settle or all its chores | `SearchIsExact`, `PuzzlesAreSound`, `CalendarIsSound`, `EverySearchEndsOnce`, `ActionsHappenOnce`, `PoolIsSound`, `SessionIsSound`, `RuntimeIsSound` |
| `page` | 2 accounts, one a guest that expires; 2 tabs, 2 replays; 2 members and a visitor; a chat with pages of 1 message; a live game of 2 people, untimed and restored, 2 connections each | `AccountsAreSound`, `NavigationIsSound`, `ProgressIsKept`, `ChatIsSound`, `OneEndingAtATime`, `EndingsAreFair` |
| `swallowed_expiry`, `results_orphan`, `chat_gap` | the smallest instance each needs | the disagreements of section 6 |

`MCRooms`, `MCServices`, `MCPage` and `MCHandover` host several small models, one of them at a time: which
one is chosen initially, and its property is asserted of it. The last three give TLC a VIEW, the
variables of the part at work: the others keep their initial values, so no two states are
taken for one that differ in a part that moves. The view of `MCServices` also leaves out
what a request nobody awaits any more was answered: no action and no property asks for it.

Deadlock is not checked in any run: people may stop playing, a finished game
does nothing, and the bounds stop the rest.

**Bounds.** They are named constants. Three revisions, the opening
included, hold two moves, the second behind the lost response of the first, or a
move and the pause of the next owner, or a pause and an ending; longer histories
are covered by the proofs. Three processes hold an owner, its superseded
predecessor and the next in line. Two faults combine any failure with one during
its recovery; the four of one room cover an attempt that fails twice, its
rereading or cancellation failing as well. A fault is one failed transaction, one
lost response or one crash; where the code confirms an answer twice before it
gives up (joining a room), losing it counts as three. Two connections are one
replacement of a connection, and two rooms let one person's claims meet. Two
accepted starts let a late settlement of the first meet the second. Stake (1),
fund (2), bounty (2) and tax (5 %) are chosen so that a wallet can become empty and
the vault can both owe and pay a bounty. One receipt per session is
enough for the run's one command; a further one, which the server would refuse because
there are too many, is left to the proofs. A pool of one thread with a queue of one is full at
the third job, and four threads in all let two of them crash or be retired. A guest's lifetime of 6 and
renewal at 3 leave time for a renewal, an expiry and a return. Chat has several
budgets (`Budgets`), because a text that is sent again and messages that overlap with a
page need different things to be scarce; pages of one message make every second message
a gap. A session is followed with notices and faults or with searches and time
(`Allowances`), a process with work, with games to settle or with its chores
(`Extents`); a batch of one job makes the worker choose which is due longest. The phantoms'
plans (`Plans`) and evenings (`Evenings`) spend a few connections, faults, sessions, games
and rooms in different mixtures, because all of them at once are out of reach: the mixtures are
those in which something of an earlier connection, search or session is still under way when
the next begins. The puzzles' openings hold one of each kind: a capture, a man that is
crowned, a sacrifice that wins at once, and positions that are refused because another
move wins too.

**Symmetry.** Used only where no liveness is checked: the processes after
the first owner in `transitions_takeover`, publishers and searchers in `services`. None of them is distinguished by a
definition or a constant.

**Fairness.** Weak fairness of what the event loop does by itself: a queued
task proceeds, an armed timer fires, an interval keeps ticking, the settlement
worker runs, a server that is down is started, a message sent on an open link
arrives. `RetryFires` in `GameStarts` is strongly fair: the retry waits in the
room's queue (`queueRoomWork` chains promises in order), whereas the model picks
the next task freely, so that weak fairness would let presence updates overtake
it for ever. Nothing makes people connect, play or leave, and faults need not
happen.


## 4. What is proved

The theorems hold for every value of the constants that satisfies the named
assumptions of the modules, and TLC evaluates those assumptions in every run. They
say that a bound is a natural number, that a constant standing for "nothing" is
not one of the things it is told from, and that what people may send has the shape
of the protocol. Nothing is assumed about the number of processes, players, rooms,
commands, revisions, faults or connections, except that players and rooms whose coins
are added up are finitely many.

An invariant that a run checks is seldom inductive. Each proof module defines a
stronger one, shows that the initial states satisfy it and that each action
keeps it (one lemma per action, one step per conjunct the action disturbs), and
derives the property from it. A last temporal step combines the three.

| Module | Theorem | Property of a run |
|---|---|---|
| `GameTransitionsProofs` | `RoomsShowCommittedStates`, `EveryMoveCountsOnce`, `TerminalRecordsAreAtomic`, `EveryHandoverPauses`, `TheFenceHolds`, `OutcomesAreFinal`, `RepliesAreTrue` | `InstalledIsCommitted`, `MovesOnce`, `HandoverPausesTheGame`, `OutcomeIsFinal`, `RepliesHold`; and, of no run, `TerminalTogether`, `OnlyTheOwnerWrites` |
| | `PipelineImplementsLedger` | `ImplementsLedger`, the refinement of `GameLedger` |
| `GameLifecycleProofs` | `NoGameIsLeftWaiting`, `EndingsAreQueued`, `PausedGamesStandStill`, `GamesEndFairly` | `NothingIsLeftWaiting`, `OneEndingAtATime`, `PausedGameStandsStill`, `EndingsAreFair` |
| `GameStartsProofs` | `PeopleAreClaimedOnce`, `StartsCancelNoGame`, `CoinsAreNeverLost` | `ClaimsAgree`, `GamesAreNotCancelled`, `CoinsAreConserved` |
| `ResultsProofs` | `PlacesAreKept`, `NobodyIsDraggedAlong` | `PlacesAreOnesOwn`, `NobodyIsSeatedInAbsence` |
| `SessionTransportProofs` | `CommandsCount`, `SnapshotsGoForward` | `CommandsCountOnce`, `SnapshotsNeverGoBack` |
| `RoomsProofs` | `ScreensShowTheRoom`, `NobodyPlaysOtherTerms` | `ScreensFollowMembership`, `ConsentIsToTheTerms` |
| `PageProofs` | `ProgressIsNeverLost`, `ThePageIsWhereTheSessionIs`, `WhatIsShownIsCurrent`, `NoAccountIsLostOrMixed`, `TheChatIsSound` | `ProgressIsKept`, `NavigationIsSound`, `ReadsAreCurrent`, `AccountsAreSound`, `ChatIsSound` |
| `ServicesProofs` | `ThePoolIsSound`, `TheCalendarIsSound`, `SearchesEndOnce`, `ActionsTakeEffectOnce`, `TheSessionIsSound`, `ShutdownIsSound` | `PoolIsSound`, `CalendarIsSound`, `EverySearchEndsOnce`, `ActionsHappenOnce`, `SessionIsSound`, `RuntimeIsSound` |

Each of these modules also proves type correctness (`TypeCorrect`, `LifecycleTypes`,
`StartTypes`, `ResultTypes`, `TransportTypes`, `RoomTypes`) or its whole inductive
invariant (`Invariance`, `ProgressInvariance`, `NavigationInvariance`, `ReadsInvariance`,
`AccountsInvariance`, `ChatInvariance`, `SessionInvariance`, `RuntimeInvariance`) as a theorem.

**The commit pipeline.** The invariant has four layers, each resting on the ones
before it. The ledger: the row is the last entry of the history (`RunIsLastEntry`)
and no entry before it is over (`OnlyLastIsOver`). The views: what a room last
confirmed is an entry (`SavedIsCommitted`), the owner's
generation is the newest (`OwnerIsNewest`), and what was loaded at startup has been
paused (`NothingLoadedIsOpening`). The moves: every receipt's move is in the game,
and every move of a command in the game has its receipt (`MovesAreRecorded`,
`RecordedMovesArePlayed`); without both directions the step in which a repeated
command is played cannot be told from its first. The replies: a success rests on a
receipt or on the end of the game (`SuccessIsRecorded`), a failure has a cause
(`FailuresHaveCauses`). The refinement maps the history and the replies to
`GameLedger`: an action that commits is a step of the ledger, all others stutter.

**One live game.** The game exists three times, as installed, as stored and as
being decided on, and a response may install a state the transition did not
decide on. `CopiesFollow` says how the three relate: a game that is over stays
over, one that has begun stays begun, and no pause is entered again. With it the timers
(`TimersAreSet`) and the pending ending (`EndingIsQueued`), which are
read against the installed state, survive every commit that fails or is not heard.

**Wagered starts.** `Database` says that rooms, runs, jobs and claims agree in
every committed state. `Process` says how far a task may have fallen behind: a copy
with a start key is of the start the room still has, or of one that is over
(`CopyLags`); while a task creates a game its players are reserved to it alone
(`Reservations`); and each stage of the task knows certain things of the record
(`TaskIsSound`). That a start never cancels a game is a fact about stages:
the database refuses to cancel a game that has begun, and only the reservations rule out
one that is open and installed. For the coins, every step either leaves coins and runs'
standing alone or is one of four transactions (`StepTransacts`). Each of these moves
between two balances, the vault and the stakes what it takes from one of them
(`Balance`), which rests on every game having two different players from the moment
its start is drawn up (`Pairs`). The sums are those of the community modules, folds in
an order nobody knows. That a fold exists, that its terms can be taken in any order and
that it depends on nothing else is proved by induction: among the subsets for which
a statement fails there would be a least one (`LeastSubset`, from the library's
theorem on minimal elements of well-founded relations, which takes a set and no operator).

**Results.** The rows agree by themselves whatever the process does (`Rows`). What
the queued work knows at each await (`StagesAreSound`, `RunsAreKnown`) and how the
sessions relate to the copy (`Screens`) come on top; the screens are right once
copy and record are the same and all returning viewers have been restored.

**Command transport.** A command is admitted twice unless the server remembers how
it ended. The receipt and the copies that can still arrive grow too old at the same
moment (`ConcludedIsRemembered`, for which all copies of a command must be alike:
`CopiesAreAlike`), and a new process admits none of the copies made for its
predecessor (`NothingIsEarly`). `TruthIsTold` then follows command by command.
For snapshots, connections are ordered with the processes that accepted them
(`ConnectionsAreOrdered`), and a tab's connection is not older than its snapshot
(`TabKeepsUp`).

**Rooms.** A change is only written over the record that the copy shows, so the
copy is at most one change behind (`CopyIsNear`), and what the screens show can be told change by
change (`PhasesFollow`). Readiness is agreement to the terms on
the table (`ReadyIsAgreed`), which every reduction keeps or clears.

**The page.** For a puzzle, an answer is an earlier state of the record it is about
and takes in the report it answers (`AnswersAreTrue`), what a row counts as synced
is covered by the record (`SyncedIsCovered`), and a solve stays in its row until the
server knows better (`ClaimsAreKept`). Proving this showed that the property first
checked, that nothing of an account's row is lost, held in the run only because
of its bounds: a sign-in with a visitor's solve overwrites a reveal the account has
not sent. The model names that handover (`HandedOver`) and the property excepts it.
For navigation, every handler ends in a reconciliation, after which
screen and address are those of the session (`Shows`, `AddressFollows`, from the
lemma `ReconciledSettles`); before it, a fetch is what the intent asks for, loading is
awaited by somebody, and an invitation has one promise of its own generation
(`InOrder`).
For what the page reads, a hint is on its way or kept until a read that began after
it has answered, or was not heard (`HintHolds`), an action that was confirmed is in the newest read
(`ActsAreSeen`), and the numbers on the socket follow one another
(`Consecutive`), so that a list which claims to be there has seen all numbers up to
the last one delivered (`ListHolds`) and what it buffered is never newer than the
list it waits for.
For accounts, a guest's token opens its account no longer than the row lasts
(`Backed`), so a row that the cleanup finds expired has no token left, and whoever is admitted has
a day to register before the row can expire (`RetiringHolds`). An answer is
about the account that asked, at a revision that account has had (`AnswerHolds`), and
within a generation the page holds tokens of one account only (`ScopeHolds`): an
answer that `accept` takes, however late, is therefore its own account's. A choice of privacy
that a later one overtook was made on a revision that is gone (`RequestHolds`), and
the server refuses it.
For the chat, every text but the one in the input is in the table once, and that one is
sent under the identifier the client keeps for it (`TextsHold`); what is still to be
sent carries it, or is in the table already (`RequestsHold`), so a refusal that is listened
to is the last word on its identifier (`RefusalIsFinal`). For the window,
what a page leaves out is older, not announced yet, or announced after it
(`PageIsWhole`).

**The services.** The worker pool drains itself within an operation, so its
invariant (`PoolInv`) is about what operations leave: slots, threads and jobs agree
(`Sound`) and nothing is left to be handed out (`Settled`). Each operation
leaves at most one job or one thread to hand out; that is why three rounds of draining are
enough, whatever the size. The calendar's
invariant says of the rows what the property says, of the jobs' evidence that it is
about puzzles that may be scheduled, and of the open transaction that what it will
leave is good as well, and keeps every row that will be public by the time it can
commit (`TransactionStands`): that is where the transaction's deadline of half a minute
is needed. In quick play, a piece of work that has started runs alone among the people
it concerns (`WorkHolds`), and whoever still searches does so by the entry that is
claimed (`SearchesHold`, `ClaimsHold`); work has seated all its players or none of
them (`SeatsHold`). For account actions, a call that is still awaited is the only one of its
journal and is for the intent the tab holds (`CallsHold`), which is what storage
holds for its account (`StoredHolds`), so that a reply clears the intent it answers
and no other; with that the balances are what the receipts explain, each receipt
changing both sides by the same amount (`ApplyAddsUp`, `ApplyFillsVault`). For a session,
every reading says what was true when it was taken (`ReadingsAreTrue`) and a confirmed
dismissal has moved the cursor past its notice (`ConfirmedArePassed`), so no
reading taken before can bring it back; the latest state is in the cursor, in a reading
to come, or in doubt (`LatestIsKnown`). For the process, its shutdown and the end of the
lifetime it gives to work are one step (`LifetimeEnds`), nothing begins afterwards but
what the shutdown waits for (`OnlyTheAwaitedRun`), and that is over, with the chores, when
it lets go of the database (`ClosedIsQuiet`). These
theorems assume finitely many searchers, that no publisher is called what stands for none, and of
friendships, tips and grants that they concern two people.

**Only model-checked.** Liveness (`OwnerCatchesUp`, `EveryWaitEnds`,
`StakesAreNotForgotten`, `ResultsEnd`, `TheTabCatchesUp`, `NotedAbsencesEnd`) is out of the provers' reach, ENABLED
being what fairness is made of. `SearchIsExact` and `PuzzlesAreSound` are
about recursive functions over game trees: what they say of every input needs an
induction over the depth of the search, and is checked on the bounded inputs only. The
phantoms (`PhantomsAreSound`, `OneReacts`) are model-checked only as well.

## 5. Properties and hazards

`PROJECT.json` lists 40 places where this code is hard to test, each at its line
with the properties that would fail if it went wrong there. The properties relate two
pieces of state across awaits (a record and a copy, a claim and a seat, a receipt and
an effect), or a state to an earlier one; none of them restates a guard.

Next to the definitions stand the mutations a plausible bug would make of them, in operators
whose comment begins with "Mutant": a receipt that names the revision a command
was decided on, an expiry that is carried out whoever has come back, a promise of a
failed ending that others wait for, a restart that refunds every open run, players
who keep their view of a result beside their seats, readiness that is not tied to
the terms that were shown, work that reserves only its first session's queue, a
reply that is taken whichever account it was asked for. Every property of a passing
run has one under which its run fails.

## 6. Disagreements between the code and its documents

**An ending that joins another is lost** (run `swallowed_expiry`).
`endGame` (`src/server/domain/games.js:290`) lets every caller wait for the ending in
flight. If that is another player's expiry whose guard no longer holds, it resolves
without ending the game, and so does the expiry that joined it. Its timer has
fired, and only an error would arm it again. In an untimed game the absent player
is never forfeited, although `src/server/domain/sessions.js:219` promises "30
seconds to reconnect or forfeit". The same line swallows a resignation made while
such an expiry is in flight; `src/docs/deployment.md:132` says that accepted gameplay
commits a checkpoint before snapshots acknowledge it.

**An orphaned rematch** (run `results_orphan`). The creation of a
rematch commits without an answer and the reading after it fails. The record is now
`REMATCHED` with no player viewing it. When the last spectator leaves or expires,
the record is closed (`closeIfEmpty`, `src/server/domain/resultState.js:56` and
82-86), the runtime retires together with its retry timer, and the reserved game
keeps both seats. `restoreAbortedResult`
(`src/server/services/resultRecords.js:175`) refuses to undo it, at the next start
too. `src/server/domain/resultRuntime.js:27-28` says that the reserved child stays
visible until the factory or a cancellation decides.

**A hole in the chat** (run `chat_gap`). `load` (`src/src/lib/chat/client.js:76`)
notes the newest message the window shows when it asks for a page. A message that was
heard after the connection was made and before the page was asked for counts, so that a page
which begins right at it looks contiguous with what was known before, and
the older messages that the connection missed stay out of the window, between those shown on
both sides. Lines 84-85 keep "a contiguous recent window" and drop the older side of a gap;
`src/tests/chatClient.test.js:66` covers messages heard while the page is read only.

Met while reading and modelling, and not kept as runs:

- *A start whose acceptance is not heard.* `startRoomGame`
  (`src/server/domain/rooms.js:347-372`) confirms a lost acceptance once. If the
  confirmation fails as well, the record stays `starting` and nothing is
  scheduled until somebody leaves or the process restarts. `src/docs/durable-rooms.md:60` says a
  start "confirms a lost response automatically, and retains or cancels an
  unresolved attempt".
- *A member admitted without an answer.* When neither the response of an admission nor
  its confirmations arrive (`src/server/domain/roomRuntime.js:74-109`) the copy
  lacks the member, and nothing reads the record again until the room's next
  change. `src/docs/durable-rooms.md:60` has uncertain responses "confirm the saved
  record before publishing".
- *An absence that was noted for an earlier drop.* The guard of a queued expiry asks
  only whether the player has no connection
  (`src/server/domain/lifecycle.js:32`). A player who reconnects and drops again
  while the expiry waits is forfeited at once, without the 30 seconds of the second drop.

- *A settlement that commits unheard.* When the settlement's answer is lost, the room is
  marked as failed (`src/server/domain/games.js:304-312`), and the recovery, which
  looks for jobs that are not complete (`src/server/services/settlementRecovery.js:52-62`),
  never publishes it, although the job is done.
- *A bound that counts as a win.* Moves after the first are compared with the best so far
  within a window (`scoreMoves`), so their scores may be upper bounds. `verifyLine`
  (`src/scripts/generate-puzzles.js:309`) and `candidate` (line 244) reject a position for
  `two-wins`, conclusively, when such a bound is a winning score. Whether the bound is that
  high depends on the order in which moves are searched: of a position and its mirror image
  one can be a puzzle and the other not (in the model, the last of `MCOpenings`).
- *Timers of the phantoms that outlive their reason.* The timeout of a connection
  (`src/phantom/player.js`) closes `this.socket`, whichever that is by then, and throws
  when there is none; two overlapping runs of `_bringOnline` lead there. A phantom
  that finds itself searching when it connects arms no timeout for that search. A key of
  `readyScheduled` stays behind when its phantom has left the room. The lock
  of an orchestrated game, once its second player was sent to the room, is released only when
  a phantom is in a game.

## 7. Not modelled

Share previews, presence statistics, the game log and the
public pages keep records or present them, and nothing of the game protocol depends
on them. Of the phantom client its logins, personalities, prompts and emotes are left out, and
it is not composed with the server's models, whose protocol it no longer speaks. HTTP routes check arguments and delegate.

Of the parts that are modelled, these are abstracted: ratings and statistics,
achievements and emotes; the arithmetic of clocks beyond "time is up"; the
transposition table and move ordering, which may change the order of a search but
not what it finds; the treasury's public figures; when a document is hidden, of which only the hints it
does not hear are kept; what an administrator reads; in `PhantomChat`, that the lock on a message
is released after 30 seconds (`src/phantom/brain.js:300`), by which time every phantom has heard it; migrations of the schema. Drawing, animation and the
components of the browser are presentation.

## 8. What comes next

1. An induction over the depth of the search, in the form used for the sums, for
   `SearchIsExact` and `PuzzlesAreSound`.
2. The phantoms' properties as theorems.
3. More of the browser's readings, where an answer can be late.
