-------------------------------- MODULE Phantoms --------------------------------
(***************************************************************************)
(* The phantom players: a process of its own that plays as several users.  *)
(* A manager keeps some of them online, each player holds a connection and *)
(* a mirror of its game, and one brain decides for all of them when to     *)
(* search, to open a room, to join one and to leave.  Everything it does   *)
(* later it does from a timer.  The server is its environment, as the      *)
(* client expects it: it answers requests, seats people and plays against  *)
(* them.  (The server of this repository has since changed its protocol.)  *)
(* What the phantoms say is in PhantomChat.                                *)
(***************************************************************************)
EXTENDS Naturals, Sequences, FiniteSets

CONSTANTS
    Phantom,
    NoPhantom,
    ActiveCount,    \* how many the manager keeps online
    Plans           \* bound: how many connections are made, how many fail, how many sessions end,
                    \* how often somebody is seen searching, the rooms, the games, the checks of
                    \* the brain, how often a game goes on, and somebody joins a room or is put out

ASSUME PhantomsAssumption ==
    /\ NoPhantom \notin Phantom /\ ActiveCount \in Nat \ {0}
    /\ Plans \subseteq [sockets: Nat, faults: Nat, sessions: Nat, stats: Nat, rooms: Nat, games: Nat, checks: Nat, moves: Nat,
                    others: Nat]

VARIABLES
    player,     \* PhantomPlayer, of each
    brain,      \* Brain: its locks and the timers it has armed
    sockets,    \* connections in the order they were made, what is on its way on each
    batches,    \* runs of _bringOnline: the connection each awaits, who comes after
    reacting,   \* the phantom that is about to search because somebody else does
    stages,     \* games being orchestrated, until the joiner is sent
    readies,    \* those about to ready up, and the key in readyScheduled
    survey,     \* the check in progress: who was idle when it began, and who has acted since
    halted,     \* the process has ended
    venue,      \* the server: where each phantom is, and the rooms
    plan        \* what is left of the bounds

phantomVars == <<player, brain, sockets, batches, reacting, stages, readies, survey, halted, venue, plan>>

NoCheck == [idle |-> {}, acted |-> {NoPhantom}]
NewBrain == [queued |-> NoPhantom, waiting |-> NoPhantom, orchestrating |-> FALSE, locked |-> FALSE,
             searches |-> [p \in Phantom |-> 0], watched |-> {}, sessions |-> [p \in Phantom |-> 0], timed |-> {},
             leaving |-> {}, leaves |-> [p \in Phantom |-> 0], breaks |-> {}, scheduled |-> {}]
Absent == [socket |-> 0, connected |-> FALSE, phase |-> "offline", room |-> 0, game |-> 0, color |-> FALSE,
           board |-> 0, turn |-> "theirs", timer |-> "none", goodbyes |-> 0, resumed |-> FALSE]
NoSeat == [at |-> "idle", room |-> 0, game |-> 0, turn |-> "theirs"]

Spend(what) == plan[what] > 0 /\ plan' = [plan EXCEPT ![what] = @ - 1]

------------------------------------------------------------------------------
(* Players and their connections *)

IsIdle(p) == player[p].connected /\ player[p].phase = "idle"
OnlineIdle == {p \in Phantom : IsIdle(p)}
InGame == {p \in Phantom : player[p].phase = "in-game"}

Closed(c) == [c EXCEPT !.state = "closed", !.in = << >>, !.out = << >>]
Shut(cs, c) == IF c = 0 THEN cs ELSE [cs EXCEPT ![c] = Closed(@)]

\* disconnect: the connection of the moment goes, and the game with it.
Gone(q) == [Absent EXCEPT !.goodbyes = q.goodbyes]

\* socket.on('disconnect')
Cut(q) == [q EXCEPT !.connected = FALSE, !.phase = "offline", !.resumed = FALSE]

\* Emitted on this.socket, whichever that is; without one the callback throws and the process ends.
Emit(cs, c, r) == IF c = 0 \/ cs[c].state = "closed" THEN cs ELSE [cs EXCEPT ![c].out = Append(@, r)]
Sends(p, r) == sockets' = Emit(sockets, player[p].socket, r) /\ halted' = (player[p].socket = 0)
Silent == UNCHANGED <<sockets, halted>>

\* _scheduleMove: a move, or when the game is lost or goes nowhere a resignation.
OurTurn(q) == q.color /\ q.turn = "mine"
Scheduled(q, kinds) == IF OurTurn(q) THEN {[q EXCEPT !.timer = k] : k \in kinds} ELSE {q}

------------------------------------------------------------------------------
(* What the brain makes of a change of phase *)

\* _onPhaseChange
Informed(b, p, phase) ==
    CASE phase = "idle" ->
            [b EXCEPT !.queued = IF @ = p THEN NoPhantom ELSE @, !.waiting = IF @ = p THEN NoPhantom ELSE @,
                      !.searches[p] = IF p \in b.watched THEN @ - 1 ELSE @, !.watched = @ \ {p}]
      [] phase = "matchmaking" -> [b EXCEPT !.queued = p, !.searches[p] = @ + 1, !.watched = @ \cup {p}]
      [] phase = "in-room" -> [b EXCEPT !.waiting = IF @ = NoPhantom THEN p ELSE @]
      [] phase = "in-game" -> [b EXCEPT !.orchestrating = FALSE]
      [] OTHER -> b

\* Mutant: whoever comes back is still taken for leaving.
StillLeaving(b, p) == [b EXCEPT !.sessions[p] = @ + 1, !.timed = @ \cup {p}]

\* onPhantomOnline and onPhantomOffline
Online(b, p) == [b EXCEPT !.leaving = @ \ {p}, !.sessions[p] = @ + 1, !.timed = @ \cup {p}]
Offline(b, ps) ==
    [b EXCEPT !.leaving = @ \ ps, !.queued = IF @ \in ps THEN NoPhantom ELSE @, !.waiting = IF @ \in ps THEN NoPhantom ELSE @,
              !.sessions = [p \in Phantom |-> IF p \in ps \cap b.timed THEN @[p] - 1 ELSE @[p]], !.timed = @ \ ps]

------------------------------------------------------------------------------
(* The manager *)

\* connect: a new connection takes the place of this.socket; its timeout is armed.
Opened(cs, p) == Append(cs, [of |-> p, state |-> "opening", timeout |-> TRUE, up |-> FALSE, in |-> << >>, out |-> << >>])
Dial(p, cs) ==
    /\ Spend("sockets")
    /\ sockets' = Opened(cs, p) /\ player' = [player EXCEPT ![p].socket = Len(cs) + 1]

\* _bringOnline: those neither connected nor on a break, in any order, one after the other.
Eligible == {p \in Phantom : ~player[p].connected /\ p \notin brain.breaks}
Orders(ps, n) ==
    LET k == IF Cardinality(ps) < n THEN Cardinality(ps) ELSE n
    IN {q \in [1..k -> ps] : k > 0 /\ \A i, j \in 1..k : q[i] = q[j] => i = j}
Awaiting(c) == {i \in DOMAIN batches : batches[i].on = c}
Without(i) == SubSeq(batches, 1, i - 1) \o SubSeq(batches, i + 1, Len(batches))
Continued(i) == IF batches[i].rest = << >> THEN Without(i) ELSE [batches EXCEPT ![i].first = FALSE, ![i].on = 0]
WentOn(c) == IF Awaiting(c) = {} THEN batches ELSE Continued(CHOOSE i \in Awaiting(c) : TRUE)

NextOnline(i) ==
    /\ batches[i].on = 0
    /\ Dial(Head(batches[i].rest), sockets)
    /\ batches' = [batches EXCEPT ![i].on = Len(sockets) + 1, ![i].rest = Tail(@)]
    /\ UNCHANGED <<brain, reacting, stages, readies, survey, halted, venue>>

\* start, after everybody has logged in: the first batch is awaited, then the rotation begins.
PhantomInit ==
    /\ player = [p \in Phantom |-> Absent] /\ brain = NewBrain
    /\ sockets = << >> /\ reacting = NoPhantom /\ stages = {} /\ readies = {} /\ survey = NoCheck /\ halted = FALSE
    /\ batches \in {<<[starting |-> TRUE, first |-> TRUE, on |-> 0, rest |-> q]>> : q \in Orders(Phantom, ActiveCount)}
    /\ venue = [seat |-> [p \in Phantom |-> NoSeat], rooms |-> << >>, games |-> 0]
    /\ plan \in Plans

\* _rotationCheck: whose session is over goes offline when idle, and then others are brought.
\* isSessionExpired
Expired == {p \in OnlineIdle : p \notin brain.timed \cup brain.leaving}
AllShut(cs, ps) == [c \in DOMAIN cs |-> IF \E p \in ps : player[p].socket = c THEN Closed(cs[c]) ELSE cs[c]]

\* The rotation begins when the batch that start awaits is done.
Rotating == \A i \in DOMAIN batches : ~batches[i].starting

\* The first connection of a batch has been made or given up when the rotation comes again.
Begun == \E i \in DOMAIN batches : batches[i].first /\ batches[i].on # 0 /\ sockets[batches[i].on].timeout

Rotate ==
    LET needed == ActiveCount - Cardinality({p \in Phantom \ Expired : player[p].connected})
        gone == [p \in Phantom |-> IF p \in Expired THEN Gone(player[p]) ELSE player[p]]
        cs == AllShut(sockets, Expired)
        free == (Eligible \cup Expired) \ brain.breaks
    IN
    /\ Rotating /\ ~Begun /\ brain' = Offline(brain, Expired)
    /\ \/ /\ needed > 0
          /\ \E q \in Orders(free, needed) :
                /\ Spend("sockets")
                /\ sockets' = Opened(cs, q[1]) /\ player' = [gone EXCEPT ![q[1]].socket = Len(cs) + 1]
                /\ batches' = Append(batches, [starting |-> FALSE, first |-> TRUE, on |-> Len(cs) + 1, rest |-> Tail(q)])
       \/ /\ needed <= 0 \/ free = {}
          /\ Expired # {} /\ sockets' = cs /\ player' = gone /\ UNCHANGED <<batches, plan>>
    /\ UNCHANGED <<reacting, stages, readies, survey, halted, venue>>

\* connect_error, and the timeout of ten seconds: what it disconnects is this.socket.
TurnedDown(c) ==
    /\ sockets[c].state = "opening" /\ Spend("faults")
    /\ sockets' = [sockets EXCEPT ![c] = [Closed(@) EXCEPT !.timeout = FALSE]] /\ batches' = WentOn(c)
    /\ UNCHANGED <<player, brain, reacting, stages, readies, survey, halted, venue>>

TimesOut(c) ==
    LET p == sockets[c].of IN
    /\ sockets[c].timeout /\ Spend("faults")
    /\ sockets' = Shut([sockets EXCEPT ![c].timeout = FALSE], player[p].socket)
    /\ player' = IF player[p].socket # 0 /\ sockets[player[p].socket].up THEN [player EXCEPT ![p] = Cut(@)] ELSE player
    /\ batches' = WentOn(c) /\ halted' = (player[p].socket = 0)
    /\ UNCHANGED <<brain, reacting, stages, readies, survey, venue>>

\* The session timer, and _phantomLeaving: a break begins, and after a last word the phantom leaves.
SessionEnds(p) ==
    LET over == [brain EXCEPT !.sessions[p] = @ - 1, !.timed = @ \ {p}] IN
    /\ brain.sessions[p] > 0 /\ Spend("sessions")
    /\ brain' = IF player[p].connected /\ p \notin brain.leaving
                THEN [over EXCEPT !.leaving = @ \cup {p}, !.breaks = @ \cup {p}, !.leaves[p] = @ + 1]
                ELSE over
    /\ UNCHANGED <<player, sockets, batches, reacting, stages, readies, survey, halted, venue>>

Leave(p) ==
    /\ brain.leaves[p] > 0 /\ brain' = [brain EXCEPT !.leaves[p] = @ - 1]
    /\ IF player[p].connected
       THEN player' = [player EXCEPT ![p] = Gone(@)] /\ sockets' = Shut(sockets, player[p].socket)
       ELSE UNCHANGED <<player, sockets>>
    /\ UNCHANGED <<batches, reacting, stages, readies, survey, halted, venue, plan>>

\* isOnBreak, once the break is over: it lasts minutes, the leaving that began with it seconds
BreakEnds(p) ==
    /\ p \in brain.breaks /\ brain.leaves[p] = 0 /\ brain' = [brain EXCEPT !.breaks = @ \ {p}]
    /\ UNCHANGED <<player, sockets, batches, reacting, stages, readies, survey, halted, venue, plan>>

\* stop, and the process ends with whatever it remembered.
StopPhantoms ==
    /\ halted' = TRUE /\ player' = [p \in Phantom |-> Absent] /\ brain' = NewBrain
    /\ sockets' = << >> /\ batches' = << >> /\ reacting' = NoPhantom /\ stages' = {} /\ readies' = {} /\ survey' = NoCheck
    /\ UNCHANGED <<venue, plan>>

ManagerStep ==
    \/ Rotate \/ StopPhantoms
    \/ \E i \in DOMAIN batches : NextOnline(i)
    \/ \E c \in DOMAIN sockets : TurnedDown(c) \/ TimesOut(c)
    \/ \E p \in Phantom : SessionEnds(p) \/ Leave(p) \/ BreakEnds(p)

------------------------------------------------------------------------------
(* What a player hears *)

Notice(e) == [kind |-> e, room |-> 0, game |-> 0, turn |-> "theirs", phase |-> "idle"]

\* _recoverGame: what the server says of a game, found on connecting, replaces the mirror.
Recovers(q, e) ==
    Scheduled([q EXCEPT !.phase = "in-game", !.resumed = FALSE, !.game = e.game, !.color = TRUE, !.board = e.game, !.turn = e.turn],
              {"move"})

\* The player after an event, and the phase it reports to the brain, if it does: the handlers
\* of connect() and _setupListeners.
Following(q, e) ==
    CASE e.kind = "connect" -> {[q EXCEPT !.connected = TRUE]}
      [] e.kind = "sync" /\ e.phase # "in-game" -> {[q EXCEPT !.phase = e.phase, !.resumed = e.phase = "matchmaking"]}
      [] e.kind = "sync" /\ e.phase = "in-game" -> Recovers(q, e)
      [] e.kind = "found" -> {[q EXCEPT !.phase = "in-game", !.resumed = FALSE, !.game = e.game, !.color = TRUE]}
      [] e.kind = "queued" -> {[q EXCEPT !.phase = "matchmaking", !.resumed = FALSE]}
      [] e.kind = "left" -> {IF q.phase = "matchmaking" THEN [q EXCEPT !.phase = "idle", !.resumed = FALSE] ELSE q}
      [] e.kind \in {"created", "joined"} -> {[q EXCEPT !.phase = "in-room", !.resumed = FALSE, !.room = e.room]}
      [] e.kind = "put out" -> {[q EXCEPT !.phase = "idle", !.resumed = FALSE, !.room = 0]}
      [] e.kind = "start" ->
            Scheduled([q EXCEPT !.phase = "in-game", !.resumed = FALSE, !.game = e.game, !.board = e.game, !.turn = e.turn], {"move"})
      [] e.kind = "moved" /\ q.board = 0 -> {q}
      [] e.kind = "moved" /\ q.board # 0 -> Scheduled([q EXCEPT !.turn = e.turn], {"move", "resign"})
      [] e.kind = "state" /\ q.game = 0 -> {q}
      [] e.kind = "state" /\ q.game # 0 -> Scheduled([q EXCEPT !.board = e.game, !.turn = e.turn], {"move", "resign"})
      [] e.kind = "over" -> {[q EXCEPT !.timer = "none", !.goodbyes = @ + 1]}
      [] e.kind = "kicked" -> {Gone(q)}
      [] e.kind = "closed" -> {Cut(q)}
      [] OTHER -> {q}

Reports(q, e) ==
    CASE e.kind = "sync" -> IF e.phase = "in-game" THEN "in-game" ELSE "none"
      [] e.kind = "found" -> "in-game"
      [] e.kind = "queued" -> "matchmaking"
      [] e.kind = "left" -> IF q.phase = "matchmaking" THEN "idle" ELSE "none"
      [] e.kind \in {"created", "joined"} -> "in-room"
      [] e.kind = "put out" -> "idle"
      [] OTHER -> "none"

\* The connection it was heard on, and this.socket.
Popped(c) ==
    LET connects == Head(sockets[c].in).kind = "connect"
    IN [sockets EXCEPT ![c].in = Tail(@), ![c].timeout = @ /\ ~connects, ![c].up = @ \/ connects]
Carried(c, e) ==
    LET p == sockets[c].of
        mine == player[p].socket
    IN CASE e.kind = "kicked" -> Shut(Popped(c), mine)
         [] e.kind = "closed" -> Shut(Popped(c), c)
         [] e.kind = "sync" /\ e.phase = "in-game" -> Emit(Popped(c), mine, [Notice("sync") EXCEPT !.game = e.game])
         [] OTHER -> Popped(c)

\* _onRoomUpdate: with two in the room, each phantom that is not ready is to ready up, once.
YetToReady(e) == {r \in Phantom : r \in e.players \ e.ready /\ <<e.room, r>> \notin brain.scheduled}
HearUpdate(c) ==
    LET e == Head(sockets[c].in)
        full == e.status = "waiting" /\ e.two
    IN
    /\ sockets[c].in # << >> /\ e.kind = "updated" /\ sockets' = Popped(c)
    /\ brain' = [brain EXCEPT !.scheduled = IF e.status = "playing" THEN {k \in @ : k[1] # e.room}
                                           ELSE IF full THEN @ \cup {<<e.room, r>> : r \in YetToReady(e)} ELSE @]
    /\ readies' = IF full THEN readies \cup {[of |-> r, room |-> e.room] : r \in {x \in YetToReady(e) : player[x].phase = "in-room"}}
                  ELSE readies
    /\ UNCHANGED <<player, batches, reacting, stages, survey, halted, venue, plan>>

HearEvent(c) ==
    LET p == sockets[c].of
        e == Head(sockets[c].in)
        recovers == e.kind = "sync" /\ e.phase = "in-game"
        told == Informed(brain, p, Reports(player[p], e))
    IN
    /\ sockets[c].in # << >> /\ e.kind # "updated"
    /\ \E q \in Following(player[p], e) : player' = [player EXCEPT ![p] = q]
    /\ sockets' = Carried(c, e) /\ halted' = (recovers /\ player[p].socket = 0)
    /\ batches' = IF e.kind = "sync" THEN WentOn(c) ELSE batches
    /\ brain' = IF e.kind = "sync" /\ Awaiting(c) # {} THEN Online(told, p) ELSE told
    /\ UNCHANGED <<reacting, stages, readies, survey, venue, plan>>

\* The connection breaks.
Drop(c) ==
    LET p == sockets[c].of IN
    /\ sockets[c].state = "open" /\ Spend("faults")
    /\ sockets' = Shut(sockets, c) /\ player' = IF sockets[c].up THEN [player EXCEPT ![p] = Cut(@)] ELSE player
    /\ UNCHANGED <<brain, batches, reacting, stages, readies, survey, halted, venue>>

------------------------------------------------------------------------------
(* What a player does later *)

\* chooseBotMove: which move is open; there is one while it is our turn.
ChoosesMove(q) == q.board # 0 /\ OurTurn(q)

\* The timers of _scheduleMove.
MoveTimer(p) ==
    LET q == player[p]
        moves == q.timer = "resign" \/ ChoosesMove(q)
    IN
    /\ q.timer # "none" /\ player' = [player EXCEPT ![p].timer = "none"]
    /\ IF moves THEN Sends(p, [Notice(q.timer) EXCEPT !.game = q.game]) ELSE Silent
    /\ UNCHANGED <<brain, batches, reacting, stages, readies, survey, venue, plan>>

\* The game is left some seconds after its end; the server, which is told, has forgotten it.
Goodbye(p) ==
    LET q == player[p] IN
    /\ q.goodbyes > 0
    /\ player' = [player EXCEPT ![p] = [q EXCEPT !.goodbyes = @ - 1, !.board = 0, !.color = FALSE, !.game = 0, !.room = 0,
                                                 !.turn = "theirs", !.phase = "idle", !.resumed = FALSE]]
    /\ brain' = Informed(brain, p, "idle")
    /\ UNCHANGED <<sockets, batches, reacting, stages, readies, survey, halted, venue, plan>>

\* leaveMatchmaking, 45 seconds after the search began; whichever timer it is, the map forgets the phantom.
SearchTimer(p) ==
    LET fired == [brain EXCEPT !.searches[p] = @ - 1, !.watched = @ \ {p}]
        searching == player[p].phase = "matchmaking"
    IN
    /\ brain.searches[p] > 0
    /\ IF searching
       THEN /\ Sends(p, Notice("unqueue")) /\ brain' = Informed(fired, p, "idle")
            /\ player' = [player EXCEPT ![p].phase = "idle", ![p].resumed = FALSE]
       ELSE brain' = fired /\ Silent /\ UNCHANGED player
    /\ UNCHANGED <<batches, reacting, stages, readies, survey, venue, plan>>

PlayerStep ==
    \/ \E c \in DOMAIN sockets : HearEvent(c) \/ HearUpdate(c) \/ Drop(c)
    \/ \E p \in Phantom : MoveTimer(p) \/ Goodbye(p) \/ SearchTimer(p)

------------------------------------------------------------------------------
(* What the brain decides *)

\* _onPresenceStats and _reactToSearchingPlayer: more people are looking for a game.  One
\* reaction at a time; the lock outlasts the delay.
StatsRise ==
    /\ \E p \in Phantom : player[p].connected
    /\ brain.queued = NoPhantom /\ ~brain.locked /\ Spend("stats")
    /\ brain' = [brain EXCEPT !.locked = TRUE]
    /\ reacting' \in OnlineIdle \cup {NoPhantom}
    /\ UNCHANGED <<player, sockets, batches, stages, readies, survey, halted, venue>>

LockExpires ==
    /\ brain.locked /\ reacting = NoPhantom
    /\ brain' = [brain EXCEPT !.locked = FALSE]
    /\ UNCHANGED <<player, sockets, batches, reacting, stages, readies, survey, halted, venue, plan>>

React ==
    /\ reacting # NoPhantom /\ reacting' = NoPhantom
    /\ IF IsIdle(reacting) /\ brain.queued = NoPhantom THEN Sends(reacting, Notice("queue")) ELSE Silent
    /\ UNCHANGED <<player, brain, batches, stages, readies, survey, venue, plan>>

\* _ambientCheck, before it may speak: with nothing going on, two of the idle are to play.  By
\* the next check, 15 seconds later, the joiner has been sent.
AmbientCheck ==
    LET nothing == ~brain.orchestrating /\ brain.queued = NoPhantom /\ brain.waiting = NoPhantom /\ InGame = {}
    IN
    /\ survey = NoCheck /\ stages = {} /\ Spend("checks")
    /\ IF nothing /\ Cardinality(OnlineIdle) >= 2
       THEN \E creator, joiner \in OnlineIdle :
                /\ creator # joiner
                /\ brain' = [brain EXCEPT !.orchestrating = TRUE]
                /\ Sends(creator, Notice("create")) /\ stages' = {<<creator, joiner>>}
                /\ survey' = [idle |-> OnlineIdle, acted |-> {creator}]
       ELSE survey' = [idle |-> OnlineIdle, acted |-> {}] /\ Silent /\ UNCHANGED <<brain, stages>>
    /\ UNCHANGED <<player, batches, reacting, readies, venue>>

\* joinRoom and leaveRoom, where they may
Joins(p, room) == IF player[p].phase = "idle" THEN Sends(p, [Notice("join") EXCEPT !.room = room]) ELSE Silent

\* ... and after it has: one who was idle then joins the room that has waited for long, or its
\* host gives up.
AmbientRoom ==
    LET w == brain.waiting
        waits == w \notin {NoPhantom} \cup survey.acted /\ player[w].phase = "in-room" /\ player[w].room # 0
    IN
    /\ survey # NoCheck /\ survey' = NoCheck
    /\ \/ Silent /\ UNCHANGED <<player, brain>>
       \/ \E j \in survey.idle \ {w} : waits /\ Joins(j, player[w].room) /\ UNCHANGED <<player, brain>>
       \/ /\ waits /\ survey.idle = {}
          /\ Sends(w, [Notice("leave room") EXCEPT !.room = player[w].room])
          /\ player' = [player EXCEPT ![w].room = 0, ![w].phase = "idle"]
          /\ brain' = Informed(brain, w, "idle")
    /\ UNCHANGED <<batches, reacting, stages, readies, venue, plan>>

\* The second step of _orchestrateGame; both then ready up.
StageFires(t) ==
    LET creator == player[t[1]]
        ready == creator.phase = "in-room" /\ creator.room # 0 /\ IsIdle(t[2])
    IN
    /\ t \in stages /\ stages' = stages \ {t}
    /\ IF ready
       THEN /\ Sends(t[2], [Notice("join") EXCEPT !.room = creator.room])
            /\ readies' = readies \cup {[of |-> t[1], room |-> 0], [of |-> t[2], room |-> 0]}
            /\ survey' = (IF survey = NoCheck THEN NoCheck ELSE [survey EXCEPT !.acted = @ \cup {t[2]}]) /\ UNCHANGED brain
       ELSE brain' = [brain EXCEPT !.orchestrating = FALSE] /\ Silent /\ UNCHANGED <<readies, survey>>
    /\ UNCHANGED <<player, batches, reacting, venue, plan>>

\* readyUp
ReadyFires(r) ==
    LET q == player[r.of] IN
    /\ r \in readies /\ readies' = readies \ {r}
    /\ brain' = [brain EXCEPT !.scheduled = @ \ {<<r.room, r.of>>}]
    /\ IF q.phase = "in-room" /\ q.room # 0 THEN Sends(r.of, [Notice("ready") EXCEPT !.room = q.room]) ELSE Silent
    /\ UNCHANGED <<player, batches, reacting, stages, survey, venue, plan>>

BrainStep ==
    \/ StatsRise \/ LockExpires \/ React \/ AmbientCheck \/ AmbientRoom
    \/ \E t \in stages : StageFires(t)
    \/ \E r \in readies : ReadyFires(r)

------------------------------------------------------------------------------
(* The server, as the phantoms expect it *)

Seat(p) == venue.seat[p]
Connections(p) == {c \in DOMAIN sockets : sockets[c].of = p /\ sockets[c].state = "open"}
In(room) == {p \in Phantom : Seat(p).at = "room" /\ Seat(p).room = room}
Seated(p, seat) == [venue EXCEPT !.seat[p] = seat]

\* What is sent to some of the phantoms, on whatever connections they have.
Dispatched(cs, ps, es) == [c \in DOMAIN cs |-> IF cs[c].of \in ps /\ cs[c].state = "open" THEN [cs[c] EXCEPT !.in = @ \o es] ELSE cs[c]]
Update(v, room, status) ==
    LET inside == {p \in Phantom : v.seat[p].at = "room" /\ v.seat[p].room = room}
    IN [kind |-> "updated", room |-> room, status |-> status, players |-> inside, ready |-> v.rooms[room].ready,
        two |-> Cardinality(inside) + (IF v.rooms[room].guest THEN 1 ELSE 0) = 2]
SyncOf(p) ==
    [Notice("sync") EXCEPT !.phase = CASE Seat(p).at = "queue" -> "matchmaking" [] Seat(p).at = "room" -> "in-room"
                                      [] Seat(p).at = "game" -> "in-game" [] OTHER -> "idle",
                          !.game = Seat(p).game, !.turn = Seat(p).turn]

\* A new connection of somebody takes the place of the earlier ones.
Admit(c) ==
    LET p == sockets[c].of IN
    /\ sockets[c].state = "opening"
    /\ sockets' = [Dispatched(sockets, {p}, <<Notice("kicked"), Notice("closed")>>) EXCEPT
                        ![c].state = "open", ![c].in = <<Notice("connect"), SyncOf(p)>>]
    /\ UNCHANGED <<player, brain, batches, reacting, stages, readies, survey, halted, venue, plan>>

\* The answer to a request.
Served(c, v, p, es) == venue' = v /\ sockets' = Dispatched([sockets EXCEPT ![c].out = Tail(@)], {p}, es)
ServedRoom(c, v, p, es, room) ==
    /\ venue' = v
    /\ sockets' = Dispatched(Dispatched([sockets EXCEPT ![c].out = Tail(@)], {p}, es),
                       {q \in Phantom : v.seat[q].at = "room" /\ v.seat[q].room = room}, <<Update(v, room, "waiting")>>)

Joinable(room) == Cardinality(In(room)) = 1 /\ ~venue.rooms[room].guest

\* Rooms may be full, or the request come too late.
Refusable(p, r) ==
    CASE r.kind = "move" -> ~(Seat(p).at = "game" /\ Seat(p).game = r.game /\ Seat(p).turn = "mine")
      [] r.kind \in {"resign", "sync"} -> ~(Seat(p).at = "game" /\ Seat(p).game = r.game)
      [] r.kind = "queue" -> Seat(p).at # "idle"
      [] r.kind = "create" -> Seat(p).at # "idle" \/ plan.rooms = 0
      [] r.kind = "join" -> Seat(p).at # "idle" \/ ~Joinable(r.room)
      [] r.kind = "unqueue" -> Seat(p).at # "queue"
      [] r.kind = "ready" -> p \notin In(r.room) \ venue.rooms[r.room].ready
      [] r.kind = "leave room" -> p \notin In(r.room)
      [] OTHER -> TRUE

Answer(c) ==
    LET p == sockets[c].of
        r == Head(sockets[c].out)
        seat == Seat(p)
        playing == seat.at = "game" /\ seat.game = r.game
    IN
    /\ sockets[c].state = "open" /\ sockets[c].out # << >>
    /\ \/ /\ r.kind = "queue" /\ seat.at = "idle"
          /\ Served(c, Seated(p, [NoSeat EXCEPT !.at = "queue"]), p, <<Notice("queued")>>) /\ UNCHANGED plan
       \/ /\ r.kind = "unqueue" /\ seat.at = "queue" /\ Served(c, Seated(p, NoSeat), p, <<Notice("left")>>) /\ UNCHANGED plan
       \/ /\ r.kind = "create" /\ seat.at = "idle" /\ Spend("rooms")
          /\ LET n == Len(venue.rooms) + 1
                 v == [Seated(p, [NoSeat EXCEPT !.at = "room", !.room = n]) EXCEPT !.rooms = Append(@, [guest |-> FALSE, ready |-> {}])]
             IN Served(c, v, p, <<[Notice("created") EXCEPT !.room = n]>>)
       \/ /\ r.kind = "join" /\ seat.at = "idle" /\ Joinable(r.room)
          /\ ServedRoom(c, Seated(p, [NoSeat EXCEPT !.at = "room", !.room = r.room]), p, <<[Notice("joined") EXCEPT !.room = r.room]>>, r.room)
          /\ UNCHANGED plan
       \/ /\ r.kind = "ready" /\ p \in In(r.room) \ venue.rooms[r.room].ready
          /\ ServedRoom(c, [venue EXCEPT !.rooms[r.room].ready = @ \cup {p}], p, << >>, r.room) /\ UNCHANGED plan
       \/ /\ r.kind = "leave room" /\ p \in In(r.room)
          /\ ServedRoom(c, Seated(p, NoSeat), p, << >>, r.room) /\ UNCHANGED plan
       \/ /\ r.kind = "move" /\ playing /\ seat.turn = "mine"
          /\ \/ \E t \in {"mine", "theirs"} :
                Spend("moves") /\ Served(c, [venue EXCEPT !.seat[p].turn = t], p, <<[Notice("moved") EXCEPT !.game = r.game, !.turn = t]>>)
             \/ Served(c, Seated(p, NoSeat), p, <<[Notice("moved") EXCEPT !.game = r.game, !.turn = "over"], Notice("over")>>)
                /\ UNCHANGED plan
       \/ /\ r.kind = "resign" /\ playing /\ Served(c, Seated(p, NoSeat), p, <<Notice("over")>>) /\ UNCHANGED plan
       \/ /\ r.kind = "sync" /\ playing
          /\ Served(c, venue, p, <<[Notice("state") EXCEPT !.game = r.game, !.turn = seat.turn]>>) /\ UNCHANGED plan
       \/ Refusable(p, r) /\ Served(c, venue, p, << >>) /\ UNCHANGED plan
    /\ UNCHANGED <<player, brain, batches, reacting, stages, readies, survey, halted>>

Unmoved == UNCHANGED <<player, brain, batches, reacting, stages, readies, survey, halted>>

\* A person joins a phantom's room; a game is found, or the room starts; whoever they play
\* against moves; a game ends; a host is put out; the place of the absent is given up.
PersonJoins(room) ==
    /\ Joinable(room) /\ Spend("others")
    /\ LET v == [venue EXCEPT !.rooms[room].guest = TRUE]
       IN venue' = v /\ sockets' = Dispatched(sockets, In(room), <<Update(v, room, "waiting")>>)
    /\ Unmoved

Started(ps, es) ==
    LET g == venue.games + 1 IN
    \E first \in IF Cardinality(ps) = 2 THEN ps ELSE ps \cup {NoPhantom} :
        LET turn(p) == IF p = first THEN "mine" ELSE "theirs"
            found(p) == <<[Notice("found") EXCEPT !.game = g], [Notice("start") EXCEPT !.game = g, !.turn = turn(p)]>>
        IN /\ venue' = [venue EXCEPT !.games = g,
                            !.seat = [p \in Phantom |-> IF p \in ps THEN [NoSeat EXCEPT !.at = "game", !.game = g, !.turn = turn(p)] ELSE @[p]]]
           /\ sockets' = [c \in DOMAIN sockets |-> IF c \in UNION {Connections(p) : p \in ps}
                              THEN [sockets[c] EXCEPT !.in = @ \o es \o found(sockets[c].of)] ELSE sockets[c]]

Matched(p) == Seat(p).at = "queue" /\ Spend("games") /\ Started({p}, << >>) /\ Unmoved
RoomStarts(room) ==
    LET update == Update(venue, room, "playing") IN
    /\ update.two /\ In(room) \subseteq venue.rooms[room].ready /\ Spend("games")
    /\ Started(In(room), <<update>>) /\ Unmoved

OpponentMoves(p) ==
    /\ Seat(p).at = "game" /\ Seat(p).turn = "theirs" /\ Spend("moves")
    /\ venue' = [venue EXCEPT !.seat[p].turn = "mine"]
    /\ sockets' = Dispatched(sockets, {p}, <<[Notice("moved") EXCEPT !.game = Seat(p).game, !.turn = "mine"]>>)
    /\ Unmoved
GameEnds(p) ==
    /\ Seat(p).at = "game" /\ Spend("moves") /\ venue' = Seated(p, NoSeat)
    /\ sockets' = Dispatched(sockets, {p}, <<Notice("over")>>)
    /\ Unmoved
PutOut(p) ==
    /\ Seat(p).at = "room" /\ Spend("others") /\ venue' = Seated(p, NoSeat)
    /\ sockets' = Dispatched(sockets, {p}, <<Notice("put out")>>)
    /\ Unmoved
GivenUp(p) ==
    /\ Seat(p).at \in {"queue", "room"} /\ Connections(p) = {} /\ venue' = Seated(p, NoSeat)
    /\ Unmoved /\ UNCHANGED <<sockets, plan>>

ServerStep ==
    \/ \E c \in DOMAIN sockets : Admit(c) \/ Answer(c)
    \/ \E room \in DOMAIN venue.rooms : PersonJoins(room) \/ RoomStarts(room)
    \/ \E p \in Phantom : Matched(p) \/ OpponentMoves(p) \/ GameEnds(p) \/ PutOut(p) \/ GivenUp(p)

PhantomNext == ~halted /\ (ManagerStep \/ PlayerStep \/ BrainStep \/ ServerStep)

------------------------------------------------------------------------------
(* Properties *)

\* The phantom is connected, and on the connection it holds.
Held(p) == player[p].connected /\ player[p].socket # 0 /\ sockets[player[p].socket].state = "open" /\ sockets[player[p].socket].up

\* A search always ends: whoever was told that it searches has a timeout armed that takes it
\* out of the queue, whatever timers of earlier searches fire or are cleared.  (One that finds
\* itself searching when it connects has none.)
SearchesTimeOut == \A p \in Phantom : player[p].phase = "matchmaking" /\ ~player[p].resumed => brain.searches[p] > 0

\* Nobody stalls: when it is a connected phantom's turn in the game it mirrors, a timer is armed
\* or something is still on its way, unless it has heard that the game is over.
UnderWay(p) == \E c \in DOMAIN sockets : sockets[c].of = p /\ (sockets[c].in # << >> \/ sockets[c].out # << >>)
NobodyStalls ==
    \A p \in Phantom :
        Held(p) /\ player[p].phase = "in-game" /\ player[p].board = player[p].game /\ OurTurn(player[p])
            => player[p].timer # "none" \/ player[p].goodbyes > 0 \/ UnderWay(p)

\* Nobody stays online for ever: a session that is timed has its timer armed, and whoever is
\* leaving, and not just coming back, has yet to leave.
NobodyOverstays ==
    \A p \in Phantom :
        /\ p \in brain.timed => brain.sessions[p] > 0
        /\ Held(p) /\ p \in brain.leaving /\ Awaiting(player[p].socket) = {} => brain.leaves[p] > 0

PhantomsAreSound == ~halted => SearchesTimeOut /\ NobodyStalls /\ NobodyOverstays
==============================================================================
