---------------------------- MODULE GameLifecycle ----------------------------
(***************************************************************************)
(* One installed game in the memory of the process that owns it: the        *)
(* players' sessions and their disconnect timers, the reveal and recovery   *)
(* timers, the clock, the shared promise of an ending, and the queue on     *)
(* which GameRoom.commit serialises everything that changes the game.       *)
(*                                                                         *)
(* A commit takes two steps here.  Inside the transaction the transition    *)
(* decides on a draft of the room; later the response arrives, is lost or   *)
(* reports a failure.  Between the two, sockets and timers go on.  Receipts, *)
(* takeovers and crashes are the subject of GameTransitions.                *)
(***************************************************************************)
EXTENDS Naturals, Sequences, FiniteSets

CONSTANTS
    Human,          \* the colours people play; a bot plays the other one
    Timed,          \* whether the game has a clock
    Beginnings,     \* "fresh": the colour reveal, "restored": after a restart
    Commands,       \* what the players' clients send besides a resignation
    MaxConnections, \* bound: sockets a player opens
    MaxFaults       \* bound: commits failed, responses and rereads lost

Colour == {"red", "black"}
GameCommand == {"acknowledge", "ready", "offer", "accept", "decline", "play"}

ASSUME HumanAssumption == Human \subseteq Colour /\ Human # {}
ASSUME TimedAssumption == Timed \in BOOLEAN
ASSUME BeginningsAssumption == Beginnings \subseteq {"fresh", "restored"}
ASSUME CommandsAssumption == Commands \subseteq GameCommand
ASSUME BoundsAssumption == MaxConnections \in Nat /\ MaxFaults \in Nat

VARIABLES
    game,      \* the installed state of the room
    durable,   \* the checkpoint in the database
    behind,    \* the database holds a revision the room has not installed
    due,       \* the restart deadline has passed
    conn,      \* each player's connection, 0 while there is none
    last,      \* the newest connection each player has had
    expiry,    \* each player's disconnect timer
    queue,     \* GameRoom.transitions: the commits to be run, in order
    decision,  \* what the head of the queue decided in its transaction
    ending,    \* GameRoom.ending: who waits for the game to end
    reveal,    \* the reveal timer
    recovery,  \* the recovery timer
    clock,     \* GameRoom.clockUpdate: a clock commit is pending
    busy,      \* the command each player, or the move the bot, waits for
    faults

roomVars == <<game, durable, behind>>
sessionVars == <<conn, last>>
endVars == <<ending, expiry>>
timerVars == <<reveal, recovery, clock>>
vars == <<game, durable, behind, due, conn, last, expiry, queue, decision,
          ending, reveal, recovery, clock, busy, faults>>

Other(c) == IF c = "red" THEN "black" ELSE "red"

------------------------------------------------------------------------------
(* Game states *)

Game == [acks : SUBSET Colour, started : BOOLEAN, paused : BOOLEAN,
         ready : [Human -> Nat], over : BOOLEAN,
         winner : Colour \cup {"none"}, offer : Colour \cup {"none"},
         reason : {"none", "play", "resign", "disconnect", "timeout", "draw-agreement",
                   "restart-disconnect", "restart-abandoned"}]

\* openReveal has acknowledged the wheel for the bot.
Fresh == [acks |-> Colour \ Human, started |-> FALSE, paused |-> FALSE,
          ready |-> [h \in Human |-> 0], over |-> FALSE,
          winner |-> "none", offer |-> "none", reason |-> "none"]

EndIn(g, w, r) == [g EXCEPT !.over = TRUE, !.winner = w, !.reason = r, !.offer = "none"]

\* Mutant: the clock also runs while the players have not resumed.
TimeUpPaused(g) == {EndIn(g, w, "timeout") : w \in {c \in Colour : Timed /\ g.started}}

\* The elapsed clock is charged on the draft and may end the game for the
\* player to move, whoever that is.
TimeUp(g) == {EndIn(g, w, "timeout") : w \in {c \in Colour : Timed /\ g.started /\ ~g.paused}}

\* readyRecoveryPlayers: readiness counts for the connection that gave it.
Present(g) == {h \in Human : conn[h] # 0 /\ g.ready[h] = conn[h]}

\* The outcomes of recoveryDecision; none of them while it says to wait.
Evaluated(g) ==
    LET unpaused == [g EXCEPT !.paused = FALSE] IN
    CASE ~g.paused \/ (Present(g) # Human /\ ~due) -> {}
      [] g.paused /\ Present(g) = Human -> {[unpaused EXCEPT !.started = TRUE]}
      [] OTHER -> IF Cardinality(Present(g)) = 1
                  THEN {EndIn(unpaused, h, "restart-disconnect") : h \in Present(g)}
                  ELSE {EndIn(unpaused, "none", "restart-abandoned")}

------------------------------------------------------------------------------
(* Transitions: what each kind of commit makes of the room's state *)

Task == [kind : GameCommand \cup {"begin", "recover", "clock", "resign", "expire"},
         who : Colour \cup {"server"}, conn : Nat]

ServerTask(k) == [kind |-> k, who |-> "server", conn |-> 0]
IsEnding(t) == t.kind \in {"resign", "expire"}
IsCommand(t) == t.who \in Human /\ t.kind # "expire"

Acknowledged(g, c) ==
    IF g.paused \/ g.started \/ c \in g.acks THEN {}
    ELSE {[g EXCEPT !.acks = @ \cup {c}, !.started = (g.acks \cup {c} = Colour)]}

\* A late readiness only lets the deadline decide.
Readied(g, t) ==
    LET r == [g EXCEPT !.ready[t.who] = t.conn] IN
    IF ~g.paused \/ due THEN Evaluated(g)
    ELSE IF Evaluated(r) = {} THEN {r} ELSE Evaluated(r)

\* Mutant: an expiry is carried out whoever has come back meanwhile.
StillDisconnectedAlways(t) == TRUE

StillDisconnected(t) == conn[t.who] = 0

Answered(g, t) ==
    LET reply == IF t.kind = "accept" THEN EndIn(g, "none", "draw-agreement")
                                      ELSE [g EXCEPT !.offer = "none"]
    IN  IF g.offer \in {"none", t.who} THEN {} ELSE {reply} \cup TimeUp(g)

\* The drafts the transition of a task may return; with none of them it has
\* nothing to change.
Drafts(t) ==
    CASE t.kind = "acknowledge" -> Acknowledged(game, t.who)
      [] t.kind = "begin" ->
            IF game.paused \/ game.started THEN {} ELSE {[game EXCEPT !.started = TRUE]}
      [] t.kind = "ready" -> Readied(game, t)
      [] t.kind = "recover" -> Evaluated(game)
      [] t.kind = "clock" -> {game} \cup TimeUp(game)
      [] t.kind = "resign" -> {EndIn(game, Other(t.who), "resign")} \cup TimeUp(game)
      [] t.kind = "expire" ->
            {d \in {EndIn(game, Other(t.who), "disconnect")} \cup TimeUp(game) : StillDisconnected(t)}
      [] t.kind = "offer" ->
            {d \in {[game EXCEPT !.offer = t.who]} \cup TimeUp(game) : game.offer = "none"}
      [] t.kind \in {"accept", "decline"} -> Answered(game, t)
      [] t.kind = "play" ->
            {game, EndIn(game, t.who, "play"), EndIn(game, "none", "play")} \cup TimeUp(game)

\* A command of a replaced or lost connection is refused, and so are moves and
\* draws while the players have not resumed.
MustRefuse(t) ==
    \/ IsCommand(t) /\ conn[t.who] # t.conn
    \/ t.kind \in {"offer", "accept", "decline", "play"} /\ game.paused

\* The rules of the game and the cooldown of draw offers are not modelled.
MayRefuse(t) == t.kind = "play" \/ (t.kind = "offer" /\ game.offer = "none")

------------------------------------------------------------------------------
(* The queue *)

Undecided == [stage |-> "none", game |-> Fresh]
Head1 == Head(queue)
Enqueue(t) == queue' = Append(queue, t)

\* endGame: the first to end the game commits, the others wait for it.
JoinEnding(t) ==
    /\ ending' = ending \cup {[kind |-> t.kind, who |-> t.who]}
    /\ queue' = IF ending = {} THEN Append(queue, t) ELSE queue

\* Mutant: a reveal whose commit failed is not armed again.
RevealAfterOnce(t, g) == IF g.started \/ g.over \/ g.paused \/ t.kind = "begin" THEN "off" ELSE reveal

RevealAfter(t, g) ==
    IF g.started \/ g.over \/ g.paused THEN "off"
    ELSE IF t.kind = "begin" THEN "armed" ELSE reveal

\* Mutant: a recovery that failed is not armed again.
RecoveryAfterOnce(t, g) == IF g.over \/ t.kind = "recover" THEN "off" ELSE recovery

RecoveryAfter(t, g) ==
    IF g.over THEN "off"
    ELSE IF t.kind # "recover" THEN recovery
    ELSE IF g.paused THEN "armed" ELSE "off"

\* Mutant: the promise of a failed ending stays, for others to wait for.
EndingAfterStuck(t, ok) == IF IsEnding(t) /\ ok THEN {} ELSE ending

\* GameRoom.ending is dropped whether or not its commit came through.
EndingAfter(t, ok) == IF IsEnding(t) THEN {} ELSE ending

Waiting(t, k) == {h \in Human : IsEnding(t) /\ [kind |-> k, who |-> h] \in ending}

\* retryExpiry: a failed expiry is tried again while its player is away.
ExpiryAfter(t, ok, g) ==
    [h \in Human |-> IF ~ok /\ ~g.over /\ conn[h] = 0 /\ h \in Waiting(t, "expire")
                     THEN "retry" ELSE expiry[h]]

\* The promise of a commit settles, with g installed in the room.
Done(t, ok, g) ==
    /\ game' = g
    /\ queue' = Tail(queue)
    /\ decision' = Undecided
    /\ reveal' = RevealAfter(t, g)
    /\ recovery' = RecoveryAfter(t, g)
    /\ clock' = (clock /\ t.kind # "clock")
    /\ ending' = EndingAfter(t, ok)
    /\ expiry' = ExpiryAfter(t, ok, g)
    /\ busy' = [c \in Colour |->
                  IF (c = t.who /\ ~IsEnding(t)) \/ c \in Waiting(t, "resign") THEN "none" ELSE busy[c]]
    /\ UNCHANGED <<due, sessionVars>>

Fault == faults < MaxFaults /\ faults' = faults + 1

AtHead == queue # << >> /\ decision = Undecided
Open == AtHead /\ ~behind /\ ~game.over

\* The transition draws up a new state of the game.
Decide ==
    /\ Open /\ ~MustRefuse(Head1)
    /\ \E d \in Drafts(Head1) : decision' = [stage |-> "write", game |-> d]
    /\ UNCHANGED <<roomVars, due, sessionVars, endVars, queue, timerVars, busy, faults>>

\* The transition has nothing to change; only a command's receipt is written.
Pass ==
    /\ Open /\ ~MustRefuse(Head1) /\ Drafts(Head1) = {}
    /\ decision' = [stage |-> "pass", game |-> game]
    /\ UNCHANGED <<roomVars, due, sessionVars, endVars, queue, timerVars, busy, faults>>

\* The transition throws.
Refuse ==
    /\ Open /\ (MustRefuse(Head1) \/ MayRefuse(Head1))
    /\ Done(Head1, FALSE, game)
    /\ UNCHANGED <<durable, behind, faults>>

\* The room is behind the database, or the game has closed.  The room reads the
\* current state again, unless that fails too.
Conflict ==
    /\ AtHead /\ (behind \/ game.over)
    /\ durable' = durable
    /\ \/ behind' = FALSE /\ faults' = faults /\ Done(Head1, FALSE, durable)
       \/ behind' = behind /\ Fault /\ Done(Head1, FALSE, game)

Decided == decision # Undecided
Written == IF decision.stage = "write" THEN decision.game ELSE durable

\* The response of the commit arrives.
Land ==
    /\ Decided
    /\ durable' = Written
    /\ Done(Head1, TRUE, Written)
    /\ UNCHANGED <<behind, faults>>

\* The commit is stored and its response lost.  A command is confirmed by its
\* receipt, anything else only has its state read again; both may fail.
LandUnheard ==
    /\ Decided /\ Fault
    /\ durable' = Written
    /\ \/ Done(Head1, IsCommand(Head1), Written) /\ behind' = behind
       \/ Done(Head1, FALSE, Written) /\ behind' = behind
       \/ Done(Head1, FALSE, game) /\ behind' = (decision.stage = "write")

\* The commit fails and nothing is stored.
Fail ==
    /\ Decided /\ Fault
    /\ Done(Head1, FALSE, game)
    /\ UNCHANGED <<durable, behind>>

Serve == Decide \/ Pass \/ Refuse \/ Conflict \/ Land \/ LandUnheard \/ Fail

------------------------------------------------------------------------------
(* What enqueues: players, the bot, timers.  After the end of the game each  *)
(* of these is answered or dropped without effect, and is left out.          *)

Live == ~game.over

\* A session serves one command at a time, across its connections.
Command(h, k) ==
    /\ Live
    /\ conn[h] # 0 /\ busy[h] = "none"
    /\ k = "play" => game.started
    /\ k = "offer" => Other(h) \in Human
    /\ busy' = [busy EXCEPT ![h] = k]
    /\ Enqueue([kind |-> k, who |-> h, conn |-> conn[h]])
    /\ UNCHANGED <<roomVars, due, sessionVars, endVars, decision, timerVars, faults>>

Resign(h) ==
    /\ Live
    /\ conn[h] # 0 /\ busy[h] = "none"
    /\ busy' = [busy EXCEPT ![h] = "resign"]
    /\ JoinEnding([kind |-> "resign", who |-> h, conn |-> conn[h]])
    /\ UNCHANGED <<roomVars, due, sessionVars, expiry, decision, timerVars, faults>>

BotMove(c) ==
    /\ Live
    /\ game.started /\ ~game.paused
    /\ busy[c] = "none" /\ "play" \in Commands
    /\ busy' = [busy EXCEPT ![c] = "play"]
    /\ Enqueue([kind |-> "play", who |-> c, conn |-> 0])
    /\ UNCHANGED <<roomVars, due, sessionVars, endVars, decision, timerVars, faults>>

\* advanceClock keeps one update outstanding.
Tick ==
    /\ Live
    /\ Timed /\ game.started /\ ~game.paused /\ ~clock
    /\ clock' = TRUE
    /\ Enqueue(ServerTask("clock"))
    /\ UNCHANGED <<roomVars, due, sessionVars, endVars, decision, reveal, recovery, busy, faults>>

RevealFires ==
    /\ reveal = "armed"
    /\ reveal' = "waiting"
    /\ Enqueue(ServerTask("begin"))
    /\ UNCHANGED <<roomVars, due, sessionVars, endVars, decision, recovery, clock, busy, faults>>

DeadlinePasses ==
    /\ Live
    /\ ~due /\ recovery # "off"
    /\ due' = TRUE
    /\ UNCHANGED <<roomVars, sessionVars, endVars, queue, decision, timerVars, busy, faults>>

RecoveryFires ==
    /\ recovery = "armed" /\ due
    /\ recovery' = "waiting"
    /\ Enqueue(ServerTask("recover"))
    /\ UNCHANGED <<roomVars, due, sessionVars, endVars, decision, reveal, clock, busy, faults>>

\* expireDisconnectedGame gives way to a pending recovery, for good.
ExpiryFires(h) ==
    /\ expiry[h] # "none"
    /\ expiry' = [expiry EXCEPT ![h] = "none"]
    /\ IF game.paused \/ game.over
       THEN UNCHANGED <<ending, queue>>
       ELSE JoinEnding([kind |-> "expire", who |-> h, conn |-> 0])
    /\ UNCHANGED <<roomVars, due, conn, last, decision, timerVars, busy, faults>>

\* A new socket, in place of another one or after none, cancels the timer.
Connect(h) ==
    /\ Live
    /\ last[h] < MaxConnections
    /\ last' = [last EXCEPT ![h] = @ + 1]
    /\ conn' = [conn EXCEPT ![h] = last[h] + 1]
    /\ expiry' = [expiry EXCEPT ![h] = "none"]
    /\ UNCHANGED <<roomVars, due, queue, decision, ending, timerVars, busy, faults>>

Disconnect(h) ==
    /\ Live
    /\ conn[h] # 0
    /\ conn' = [conn EXCEPT ![h] = 0]
    /\ expiry' = [expiry EXCEPT ![h] = "grace"]
    /\ UNCHANGED <<roomVars, due, last, queue, decision, ending, timerVars, busy, faults>>

------------------------------------------------------------------------------

\* Either the game has just been created, for players of whom some may have
\* lost their connection meanwhile, or a restart has just restored it.
Init ==
    /\ \E b \in Beginnings, here \in SUBSET Human, started \in BOOLEAN, offer \in Human \cup {"none"} :
          /\ b = "restored" => here = {}
          /\ b = "fresh" => ~started
          /\ ~started => offer = "none"
          /\ game = [Fresh EXCEPT !.paused = (b = "restored"), !.started = started, !.offer = offer]
          /\ conn = [h \in Human |-> IF h \in here THEN 1 ELSE 0]
          /\ expiry = [h \in Human |-> IF b = "fresh" /\ h \notin here THEN "grace" ELSE "none"]
          /\ reveal = IF b = "fresh" THEN "armed" ELSE "off"
          /\ recovery = IF b = "fresh" THEN "off" ELSE "armed"
    /\ last = conn
    /\ durable = game
    /\ behind = FALSE /\ due = FALSE
    /\ queue = << >>
    /\ decision = Undecided
    /\ ending = {}
    /\ clock = FALSE
    /\ busy = [c \in Colour |-> "none"]
    /\ faults = 0

HumanStep(h) == Resign(h) \/ ExpiryFires(h) \/ Connect(h) \/ Disconnect(h) \/ \E k \in Commands : Command(h, k)
Timer == Tick \/ RevealFires \/ DeadlinePasses \/ RecoveryFires

Next == Serve \/ Timer \/ (\E h \in Human : HumanStep(h)) \/ (\E c \in Colour \ Human : BotMove(c))

Spec == Init /\ [][Next]_vars

\* The event loop runs the queue and fires the timers that are due.  Nothing
\* makes players connect, play or stay away, and faults stop at their bound.
Fairness ==
    /\ WF_vars(Serve) /\ WF_vars(RevealFires) /\ WF_vars(DeadlinePasses) /\ WF_vars(RecoveryFires)
    /\ \A h \in Human : WF_vars(ExpiryFires(h))

FairSpec == Spec /\ Fairness
------------------------------------------------------------------------------
(* Properties *)

\* The shape of every variable.
TypeOK ==
    /\ game \in Game /\ durable \in Game
    /\ behind \in BOOLEAN /\ due \in BOOLEAN /\ clock \in BOOLEAN
    /\ conn \in [Human -> Nat] /\ last \in [Human -> Nat]
    /\ expiry \in [Human -> {"none", "grace", "retry"}]
    /\ queue \in Seq(Task)
    /\ decision \in [stage : {"none", "pass", "write"}, game : Game]
    /\ ending \subseteq [kind : {"resign", "expire"}, who : Human]
    /\ reveal \in {"off", "armed", "waiting"} /\ recovery \in {"off", "armed", "waiting"}
    /\ busy \in [Colour -> GameCommand \cup {"resign", "none"}]
    /\ faults \in Nat

\* The transaction at the head of the queue decides on a new state.
Deciding == decision.stage = "none" /\ decision'.stage = "write"
Drawn == decision'.game
Forfeits(h) == Deciding /\ Drawn.reason = "disconnect" /\ Drawn.winner = Other(h)

\* A player is only ever forfeited while away, whatever was queued before the
\* expiry and however often it was retried; and never while the game waits for
\* its players after a restart.
OnlyTheAbsentForfeit ==
    [][\A h \in Human : Forfeits(h) => conn[h] = 0 /\ ~game.paused]_vars

\* Whose readiness stands on the connection they hold at this moment.
Answering(g) == {h \in Human : conn[h] # 0 /\ g.ready[h] = conn[h]}

FairEnd ==
    IF Drawn.over
    THEN /\ due /\ Answering(game) # Human
         /\ Drawn.winner = "none" <=> Cardinality(Answering(game)) # 1
         /\ Drawn.winner # "none" => Drawn.winner \in Answering(game)
    ELSE Answering(Drawn) = Human /\ Drawn.started

\* The pause after a restart ends in a running game only when each player has
\* answered on the connection held at that moment, and in a restart outcome only
\* after the deadline: for the one who has, or for nobody.
PauseEndsFairly == [][Deciding /\ game.paused /\ ~Drawn.paused => FairEnd]_vars

\* No game is ended, and no pause, at the cost of somebody who is there, or for the
\* benefit of somebody who is not.  (expireDisconnectedGame, recoveryDecision)
EndingsAreFair == OnlyTheAbsentForfeit /\ PauseEndsFairly

\* While the game is paused neither its clock nor anyone's move ends it.
PausedGameStandsStill ==
    [][Deciding /\ game.paused /\ Drawn.over =>
          Drawn.reason \in {"resign", "restart-disconnect", "restart-abandoned"}]_vars

\* A game that has not begun has its reveal timer, and a paused one its recovery
\* timer, armed or at work: no failed commit leaves it without either.
NothingIsLeftWaiting ==
    ~game.over =>
        /\ ~game.started /\ ~game.paused => reveal # "off"
        /\ game.paused => recovery # "off"

\* The promise of an ending is pending exactly as long as its commit is queued:
\* nobody joins an ending that will never settle, and none runs twice.
OneEndingAtATime ==
    IF ending = {} THEN \A i \in DOMAIN queue : ~IsEnding(queue[i])
    ELSE Cardinality({i \in DOMAIN queue : IsEnding(queue[i])}) = 1

\* The reveal and the restart pause come to an end, whoever is there, and every
\* command is answered, also one that waits for another's ending.
EveryWaitEnds ==
    /\ (~game.started \/ game.paused) ~> (game.over \/ (game.started /\ ~game.paused))
    /\ \A h \in Human : busy[h] # "none" ~> busy[h] = "none"

\* A player who stays away does not keep the game from ending.
AbsenceEndsTheGame == \A h \in Human : <>[](conn[h] = 0) => <>game.over
==============================================================================
