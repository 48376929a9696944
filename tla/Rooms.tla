--------------------------------- MODULE Rooms ---------------------------------
(***************************************************************************)
(* A waiting room: who sits and who watches in it, who is invited, on      *)
(* which terms it is played, who is away and for how long.                 *)
(*                                                                         *)
(* The database keeps the room's record; the process keeps a copy, a queue *)
(* of room work, whose head is modelled await by await, and the sessions.  *)
(* Commands are checked against the copy when they are sent and against    *)
(* the record when their transaction commits.  How a start that has been   *)
(* agreed on becomes a game, or is cancelled, is GameStarts; here it is    *)
(* one step.                                                               *)
(***************************************************************************)
EXTENDS Naturals, Sequences, FiniteSets

CONSTANTS
    Host, Guest,        \* who opens the room, and the others
    NoOne,
    Kind,               \* the kinds of room that are opened
    MaxOrders,          \* bound: commands and disconnections
    MaxTerms,           \* bound: versions of the settings
    MaxRoomQueue,       \* bound: waiting work
    MaxRoomFaults       \* bound: transactions failed or unheard, crashes

ASSUME RoomAssumption == Host \notin Guest /\ NoOne \notin Guest \cup {Host} /\ Kind \subseteq {"open", "auto", "challenge"}

VARIABLES
    room,       \* RoomRecord
    model,      \* the projection in gameRooms
    listed,     \* it is in gameRooms
    jobs, point,    \* room.changes and how far its head is
    again,      \* room.presenceRetryTimer is set
    phase, there,   \* the sessions: where, and whether connected
    hour,
    orders, roomFaults, agreed   \* counters, and a history: the terms agreed to

roomVars == <<room, model, listed, jobs, point, again, phase, there, hour,
              orders, roomFaults, agreed>>

Human == Guest \cup {Host}
InviteEnd == 2      \* when a challenge or an invitation expires, and time ends
Present == 0        \* no disconnectDeadline

\* The deadline of an absence noticed now; time ends with the last one.
Deadline == IF hour < InviteEnd THEN hour + 1 ELSE InviteEnd

Members(r) == r.players \cup r.watching
Alone(r) == Cardinality(r.players) + (IF r.bot THEN 1 ELSE 0) = 1

------------------------------------------------------------------------------
(* domain/roomRules.js, roomState.js *)

MayEdit(r) == r.status = "waiting" /\ r.kind # "challenge" /\ r.ready = {} /\ ~r.bot /\ (r.kind = "auto" => Alone(r))

IsReady(r, u) == (r.kind = "auto" \/ u \in r.ready) /\ r.until[u] = Present

CanStart(r) == r.status = "waiting" /\ ~Alone(r) /\ \A u \in r.players : IsReady(r, u)

\* Whoever goes; a room without its challenger or without people closes, another
\* gets a host, and everyone has to get ready again.
Without(r, u) ==
    LET left == [r EXCEPT !.players = @ \ {u}, !.watching = @ \ {u}, !.until[u] = Present] IN
    IF (u \in r.players /\ r.kind = "challenge") \/ left.players = {}
    THEN [left EXCEPT !.status = "closed", !.host = NoOne]
    ELSE [left EXCEPT !.ready = IF u \in r.players THEN {} ELSE @ \ {u},
                      !.host = IF @ \in left.players THEN @ ELSE CHOOSE v \in left.players : TRUE]

\* Those who are claimed by the room.
Claims(r) == (IF r.status = "waiting" THEN r.players ELSE {}) \cup (IF r.status = "closed" THEN {} ELSE r.watching)

------------------------------------------------------------------------------
(* The reducers: what a command may do to the record *)

\* Mutant: readiness is not tied to the terms that were shown.
MayReadyAnyTerms(t, r) == r.status = "waiting" /\ t.user \in r.players

MayReady(t, r) == r.status = "waiting" /\ t.user \in r.players /\ (t.on => r.terms = t.terms)

MayJoin(t, r) ==
    /\ r.status = "waiting" /\ Alone(r) /\ t.user \notin Members(r)
    /\ r.kind = "challenge" => t.user = r.invited /\ hour < InviteEnd

Joined(t, r) == [r EXCEPT !.players = @ \cup {t.user}, !.ready = {}, !.invited = IF r.kind = "challenge" THEN @ ELSE NoOne]

\* The records a piece of work may write.
Reduced(t, r) ==
    CASE t.kind = "join" /\ MayJoin(t, r) -> {Joined(t, r)}
      [] t.kind = "spectate" /\ r.status # "closed" /\ r.audience /\ t.user \notin Members(r) ->
            {[r EXCEPT !.watching = @ \cup {t.user}]}
      [] t.kind = "ready" /\ MayReady(t, r) ->
            {[r EXCEPT !.ready = IF t.on THEN @ \cup {t.user} ELSE @ \ {t.user}]}
      [] t.kind = "settings" /\ MayEdit(r) /\ r.host = t.user /\ model = t.base /\ r.terms < MaxTerms ->
            {[r EXCEPT !.terms = @ + 1, !.kind = "open", !.audience = b] : b \in {x \in BOOLEAN : x \/ r.watching = {}}}
      [] t.kind = "bot" /\ r.status = "waiting" /\ Alone(r) /\ r.host = t.user -> {[r EXCEPT !.bot = TRUE, !.invited = NoOne]}
      [] t.kind = "invite" /\ r.status = "waiting" /\ r.host = t.user /\ Alone(r) /\ r.kind # "challenge" /\ r.invited = NoOne ->
            {[r EXCEPT !.invited = t.whom]}
      [] t.kind = "decline" /\ r.invited = t.user ->
            IF r.kind # "challenge" THEN {[r EXCEPT !.invited = NoOne]}
            ELSE IF r.status = "waiting" /\ Alone(r) THEN {[r EXCEPT !.status = "closed"]} ELSE {}
      [] t.kind \in {"leave", "kick", "expire"} -> {Without(r, t.whom)}
      [] t.kind = "lapse" /\ r.kind = "challenge" -> {[r EXCEPT !.status = "closed"]}
      [] t.kind = "lapse" /\ r.kind # "challenge" -> {[r EXCEPT !.invited = IF hour < InviteEnd THEN @ ELSE NoOne]}
      [] t.kind = "start" -> {[r EXCEPT !.status = "playing"]}
      [] OTHER -> {}

Away(t, u) == u \in t.seen /\ (there[u] = (room.until[u] # Present))

\* reconcileRoomPresence: a member who went is given a deadline and loses readiness, one
\* who came back loses the deadline.
Updated(t, r) ==
    [r EXCEPT !.until = [u \in Human |-> IF u \in Members(r) /\ Away(t, u) THEN IF there[u] THEN Present ELSE Deadline ELSE r.until[u]],
              !.ready = {u \in r.ready : ~Away(t, u) \/ there[u]}]

Outcomes(t, r) == IF t.kind = "presence" THEN {Updated(t, r)} ELSE Reduced(t, r)

\* expireRoomMember: nobody came back, and it is still the same absence.
StillAbsent(t) == ~there[t.whom] /\ model.until[t.whom] = t.until /\ t.whom \in Members(model)

\* The guard of the work, looked at until its transaction commits.
Guard(t) ==
    CASE t.kind \in {"join", "spectate"} -> phase[t.user] = "idle" /\ t.fresh
      [] t.kind \in {"ready", "settings", "bot", "invite"} ->
            phase[t.user] = "in-room" /\ t.fresh
      [] t.kind = "kick" -> t.fresh /\ model.host = t.user
      [] t.kind = "leave" -> t.fresh /\ phase[t.user] \in {"in-room", "spectating"}
      [] t.kind = "decline" -> t.fresh
      [] t.kind = "expire" -> StillAbsent(t)
      [] OTHER -> TRUE

\* commitRoomRecord: nothing if the record is not the one the copy shows.
Results(t) == {r \in Outcomes(t, room) : model = room /\ Guard(t)}

Write(t, r) ==
    /\ room' = r
    /\ agreed' = CASE t.kind = "ready" /\ t.on -> [agreed EXCEPT ![t.user] = t.terms]
                   [] t.kind = "join" -> [agreed EXCEPT ![t.user] = IF r.kind = "auto" THEN r.terms ELSE 0]
                   [] OTHER -> agreed

------------------------------------------------------------------------------
(* domain/roomRuntime.js *)

\* Mutant: those who are no longer members stay where they are.
ShownInRoomStill(before, r) ==
    [u \in Human |->
        IF u \in r.watching /\ r.status # "closed" /\ phase[u] = "idle" THEN "spectating"
        ELSE IF u \in r.players /\ r.status = "waiting" /\ phase[u] = "idle" THEN "in-room" ELSE phase[u]]

\* applyRoomSessions: former members are sent away, members are shown the room.
ShownInRoom(before, r) ==
    [u \in Human |->
        LET now == IF u \in Members(before) /\ (r.status = "closed" \/ u \notin Members(r)) /\ phase[u] \in {"in-room", "spectating"}
                   THEN "idle" ELSE phase[u] IN
        IF u \in r.watching /\ r.status # "closed" /\ now = "idle" THEN "spectating"
        ELSE IF u \in r.players /\ r.status = "waiting" /\ now = "idle" THEN "in-room" ELSE now]

\* acceptRoomRecord: the copy becomes what the database says.
Accept ==
    /\ model' = room /\ listed' = (room.status # "closed")
    /\ phase' = [u \in Human |-> IF room.status = "playing" /\ u \in room.players THEN "in-game"
                                 ELSE ShownInRoom(model, room)[u]]

Keep == UNCHANGED <<model, listed, phase>>
KeepData == UNCHANGED <<room, agreed>>
Failing(n) == roomFaults + n <= MaxRoomFaults /\ roomFaults' = roomFaults + n
Working(p) == jobs # << >> /\ point = p

Job(kind, user, whom) ==
    [kind |-> kind, user |-> user, whom |-> whom, fresh |-> user # NoOne,
     on |-> TRUE, terms |-> 0, until |-> 0, seen |-> {}, base |-> NoOne]

Presence(starting) == [Job("presence", NoOne, NoOne) EXCEPT !.on = starting]

\* What follows when work has ended: presence after admission, and a start where the
\* room is ready for it.  (Elsewhere startRoomGame would find nothing to do.)
Followed(t, ok) ==
    CASE ok /\ t.kind \in {"join", "spectate"} -> <<Presence(t.kind = "join" /\ model'.kind = "auto")>>
      [] ok /\ (t.kind \in {"ready", "bot"} \/ (t.kind = "presence" /\ t.on)) /\ CanStart(model') -> <<Job("start", NoOne, NoOne)>>
      [] OTHER -> << >>

Finish(t, ok) ==
    /\ jobs' = Tail(jobs) \o Followed(t, ok) /\ point' = "next"
    /\ again' = IF t.kind = "presence" THEN ~ok /\ listed' ELSE again

ByRecord == {"leave", "kick", "expire", "presence", "lapse"}

\* Whose presence the work looks at: players of a running game are the game's.
Seen(r) == IF r.status = "playing" THEN r.watching ELSE Members(r)

\* What the work finds in the record that makes it end at once.
Settled(t, r) ==
    \/ r.status = "closed"
    \/ t.kind \in {"leave", "kick", "expire"} /\ r.status = "playing" /\ t.whom \in r.players
    \/ t.kind = "lapse" /\ ~(r.invited # NoOne /\ r.status = "waiting" /\ Alone(r))
    \/ t.kind = "presence" /\ \A u \in Seen(r) : there[u] = (r.until[u] = Present)

\* Some work begins by reading the record; the rest goes by the copy.
Begin ==
    /\ Working("next")
    /\ \E t \in {Head(jobs)} :
        LET moot == \/ ~listed
                    \/ t.kind \in {"leave", "kick", "expire"} /\ ~Guard(t)
                    \/ t.kind = "start" /\ ~CanStart(model) IN
        \/ moot /\ Keep /\ Finish(t, TRUE) /\ UNCHANGED roomFaults
        \/ /\ ~moot /\ t.kind \notin ByRecord
           /\ point' = "write" /\ Keep /\ UNCHANGED <<jobs, again, roomFaults>>
        \/ /\ ~moot /\ t.kind \in ByRecord /\ Accept /\ UNCHANGED roomFaults
           /\ IF Settled(t, room) THEN Finish(t, TRUE)
              ELSE /\ point' = "write" /\ UNCHANGED again
                   /\ jobs' = <<[t EXCEPT !.seen = Seen(room)]>> \o Tail(jobs)
        \/ ~moot /\ t.kind \in ByRecord /\ Failing(1) /\ Keep /\ Finish(t, FALSE)
    /\ UNCHANGED <<room, agreed, there, hour, orders>>

To(p) == point' = p /\ UNCHANGED <<jobs, again>>

\* writeRoomRecord: when the answer is missing, a command finds its receipt, unless that
\* fails too; what is not known to be written is looked up, and the work has failed.
CommitWrite ==
    /\ Working("write")
    /\ \E t \in {Head(jobs)} :
        \/ /\ \E r \in Results(t) : Write(t, r)
           /\ \/ To("accept") /\ UNCHANGED roomFaults
              \/ To("accept") /\ Failing(1) /\ t.user # NoOne
              \/ To("look") /\ Failing(IF t.user # NoOne THEN 2 ELSE 1)
        \/ Results(t) = {} /\ KeepData /\ To("look") /\ UNCHANGED roomFaults
        \/ KeepData /\ To("look") /\ Failing(1)
    /\ Keep /\ UNCHANGED <<there, hour, orders>>

AcceptWrite ==
    /\ point \in {"accept", "look"} /\ Working(point)
    /\ \E t \in {Head(jobs)} :
        \/ Accept /\ Finish(t, point = "accept") /\ UNCHANGED roomFaults
        \/ Failing(1) /\ Keep /\ Finish(t, FALSE)
    /\ KeepData /\ UNCHANGED <<there, hour, orders>>

------------------------------------------------------------------------------
(* domain/rooms.js: what sets the work going *)

Enqueue(t) == jobs' = Append(jobs, t)
Idle(u) == there[u] /\ orders < MaxOrders /\ Len(jobs) < MaxRoomQueue /\ \A i \in DOMAIN jobs : jobs[i].user # u

\* A command that the copy does not refuse at once.
Order(u, t) ==
    /\ Idle(u) /\ listed /\ Enqueue(t) /\ orders' = orders + 1
    /\ UNCHANGED <<room, model, listed, point, again, phase, there, hour,
                   roomFaults, agreed>>

RoomJoin(u) == phase[u] = "idle" /\ model.status = "waiting" /\ Alone(model) /\ Order(u, Job("join", u, u))
RoomSpectate(u) == phase[u] = "idle" /\ model.audience /\ Order(u, Job("spectate", u, u))
RoomLeave(u) == phase[u] \in {"in-room", "spectating"} /\ Order(u, Job("leave", u, u))

InWaitingRoom(u) == phase[u] = "in-room" /\ model.status = "waiting"

\* room.pending: readiness is refused while any work is under way.
RoomReady(u) ==
    /\ InWaitingRoom(u) /\ u \in model.players /\ jobs = << >>
    /\ \E on \in BOOLEAN : (on = (u \notin model.ready))
          /\ Order(u, [Job("ready", u, NoOne) EXCEPT !.on = on, !.terms = model.terms])

\* Readiness to terms that the host has changed since they were shown.
RoomReadyLate(u) ==
    /\ InWaitingRoom(u) /\ u \in model.players \ model.ready /\ jobs = << >> /\ model.terms > 1
    /\ Order(u, [Job("ready", u, NoOne) EXCEPT !.terms = model.terms - 1])

RoomSettings(u) ==
    /\ InWaitingRoom(u) /\ model.host = u /\ MayEdit(model)
    /\ Order(u, [Job("settings", u, NoOne) EXCEPT !.base = model])

RoomKick(u, v) ==
    /\ phase[u] = "in-room" /\ model.host = u /\ u # v /\ v \in Members(model) /\ Order(u, Job("kick", u, v))

RoomInvite(u, v) ==
    /\ InWaitingRoom(u) /\ u = model.host /\ v # u /\ hour < InviteEnd /\ Alone(model) /\ model.kind # "challenge"
    /\ Order(u, Job("invite", u, v))

RoomDecline(u) == model.invited = u /\ Order(u, Job("decline", u, NoOne))
BotJoin(u) == InWaitingRoom(u) /\ model.host = u /\ Alone(model) /\ model.kind # "challenge" /\ Order(u, Job("bot", u, NoOne))

Still == UNCHANGED <<room, model, listed, point, hour, roomFaults, agreed>>
System(t) == Enqueue(t) /\ Still

\* Mutant: only the players' deadlines are watched.
ExpirableSeats(r) == {u \in r.players : r.until[u] # Present /\ r.until[u] <= hour /\ r.status # "playing"}

\* armRoomExpiry: whose deadline is over; players of a running game are the game's.
Expirable(r) == {u \in Seen(r) : r.until[u] # Present /\ r.until[u] <= hour}

ExpiryFires ==
    /\ listed /\ \A i \in DOMAIN jobs : jobs[i].kind \notin {"expire", "lapse"}
    /\ \/ \E u \in Expirable(model) :
              ~there[u] /\ System([Job("expire", NoOne, u) EXCEPT !.until = model.until[u]])
       \/ /\ model.invited # NoOne /\ hour >= InviteEnd /\ model.status = "waiting" /\ Alone(model)
          /\ System(Job("lapse", NoOne, NoOne))
    /\ UNCHANGED <<again, phase, there, orders>>

PresenceRetries ==
    /\ again /\ again' = FALSE /\ listed /\ System(Presence(FALSE))
    /\ UNCHANGED <<phase, there, orders>>

\* A disconnection is noted in every room of the person, whose commands are void.
Disconnect(u) ==
    LET void == [i \in DOMAIN jobs |-> [jobs[i] EXCEPT !.fresh = @ /\ jobs[i].user # u]] IN
    /\ there[u] /\ orders < MaxOrders /\ orders' = orders + 1
    /\ there' = [there EXCEPT ![u] = FALSE]
    /\ jobs' = IF listed /\ u \in Members(model) THEN Append(void, Presence(FALSE)) ELSE void
    /\ UNCHANGED <<again, phase>> /\ Still

\* reconcileUserRoom: the room that claims the person is read again, and tried to start.
Connect(u) ==
    /\ ~there[u] /\ there' = [there EXCEPT ![u] = TRUE]
    /\ jobs' = IF u \in Claims(room) THEN Append(jobs, Presence(TRUE)) ELSE jobs
    /\ UNCHANGED <<room, model, listed, point, again, phase, hour, orders, roomFaults, agreed>>

\* The game ends and closes its room; its players look at the result.
GameEnds ==
    /\ room.status = "playing" /\ model = room /\ jobs = << >>
    /\ room' = [room EXCEPT !.status = "closed"] /\ model' = room' /\ listed' = FALSE
    /\ phase' = [u \in Human |-> IF u \in Members(room) THEN "elsewhere" ELSE phase[u]]
    /\ UNCHANGED <<jobs, point, again, there, hour, orders, roomFaults, agreed>>

HourPasses ==
    /\ hour < InviteEnd /\ hour' = hour + 1
    /\ room.invited # NoOne \/ \E u \in Human : room.until[u] # Present
    /\ UNCHANGED <<room, model, listed, jobs, point, again, phase, there, orders,
                   roomFaults, agreed>>

------------------------------------------------------------------------------
(* Restarts *)

\* restoreRooms: everyone is away from now on, unless they were already, and nobody is
\* ready any more.  Time the process was down counts as before or after it.
Restart ==
    /\ Failing(1) /\ jobs' = << >> /\ point' = "next" /\ again' = FALSE
    /\ there' = [u \in Human |-> FALSE]
    /\ room' = IF room.status = "closed" THEN room
               ELSE [room EXCEPT !.ready = {},
                                 !.until = [u \in Human |-> IF u \in Members(room) /\ @[u] = Present THEN Deadline ELSE @[u]]]
    /\ model' = room' /\ listed' = (room.status # "closed")
    /\ phase' = [u \in Human |->
            IF phase[u] = "elsewhere" THEN "elsewhere"
            ELSE IF room.status = "playing" /\ u \in room.players THEN "in-game"
            ELSE IF room.status = "waiting" /\ u \in room.players THEN "in-room"
            ELSE IF room.status # "closed" /\ u \in room.watching THEN "spectating" ELSE "idle"]
    /\ UNCHANGED <<hour, orders, agreed>>

------------------------------------------------------------------------------
\* The room has just been created, as a command, by its host.
RoomInit ==
    /\ \E kind \in Kind, target \in Guest :
        room = [status |-> "waiting", host |-> Host, kind |-> kind, players |-> {Host}, watching |-> {}, ready |-> {},
                bot |-> FALSE, until |-> [u \in Human |-> Present], terms |-> 1, audience |-> kind # "challenge",
                invited |-> IF kind = "challenge" THEN target ELSE NoOne]
    /\ model = room /\ listed = TRUE
    /\ jobs = << >> /\ point = "next" /\ again = FALSE
    /\ phase = [u \in Human |-> IF u = Host THEN "in-room" ELSE "idle"]
    /\ there = [u \in Human |-> TRUE]
    /\ hour = 0 /\ orders = 0 /\ roomFaults = 0
    /\ agreed = [u \in Human |-> IF u = Host /\ room.kind = "auto" THEN 1 ELSE 0]

RoomWork == Begin \/ CommitWrite \/ AcceptWrite

RoomNext ==
    \/ RoomWork \/ ExpiryFires \/ PresenceRetries \/ GameEnds \/ HourPasses \/ Restart
    \/ \E u \in Human : \/ RoomJoin(u) \/ RoomSpectate(u) \/ RoomLeave(u) \/ RoomReady(u) \/ RoomReadyLate(u)
                        \/ RoomSettings(u) \/ RoomDecline(u) \/ BotJoin(u)
                        \/ Disconnect(u) \/ Connect(u)
    \/ \E u, v \in Human : RoomKick(u, v) \/ RoomInvite(u, v)

RoomSpec == RoomInit /\ [][RoomNext]_roomVars

\* The event loop goes on, timers fire, time passes, a stopped process is started again.
RoomFairness ==
    /\ WF_roomVars(RoomWork) /\ WF_roomVars(ExpiryFires) /\ WF_roomVars(PresenceRetries)
    /\ WF_roomVars(HourPasses)

------------------------------------------------------------------------------
(* Properties *)

\* A game starts only on the terms that each of its players agreed to, in readying up
\* or in entering a room that starts by itself.  (room:ready, room:settings)
ConsentIsToTheTerms ==
    [][(room.status = "waiting" /\ room'.status = "playing") => \A u \in room.players : agreed[u] = room.terms]_roomVars

\* Whenever no work is waiting, the copy is the record and nobody's retry is due, those
\* in the room are shown it and nobody else is.  (applyRoomSessions)
ScreensFollowMembership ==
    (jobs = << >> /\ model = room) =>
        \A u \in Human :
            /\ (phase[u] = "in-room") <=> (room.status = "waiting" /\ u \in room.players)
            /\ (phase[u] = "spectating") <=> (room.status # "closed" /\ u \in room.watching)

\* Whoever stays away goes once the absence has been written down.
\* (reconcileRoomPresence, armRoomExpiry, expireRoomMember)
NotedAbsencesEnd ==
    \A u \in Human : <>[](~there[u]) => <>[](u \notin Claims(room) \/ room.until[u] = Present)
==============================================================================
