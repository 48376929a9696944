-------------------------------- MODULE Results --------------------------------
(***************************************************************************)
(* What follows the end of a game: its result, seen by its two players and *)
(* the spectators of its room until they leave or its time is up, and the  *)
(* rematch both players may ask for.                                       *)
(*                                                                         *)
(* The database keeps the result's record, the rows that claim a person    *)
(* for a result, a game or something else, and the rematches' runs.  The   *)
(* owning process keeps a copy of the record and one queue of result work, *)
(* whose head is modelled await by await, beside the sessions and three    *)
(* timers.  Work reads the record anew before it does anything.  A         *)
(* transaction may fail, or commit without an answer.  The game's          *)
(* settlement is done, both players are viewers, and the rematch itself is *)
(* only begun and ended.                                                   *)
(***************************************************************************)
EXTENDS Naturals, Sequences, FiniteSets

CONSTANTS
    Player,         \* the two players of the game
    Spectator,      \* those who watched it in its room
    Early,          \* the spectators who were away at its end
    Restless,       \* those who lose their connections or go elsewhere
    Nobody,
    MaxRematches,   \* bound: rematches agreed on
    MaxConnections, \* bound: connections of one person
    MaxQueue,       \* bound: waiting result work that people ask for
    MaxResultFaults \* bound: transactions failed or unheard, crashes

ASSUME ResultAssumption ==
    /\ Player \cap Spectator = {} /\ Early \subseteq Spectator
    /\ Nobody \notin Player \cup Spectator /\ Restless \subseteq Player \cup Spectator
    /\ MaxRematches \in Nat /\ MaxConnections \in Nat /\ MaxQueue \in Nat /\ MaxResultFaults \in Nat

VARIABLES
    record,     \* GameResultRecord
    rematch,    \* GameRun of each rematch
    claim,      \* ActiveResultViewer: who is claimed by this result
    seat,       \* ActiveGamePlayer: the rematch that claims a player
    elsewhere,  \* claimed by another room, game or result
    receipts,   \* GameResultCommandReceipt: that of the command in progress exists
    used,       \* rematch keys drawn
    serving,    \* the process: "down", "restoring" or "serving"
    alive,      \* the game is in activeGames with its result
    copy,       \* game.resultRecord
    child,      \* game.resultChild: the run of the copy's rematch
    playing,    \* the rematches in activeGames
    session, online, connections,
    queue,      \* game.resultChanges
    stage, tries,   \* how far the head of the queue is
    resuming,   \* game.resultStarting
    expiry,     \* game.cleanupTimer: the time it waits for
    restart,    \* game.resultRetryTimer is set
    clock, resultFaults

durableResult == <<record, rematch, claim, seat, elsewhere, receipts, used>>
viewersNow == <<session, online, connections>>
resultRuntime == <<serving, alive, copy, child, playing, queue, stage, tries, resuming, expiry, restart>>
resultVars == <<durableResult, viewersNow, resultRuntime, clock, resultFaults>>

Person == Player \cup Spectator
Rematch == 1..MaxRematches
None == 0
Unset == 9
Due == 2        \* the time every player's view ends

------------------------------------------------------------------------------
(* domain/resultState.js *)

ViewersOf(r) == r.viewing \cup r.watching

ClosedIfEmpty(r) == IF ViewersOf(r) = {} THEN [r EXCEPT !.status = "closed"] ELSE r

Withdraw(r, who) ==
    [r EXCEPT !.viewing = @ \ who, !.requested = @ \ who, !.watching = @ \ who]

MayAsk(r, u) == r.status = "open" /\ clock < Due /\ u \in r.viewing /\ r.viewing = Player

\* The second request starts the rematch, under a key of its own.
WithRequest(r, u) ==
    LET asked == r.requested \cup {u} IN
    IF asked = Player THEN [r EXCEPT !.requested = asked, !.status = "starting", !.key = used + 1]
    ELSE [r EXCEPT !.requested = asked]

MayDismiss(r, u) == u \in ViewersOf(r) /\ ~(r.status = "starting" /\ u \in Player)

Outdated(r, now) ==
    (IF now >= Due THEN r.viewing ELSE {}) \cup {u \in r.watching : now >= (IF u \in Early THEN 1 ELSE Due)}

MayExpire(r, now) == r.status # "closed" /\ ~(r.status = "starting" /\ Outdated(r, now) \cap Player # {})

Expire(r, now) == ClosedIfEmpty(Withdraw(r, Outdated(r, now)))

\* Both view the result again, and have to ask again.
AfterCancelled(r) == [r EXCEPT !.status = "open", !.key = None, !.viewing = Player, !.requested = {}]

------------------------------------------------------------------------------
(* services/resultRecords.js, gameRuns.js: what the transactions do *)

RunOf(r) == IF r.key = None THEN "none" ELSE rematch[r.key]

\* Nobody may view a result and hold something else.
MaySave(r, seats) == \A u \in ViewersOf(r) : u \notin elsewhere /\ (u \in Player => seats[u] = None)

Save(r) == record' = r /\ claim' = ViewersOf(r)

MayCreate ==
    /\ record.status = "starting" /\ clock < Due /\ record.requested = Player
    /\ \A p \in Player : seat[p] = None /\ p \notin elsewhere /\ p \in claim

\* Mutant: the players keep their view of the result beside their seats.
CreateKeepingViews ==
    /\ rematch' = [rematch EXCEPT ![record.key] = "open"]
    /\ seat' = [p \in Player |-> record.key]
    /\ record' = [record EXCEPT !.status = "rematched", !.viewing = {}, !.requested = {}]
    /\ UNCHANGED <<claim, elsewhere, receipts, used>>

\* The rematch's run, its seats, and the end of the players' views, or nothing.
Create ==
    /\ rematch' = [rematch EXCEPT ![record.key] = "open"]
    /\ seat' = [p \in Player |-> record.key]
    /\ Save([record EXCEPT !.status = "rematched", !.viewing = {}, !.requested = {}])
    /\ UNCHANGED <<elsewhere, receipts, used>>

MayAbort == record.status = "rematched" /\ RunOf(record) \in {"open", "opened"}

\* Seats are given up and the result is what it was before anyone asked, except
\* for what the time has ended meanwhile.
Abort ==
    /\ rematch' = [rematch EXCEPT ![record.key] = "aborted"]
    /\ seat' = [p \in Player |-> None]
    /\ Save(Expire(AfterCancelled(record), clock))
    /\ UNCHANGED <<elsewhere, receipts, used>>

\* The guard of a command: its player still looks at this result, on the connection
\* that sent it.
InResult(t, shown) ==
    shown[t.user] = "result" /\ online[t.user] /\ connections[t.user] = t.connection

MayCancel(t) == record.status \in {"starting", "rematched"} /\ (t.kind = "leave" => InResult(t, session))

CancelRematch(t) ==
    IF ~MayCancel(t) THEN UNCHANGED durableResult
    ELSE IF RunOf(record) # "none" THEN MayAbort /\ Abort
    ELSE /\ Save(Expire(AfterCancelled(record), IF t.kind = "expire" THEN t.now ELSE clock))
         /\ UNCHANGED <<rematch, seat, elsewhere, receipts, used>>

IsCommand(t) == t.kind \in {"leave", "ask"}

\* The record the change asks for, if it is allowed.
Changed(t) ==
    { r \in
        CASE t.kind = "leave" /\ MayDismiss(record, t.user) /\ InResult(t, session) ->
                {ClosedIfEmpty(Withdraw(record, {t.user}))}
          [] t.kind = "ask" /\ MayAsk(record, t.user) /\ InResult(t, session) /\ used < MaxRematches ->
                {WithRequest(record, t.user)}
          [] t.kind = "expire" /\ MayExpire(record, t.now) -> {Expire(record, t.now)}
          [] OTHER -> {}
      : copy = record /\ MaySave(r, seat) }

Commit(t, r) ==
    /\ Save(r)
    /\ receipts' = IsCommand(t)
    /\ used' = IF r.key = None THEN used ELSE r.key
    /\ UNCHANGED <<rematch, seat, elsewhere>>

------------------------------------------------------------------------------
(* domain/resultRuntime.js *)

Pending(c, ch) ==
    c.status = "starting" \/ (c.status = "rematched" /\ ch \in {"open", "opened"} /\ c.key \notin playing)

\* Those who should have the result on their screen.
Wanted(c, ch) == ViewersOf(c) \cup (IF Pending(c, ch) THEN Player ELSE {})

Shown(c, ch, restoring) ==
    [u \in Person |->
        IF u \in Wanted(c, ch) /\ (session[u] = "idle" \/ (restoring /\ session[u] = "absent")) THEN "result"
        ELSE IF u \notin Wanted(c, ch) /\ session[u] = "result" THEN "idle"
        ELSE session[u]]

\* When the timer for the next expiry should fire.
Deadlines(c, ch) ==
    (IF c.viewing # {} \/ Pending(c, ch) THEN {Due} ELSE {})
        \cup {IF u \in Early THEN 1 ELSE Due : u \in c.watching}

Aim(c, ch) ==
    IF Deadlines(c, ch) = {} THEN Unset ELSE CHOOSE d \in Deadlines(c, ch) : \A e \in Deadlines(c, ch) : d <= e

Retired(c, ch) == ~Pending(c, ch) /\ ViewersOf(c) = {}

\* Mutant: a failed expiry leaves no timer behind.
ExpiryAfterForgotten(t, failed, begun, c, ch) ==
    IF failed /\ t.kind = "expire" THEN Unset ELSE IF begun THEN Aim(c, ch) ELSE expiry

ExpiryAfter(t, failed, begun, c, ch) ==
    IF failed /\ t.kind = "expire" THEN 0 ELSE IF begun THEN Aim(c, ch) ELSE expiry

Plain(kind, u) == [kind |-> kind, user |-> u, connection |-> 0, now |-> IF kind = "expire" THEN clock ELSE 0]

\* The work ends; what follows from it is queued or timed.
End(t, failed, begun, c, ch) ==
    LET retired == begun /\ Retired(c, ch)
        resume == ~failed /\ ~retired /\ ~resuming
                  /\ t.kind \in {"ask", "restore"} /\ t.user # Nobody IN
    /\ queue' = IF retired THEN << >>
                ELSE IF resume THEN Append(Tail(queue), Plain("resume", IF t.kind = "ask" THEN t.user ELSE Nobody))
                ELSE Tail(queue)
    /\ stage' = "idle" /\ tries' = 0
    /\ alive' = ~retired
    /\ expiry' = IF retired THEN Unset ELSE ExpiryAfter(t, failed, begun, c, ch)
    /\ resuming' = (resume \/ (resuming /\ ~retired /\ t.kind # "resume"))
    /\ restart' = IF retired THEN FALSE ELSE (restart \/ (failed /\ t.kind = "resume"))
    /\ online' = IF failed /\ t.kind = "restore" /\ t.user # Nobody
                 THEN [online EXCEPT ![t.user] = @ /\ connections[t.user] # t.connection] ELSE online
    /\ serving' = IF failed /\ serving = "restoring" THEN "down" ELSE serving

At(s) == serving # "down" /\ alive /\ queue # << >> /\ stage = s
Fault(n) == resultFaults + n <= MaxResultFaults /\ resultFaults' = resultFaults + n
Go(s) ==
    /\ stage' = s
    /\ UNCHANGED <<queue, tries, alive, expiry, resuming, restart, online, serving>>

\* Mutant: it does not matter whether the players are still there.
AttendingEver(shown) == {p \in Player : shown[p] = "result"}

Attending(shown) == {p \in Player : shown[p] = "result" /\ online[p]}

\* What the work does once it has read the record, at each of the points at which it
\* reads it; "first" at its beginning.
Route(t, c, ch, shown, first) ==
    LET pending == first /\ Pending(c, ch) IN
    CASE t.kind = "leave" -> IF ~InResult(t, shown) THEN "fail"
                             ELSE IF pending /\ t.user \in Player THEN "cancel"
                             ELSE IF t.user \in ViewersOf(c) THEN "change" ELSE "done"
      [] t.kind = "expire" -> IF pending /\ t.now >= Due THEN "cancel"
                              ELSE IF c.status # "closed" THEN "change" ELSE "done"
      [] t.kind = "ask" -> "change"
      [] t.kind = "resume" -> IF pending /\ clock >= Due THEN "cancel"
                              ELSE IF pending /\ Attending(shown) = Player THEN "create" ELSE "done"
      [] OTHER -> "done"

Onward(t, c, ch, shown) ==
    CASE stage = "idle" -> Route(t, c, ch, shown, TRUE)
      [] stage = "cancelled" -> Route(t, c, ch, shown, FALSE)
      [] stage = "again" /\ Pending(c, ch) -> IF tries = 0 THEN "create" ELSE "fail"
      [] stage = "regret" /\ (t.kind # "expire" \/ c.status # "closed") -> "fail"
      [] OTHER -> "done"

\* refreshResult, wherever the work calls it.  A session that is somewhere else in
\* the meantime makes it throw; the projection has begun by then.
Refresh ==
    /\ At(stage) /\ stage \in {"idle", "cancelled", "reread", "regret", "again"}
    /\ \E t \in {Head(queue)} :
        \/ /\ copy' = record /\ child' = RunOf(record)
           /\ session' = Shown(record, RunOf(record), t.kind = "restore")
           /\ LET next == IF \E u \in Wanted(record, RunOf(record)) : session[u] \in {"child", "away"} THEN "fail"
                          ELSE Onward(t, record, RunOf(record), session') IN
              IF next \in {"done", "fail"} THEN End(t, next = "fail", TRUE, record, RunOf(record))
              ELSE /\ stage' = next
                   /\ tries' = IF stage = "again" THEN 1 ELSE 0
                   /\ UNCHANGED <<queue, alive, expiry, resuming, restart, online, serving>>
           /\ UNCHANGED resultFaults
        \/ /\ Fault(1)
           /\ End(t, TRUE, stage # "idle", copy, child)
           /\ UNCHANGED <<copy, child, session>>
    /\ receipts' = (receipts /\ stage' # "idle")
    /\ UNCHANGED <<record, rematch, claim, seat, elsewhere, used, playing, connections, clock>>

\* cancelPending, which tries twice.
CancelStep ==
    /\ At("cancel")
    /\ \E t \in {Head(queue)} :
        \/ CancelRematch(t) /\ Go("cancelled") /\ UNCHANGED resultFaults
        \/ /\ Fault(1)
           /\ CancelRematch(t) \/ UNCHANGED durableResult
           /\ IF tries = 0 THEN /\ tries' = 1
                                /\ UNCHANGED <<queue, stage, alive, expiry, resuming, restart, online, serving>>
              ELSE End(t, TRUE, TRUE, copy, child)
    /\ UNCHANGED <<copy, child, playing, session, connections, clock>>

Unanswered(t) == IF IsCommand(t) THEN "confirm" ELSE "regret"

\* changeResult
ChangeStep ==
    /\ At("change")
    /\ \E t \in {Head(queue)} :
        \/ \E r \in Changed(t) : Commit(t, r) /\ Go("reread") /\ UNCHANGED resultFaults
        \/ Changed(t) = {} /\ Go(Unanswered(t)) /\ UNCHANGED <<durableResult, resultFaults>>
        \/ Fault(1) /\ Go(Unanswered(t)) /\ UNCHANGED durableResult
        \/ \E r \in Changed(t) : Fault(1) /\ Commit(t, r) /\ Go(Unanswered(t))
    /\ UNCHANGED <<copy, child, playing, session, connections, clock>>

\* The receipt proves that the command took effect.
ConfirmStep ==
    /\ At("confirm")
    /\ \/ Go(IF receipts THEN "reread" ELSE "regret") /\ UNCHANGED resultFaults
       \/ Fault(1) /\ Go("regret")
    /\ UNCHANGED <<durableResult, copy, child, playing, session, connections, clock>>

------------------------------------------------------------------------------
(* createGameDirect, for a rematch *)

\* One transaction: done, not done because something was in its way, failed, or done
\* without an answer.
Transaction(possible, effect, next) ==
    \/ possible /\ effect /\ Go(next) /\ UNCHANGED resultFaults
    \/ ~possible /\ Go("again") /\ UNCHANGED <<durableResult, resultFaults>>
    \/ Fault(1) /\ Go("again") /\ UNCHANGED durableResult
    \/ possible /\ Fault(1) /\ effect /\ Go("again")

NoEffect == UNCHANGED durableResult

CreateStep ==
    /\ At("create")
    /\ IF RunOf(record) # "none" THEN Transaction(TRUE, NoEffect, "seat") ELSE Transaction(MayCreate, Create, "seat")
    /\ UNCHANGED <<copy, child, playing, session, connections, clock>>

\* Nothing about the players changed while the transactions ran.
StillThere == Attending(session) = Player

\* openReveal: the first checkpoint of the game.
OpenReveal ==
    /\ rematch' = [rematch EXCEPT ![record.key] = "opened"]
    /\ UNCHANGED <<record, claim, seat, elsewhere, receipts, used>>

SeatStep ==
    /\ At("seat") /\ StillThere
    /\ IF RunOf(record) = "opened" THEN Go("seated") /\ UNCHANGED <<durableResult, resultFaults>>
       ELSE Transaction(TRUE, OpenReveal, "seated")
    /\ UNCHANGED <<copy, child, playing, session, connections, clock>>

InstallStep ==
    /\ At("seated") /\ StillThere
    /\ playing' = playing \cup {record.key}
    /\ session' = [u \in Person |-> IF u \in Player THEN "child" ELSE session[u]]
    /\ Go("settle")
    /\ UNCHANGED <<durableResult, copy, child, connections, clock, resultFaults>>

AbortStep ==
    /\ stage \in {"seat", "seated"} /\ At(stage) /\ ~StillThere
    /\ Transaction(MayAbort, Abort, "again")
    /\ UNCHANGED <<copy, child, playing, session, connections, clock>>

\* The result is expired once its players sit at the rematch.
SettleStep ==
    /\ At("settle")
    /\ Transaction(MayExpire(record, clock),
                   Commit(Plain("resume", Nobody), Expire(record, clock)), "again")
    /\ UNCHANGED <<copy, child, playing, session, connections, clock>>

------------------------------------------------------------------------------
(* What sets the work going *)

QueueWork(t) == queue' = Append(queue, t)
HasRoom == Len(queue) < MaxQueue

\* A session does one thing at a time.
Busy(u) == \E i \in DOMAIN queue : queue[i].user = u

SendCommand(u, kind) ==
    /\ serving = "serving" /\ alive /\ online[u] /\ ~Busy(u) /\ session[u] = "result"
    /\ kind = "ask" => u \in Player /\ used < MaxRematches
    /\ HasRoom /\ QueueWork([kind |-> kind, user |-> u, connection |-> connections[u], now |-> 0])
    /\ UNCHANGED <<durableResult, viewersNow, serving, alive, copy, child, playing, stage, tries, resuming, expiry, restart,
                   clock, resultFaults>>

ResultExpiryFires ==
    /\ serving # "down" /\ alive /\ expiry <= clock
    /\ QueueWork(Plain("expire", Nobody)) /\ expiry' = Unset
    /\ UNCHANGED <<durableResult, viewersNow, serving, alive, copy, child, playing, stage, tries, resuming, restart,
                   clock, resultFaults>>

RestartFires ==
    /\ serving = "serving" /\ alive /\ restart /\ restart' = FALSE
    /\ IF resuming THEN UNCHANGED <<queue, resuming>> ELSE QueueWork(Plain("resume", Nobody)) /\ resuming' = TRUE
    /\ UNCHANGED <<durableResult, viewersNow, serving, alive, copy, child, playing, stage, tries, expiry, clock, resultFaults>>

\* reconcileResultUser: a person the result concerns comes back.
ConnectViewer(u) ==
    /\ serving = "serving" /\ ~online[u] /\ ~Busy(u) /\ connections[u] < MaxConnections
    /\ online' = [online EXCEPT ![u] = TRUE]
    /\ connections' = [connections EXCEPT ![u] = @ + 1]
    /\ session' = [session EXCEPT ![u] = IF @ = "absent" THEN "idle" ELSE @]
    /\ IF alive /\ (u \in claim \/ session[u] = "result" \/ (u \in Player /\ seat[u] # None))
       THEN HasRoom /\ QueueWork([kind |-> "restore", user |-> u, connection |-> connections[u] + 1, now |-> 0])
       ELSE UNCHANGED queue
    /\ UNCHANGED <<durableResult, serving, alive, copy, child, playing, stage, tries, resuming, expiry, restart,
                   clock, resultFaults>>

DisconnectViewer(u) ==
    /\ online[u] /\ online' = [online EXCEPT ![u] = FALSE]
    /\ UNCHANGED <<durableResult, session, connections, resultRuntime, clock, resultFaults>>

\* Someone without a claim takes one elsewhere, and gives it up again.
Depart(u) ==
    /\ serving = "serving" /\ online[u] /\ ~Busy(u) /\ session[u] = "idle"
    /\ u \notin claim /\ (u \in Player => seat[u] = None)
    /\ elsewhere' = elsewhere \cup {u} /\ session' = [session EXCEPT ![u] = "away"]
    /\ UNCHANGED <<record, rematch, claim, seat, receipts, used, online, connections, resultRuntime, clock, resultFaults>>

Return(u) ==
    /\ serving = "serving" /\ session[u] = "away"
    /\ elsewhere' = elsewhere \ {u} /\ session' = [session EXCEPT ![u] = "idle"]
    /\ UNCHANGED <<record, rematch, claim, seat, receipts, used, online, connections, resultRuntime, clock, resultFaults>>

\* A rematch is played to its end, and its own result takes over.
ChildEnds(k) ==
    /\ serving = "serving" /\ k \in playing /\ rematch[k] = "opened"
    /\ rematch' = [rematch EXCEPT ![k] = "over"]
    /\ seat' = [p \in Player |-> IF seat[p] = k THEN None ELSE seat[p]]
    /\ elsewhere' = elsewhere \cup Player
    /\ session' = [u \in Person |-> IF session[u] = "child" THEN "away" ELSE session[u]]
    /\ UNCHANGED <<record, claim, receipts, used, online, connections, resultRuntime, clock, resultFaults>>

\* Its runtime goes when nobody looks at that result any more.
ChildRetires(k) ==
    /\ k \in playing /\ rematch[k] = "over" /\ Player \cap elsewhere = {}
    /\ playing' = playing \ {k}
    /\ UNCHANGED <<durableResult, viewersNow, serving, alive, copy, child, queue, stage, tries, resuming, expiry, restart,
                   clock, resultFaults>>

Tick ==
    /\ clock < Due /\ clock' = clock + 1
    /\ UNCHANGED <<durableResult, viewersNow, resultRuntime, resultFaults>>

------------------------------------------------------------------------------
(* Restarts *)

Crash ==
    /\ serving = "serving" /\ Fault(1) /\ serving' = "down"
    /\ alive' = FALSE /\ playing' = {} /\ queue' = << >> /\ stage' = "idle" /\ tries' = 0
    /\ resuming' = FALSE /\ expiry' = Unset /\ restart' = FALSE
    /\ online' = [u \in Person |-> FALSE] /\ session' = [u \in Person |-> "absent"]
    /\ UNCHANGED <<durableResult, connections, copy, child, clock>>

\* restoreActiveGames cancels the games without a checkpoint, all of them or none, and
\* installs the others; restoreFinishedGames then expires and shows what is left.
Boot ==
    /\ serving = "down"
    /\ IF \E k \in Rematch : rematch[k] = "open" THEN MayAbort /\ Abort ELSE UNCHANGED durableResult
    /\ playing' = {k \in Rematch : rematch[k] = "opened"}
    /\ alive' = (record'.status # "closed")
    /\ copy' = record' /\ child' = IF record'.key = None THEN "none" ELSE rematch'[record'.key]
    /\ session' = [u \in Person |-> IF u \in elsewhere THEN "away"
                                    ELSE IF u \in Player /\ seat'[u] # None THEN "child" ELSE "absent"]
    /\ queue' = IF alive' THEN <<Plain("expire", Nobody), Plain("restore", Nobody)>> ELSE << >>
    /\ serving' = "restoring" /\ stage' = "idle" /\ tries' = 0
    /\ resuming' = FALSE /\ expiry' = Unset /\ restart' = FALSE
    /\ UNCHANGED <<online, connections, clock, resultFaults>>

Open ==
    /\ serving = "restoring" /\ queue = << >>
    /\ serving' = "serving"
    /\ UNCHANGED <<durableResult, viewersNow, alive, copy, child, playing, queue, stage, tries, resuming, expiry, restart,
                   clock, resultFaults>>

------------------------------------------------------------------------------
\* The game has just ended in front of everyone; those who were away then are back.
ResultInit ==
    /\ \E audience \in SUBSET Spectator :
          /\ record = [status |-> "open", viewing |-> Player, requested |-> {}, watching |-> audience, key |-> None]
          /\ session = [u \in Person |-> IF u \in Player \cup audience THEN "result" ELSE "absent"]
          /\ online = [u \in Person |-> u \in Player \cup audience]
    /\ rematch = [k \in Rematch |-> "none"] /\ claim = ViewersOf(record) /\ seat = [p \in Player |-> None]
    /\ elsewhere = {} /\ receipts = FALSE /\ used = 0
    /\ serving = "serving" /\ alive = TRUE /\ copy = record /\ child = "none" /\ playing = {}
    /\ connections = [u \in Person |-> 0]
    /\ queue = << >> /\ stage = "idle" /\ tries = 0 /\ resuming = FALSE
    /\ expiry = Aim(record, "none") /\ restart = FALSE /\ clock = 0 /\ resultFaults \in 0..MaxResultFaults

Work ==
    \/ Refresh \/ CancelStep \/ ChangeStep \/ ConfirmStep
    \/ CreateStep \/ SeatStep \/ InstallStep \/ AbortStep \/ SettleStep

ResultNext ==
    \/ Work \/ ResultExpiryFires \/ RestartFires \/ Tick \/ Crash \/ Boot \/ Open
    \/ \E u \in Player \cup record.watching : ConnectViewer(u)
    \/ \E u \in Person : Return(u) \/ SendCommand(u, "leave")
    \/ \E u \in Restless : DisconnectViewer(u) \/ Depart(u)
    \/ \E p \in Player : SendCommand(p, "ask")
    \/ \E k \in Rematch : ChildEnds(k) \/ ChildRetires(k)

ResultSpec == ResultInit /\ [][ResultNext]_resultVars

\* The event loop goes on, timers fire, time passes, and a stopped process is started
\* again.  Nobody has to do anything.
ResultFairness ==
    /\ WF_resultVars(Work) /\ WF_resultVars(ResultExpiryFires) /\ WF_resultVars(Tick)
    /\ WF_resultVars(Boot) /\ WF_resultVars(Open)

------------------------------------------------------------------------------
(* Properties *)

\* Nobody ever holds two of: a view of this result, a seat in its rematch, something
\* else.  (saveViewers, assertPlayersAvailable, releaseGamePlayers)
HoldsOneThing ==
    /\ claim \cap elsewhere = {}
    /\ \A p \in Player : seat[p] # None => p \notin claim \cup elsewhere

\* Whenever no work is waiting and the record is known, everyone who is shown the
\* result holds a claim on it, or has a rematch pending, and everyone who holds
\* one is shown it, as far as they are there.  (refreshResult)
ScreensFollowClaims ==
    serving = "serving" /\ queue = << >> /\ alive /\ copy = record /\ child = RunOf(record) =>
        \A u \in Person :
            /\ session[u] = "result" => u \in Wanted(record, child)
            /\ u \in claim => session[u] \in {"result", "absent"}

\* What people are shown is what they hold, and they hold one thing.  (refreshResult,
\* saveViewers, assertPlayersAvailable, releaseGamePlayers)
PlacesAreOnesOwn == HoldsOneThing /\ ScreensFollowClaims

\* A player is taken to the rematch's board only while connected and looking at the
\* result, though both consented on earlier connections.  (resumeResultRematch,
\* createGameInRuntime)
NobodyIsSeatedInAbsence ==
    [][serving = "serving" =>
        \A p \in Player : session[p] # "child" /\ session'[p] = "child" => online[p] /\ session[p] = "result"]_resultVars

\* When their time is up all views of the result end, in the database and on the
\* screens, whatever failed on the way.  (armResultExpiry, expireResult,
\* restoreFinishedGames)
ResultsEnd == (clock = Due) ~> (claim = {} /\ \A u \in Person : session[u] # "result")

\* A rematch whose game was reserved and not begun can be undone: its result is still
\* there to go back to.  (restoreAbortedResult)
ReservedRematchesCanBeUndone ==
    \A k \in Rematch :
        serving # "down" /\ rematch[k] \in {"open", "opened"} /\ k \notin playing => record.status = "rematched" /\ record.key = k
==============================================================================
