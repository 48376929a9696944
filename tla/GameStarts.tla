------------------------------ MODULE GameStarts ------------------------------
(***************************************************************************)
(* How a room's game comes into being, and what becomes of the stakes.       *)
(*                                                                         *)
(* The database keeps rooms, runs, terminal jobs, the three tables that      *)
(* claim a person (for a room, a game, a result) and the coins.  The process *)
(* that owns them keeps a copy of each room, the installed games, the people *)
(* whose game is being created, and a queue of work per room, of which the   *)
(* task at its head is modelled step by step.  A transaction is one step,    *)
(* after which its response may be lost; it may also fail.  A crash stands   *)
(* for a takeover as well.  What is played is the subject of GameLifecycle;  *)
(* all players are registered people.                                       *)
(***************************************************************************)
EXTENDS Integers, FiniteSets, FiniteSetsExt

CONSTANTS
    Player, Room,
    NoRoom,         \* not a room
    Stake,          \* the buy-in of every room
    Fund,           \* the coins each player begins with
    WinReward, Consolation, Bounty, TaxPercent,   \* shared/constants.js
    MaxAttempts,    \* bound: starts a room accepts
    MaxStarts,      \* bound: runs there are when a start is accepted
    MaxFaults       \* bound: transactions failed, responses lost, crashes

ASSUME AmountsAssumption ==
    /\ \A n \in {Stake, Fund, WinReward, Consolation, Bounty} : n \in Nat
    /\ Stake > 0 /\ TaxPercent \in 0..100
ASSUME RoomAssumption == NoRoom \notin Room
ASSUME PeopleAssumption == IsFiniteSet(Player) /\ IsFiniteSet(Room)
ASSUME BoundsAssumption == {MaxAttempts, MaxStarts} \subseteq Nat /\ MaxFaults \in Nat

VARIABLES
    record,     \* RoomRecord
    run,        \* GameRun: its status and how far its checkpoint is
    job,        \* GameSettlementJob: the terminal intent
    member, seat, viewer,    \* ActiveRoomMember, ActiveGamePlayer, ActiveResultViewer
    coins, vault,
    bounty,     \* today's bounty of each player
    up,         \* the process serves; otherwise it is starting
    seen,       \* gameRooms: the copy of each room
    installed,  \* activeGames that are not over
    reserved,   \* startingPlayers
    task,       \* the room work in progress
    retry,      \* rooms with a start retry timer
    faults

moneyVars == <<coins, vault, bounty>>
claimVars == <<member, seat, viewer>>
durableVars == <<record, run, job, claimVars, moneyVars>>
runtimeVars == <<up, seen, installed, reserved, task, retry>>
vars == <<durableVars, runtimeVars, faults>>

Key == Room \X (1..MaxAttempts)
NoKey == <<NoRoom, 0>>
RoomOf(k) == k[1]

Outcome == [kind : {"win", "short"}, winner : Player] \cup [kind : {"draw", "abandoned"}]
RoomState == [status : {"none", "waiting", "starting", "playing", "closed"},
              players : SUBSET Player, key : Key \cup {NoKey}]
Absent == [status |-> "none", players |-> {}, key |-> NoKey]
Closed == [Absent EXCEPT !.status = "closed"]
NoJob == [kind |-> "none"]
NoRun == [status |-> "none", players |-> {}, board |-> "none"]
Idle == [stage |-> "none", leaving |-> FALSE, who |-> {}, key |-> NoKey, tries |-> 0]

------------------------------------------------------------------------------
(* What the repository's transactions do *)

Unfinished(k) == run[k].status = "open" /\ job[k] = NoJob

\* assertPlayersAvailable, assertRoomGameStart and deductCoins.
MayCreate(k) ==
    LET room == record[RoomOf(k)] IN
    /\ room.status = "starting" /\ room.key = k
    /\ \A p \in room.players :
          seat[p] = NoKey /\ viewer[p] = NoKey /\ member[p] = RoomOf(k) /\ coins[p] >= Stake

Debit(k) == [p \in Player |-> IF p \in record[RoomOf(k)].players THEN coins[p] - Stake ELSE coins[p]]

\* The run, both stakes and the players' seats, or nothing.
Create(k) ==
    LET room == record[RoomOf(k)] IN
    /\ run' = [run EXCEPT ![k] = [status |-> "open", players |-> room.players, board |-> "none"]]
    /\ coins' = Debit(k)
    /\ seat' = [p \in Player |-> IF p \in room.players THEN k ELSE seat[p]]
    /\ member' = [p \in Player |-> IF p \in room.players THEN NoRoom ELSE member[p]]
    /\ record' = [record EXCEPT ![RoomOf(k)].status = "playing"]
    /\ UNCHANGED <<job, viewer, vault, bounty>>

\* Mutant: the seats of the players are given up, whatever their game.
ReleasedPlayers(k) == [p \in Player |-> IF p \in run[k].players THEN NoKey ELSE seat[p]]

\* releaseGamePlayers: never the seats of a later game.
Released(k) == [p \in Player |-> IF seat[p] = k THEN NoKey ELSE seat[p]]

\* Mutant: a game that has begun can still be cancelled.
MayAbortBegun(k) == run[k].status = "open"

MayAbort(k) == Unfinished(k) /\ run[k].board \in {"none", "opening"}

\* restoreAbortedRoom
Reopened(k) == [record EXCEPT ![RoomOf(k)].status = "waiting", ![RoomOf(k)].key = NoKey]

\* Both stakes go back and the room waits again for the players, who have to
\* ready again.
Abort(k) ==
    /\ run' = [run EXCEPT ![k].status = "aborted"]
    /\ coins' = [p \in Player |-> IF p \in run[k].players THEN coins[p] + Stake ELSE coins[p]]
    /\ seat' = Released(k)
    /\ member' = [p \in Player |-> IF p \in run[k].players THEN RoomOf(k) ELSE member[p]]
    /\ record' = Reopened(k)
    /\ UNCHANGED <<job, viewer, vault, bounty>>

Tax == LET rounded == (2 * Stake * TaxPercent + 50) \div 100 IN IF rounded > 1 THEN rounded ELSE 1

\* What the outcome of a game credits to its player p, and what of it is new.
Credit(o, p) ==
    CASE o.kind = "abandoned" -> Stake
      [] o.kind = "draw" -> Stake + Consolation
      [] o.kind = "short" -> Stake + (IF p = o.winner THEN WinReward ELSE Consolation)
      [] o.kind = "win" -> IF p = o.winner THEN 2 * Stake - Tax + WinReward ELSE Consolation

Minted(o) ==
    CASE o.kind = "abandoned" -> 0
      [] o.kind = "draw" -> 2 * Consolation
      [] OTHER -> WinReward + Consolation

\* Mutant: the receipt of a settlement is not looked for.
UnsettledEver(k) == job[k] # NoJob

Unsettled(k) == job[k] # NoJob /\ run[k].status = "open"

Payable(balance, first) == IF balance >= Bounty THEN first ELSE {}

\* The vault pays the day's first win, or owes it.
Settle(k) ==
    LET o == job[k]
        taxed == vault + (IF o.kind = "win" THEN Tax ELSE 0)
        first == {p \in run[k].players : o.kind \in {"win", "short"} /\ p = o.winner /\ bounty[p] = "none"}
        paid == Payable(taxed, first) IN
    /\ Unsettled(k)
    /\ run' = [run EXCEPT ![k].status = "settled"]
    /\ coins' = [p \in Player |-> coins[p] + (IF p \in run[k].players THEN Credit(o, p) ELSE 0)
                                           + (IF p \in paid THEN Bounty ELSE 0)]
    /\ vault' = taxed - Bounty * Cardinality(paid)
    /\ bounty' = [p \in Player |-> IF p \in paid THEN "paid" ELSE IF p \in first THEN "owed" ELSE bounty[p]]
    /\ seat' = Released(k)
    /\ UNCHANGED <<record, job, member, viewer, runtimeVars, faults>>

ClaimPendingPayout(p) ==
    /\ bounty[p] = "owed" /\ vault >= Bounty
    /\ vault' = vault - Bounty
    /\ coins' = [coins EXCEPT ![p] = @ + Bounty]
    /\ bounty' = [bounty EXCEPT ![p] = "paid"]
    /\ UNCHANGED <<record, run, job, claimVars, runtimeVars, faults>>

------------------------------------------------------------------------------
(* Room work *)

Fault(n) == faults + n <= MaxFaults /\ faults' = faults + n
At(r, stage) == up /\ task[r].stage = stage
Go(r, stage) == task' = [task EXCEPT ![r].stage = stage]

\* Mutant: only a start that was never reserved is tried again.
UnresolvedStarting(copy) == copy.status = "starting"

\* A start with nothing to show for it keeps trying from a timer, if the room's
\* copy says that one was accepted.
Unresolved(copy) == copy.status = "starting" \/ (copy.status = "playing" /\ copy.key \notin installed)

\* The work ends, with the room's copy as it now is.
Finished(r, copy) ==
    /\ seen' = [seen EXCEPT ![r] = copy]
    /\ task' = [task EXCEPT ![r] = Idle]
    /\ retry' = IF ~task[r].leaving /\ Unresolved(copy) THEN retry \cup {r} ELSE retry

\* createGameInRuntime throws, giving up what it had reserved.
Thrown(r) ==
    /\ reserved' = reserved \ task[r].who
    /\ task' = [task EXCEPT ![r].stage = "reread", ![r].tries = @ + 1]
    /\ UNCHANGED <<up, seen, installed, retry>>

\* writeRoomRecord without a command: refused if the copy is not current (its
\* revision tells), and the reducer is never run again.  After an error the copy is
\* read anew, unless that fails too.
Write(r, new, next) ==
    \/ /\ seen[r] = record[r]
       /\ record' = [record EXCEPT ![r] = new] /\ seen' = [seen EXCEPT ![r] = new]
       /\ next /\ faults' = faults
    \/ \E stored \in BOOLEAN, reread \in BOOLEAN :
          /\ stored => seen[r] = record[r]
          /\ \/ Fault(IF reread THEN 1 ELSE 2)
             \/ seen[r] # record[r] /\ reread /\ faults' = faults
          /\ record' = [record EXCEPT ![r] = IF stored THEN new ELSE @]
          /\ Finished(r, IF reread THEN record'[r] ELSE seen[r])

\* Whether the people stay in the same sessions is not modelled: either way.
Unchanged == BOOLEAN

AcceptStart(r) ==
    /\ At(r, "accept")
    /\ Write(r, [seen[r] EXCEPT !.status = "starting", !.key = task[r].key],
             Go(r, "begin") /\ retry' = retry)
    /\ UNCHANGED <<run, job, claimVars, moneyVars, up, installed, reserved>>

\* A player of an unfinished game, of its result or of another start.
Occupied(p) == p \in reserved \/ viewer[p] # NoKey \/ \E k \in installed : p \in run[k].players

BeginCreation(r) ==
    /\ At(r, "begin")
    /\ IF \E p \in task[r].who : Occupied(p)
       THEN /\ task' = [task EXCEPT ![r].stage = "reread", ![r].tries = @ + 1]
            /\ reserved' = reserved
       ELSE /\ Go(r, "create")
            /\ reserved' = reserved \cup task[r].who
    /\ UNCHANGED <<durableVars, up, seen, installed, retry, faults>>

\* Runs whose seats these people hold without a game in this process; they are
\* cancelled first.
Stale(r) == {seat[p] : p \in task[r].who} \ ({NoKey, task[r].key} \cup installed)

CreateGameRun(r) ==
    LET k == task[r].key IN
    /\ At(r, "create")
    /\ IF Stale(r) # {}
       THEN \E old \in Stale(r) :
              \/ MayAbort(old) /\ Abort(old) /\ UNCHANGED <<runtimeVars, faults>>
              \/ UNCHANGED durableVars /\ Thrown(r) /\ (Fault(1) \/ (~MayAbort(old) /\ faults' = faults))
       ELSE
       \/ /\ IF run[k].status = "none" THEN MayCreate(k) /\ Create(k)
                                     ELSE run[k].status = "open" /\ UNCHANGED durableVars
          /\ \/ Go(r, "check") /\ UNCHANGED <<up, seen, installed, reserved, retry, faults>>
             \/ Fault(1) /\ Thrown(r)
       \/ /\ UNCHANGED durableVars /\ Thrown(r)
          /\ \/ Fault(1)
             \/ (IF run[k].status = "none" THEN ~MayCreate(k) ELSE run[k].status # "open") /\ faults' = faults

\* A run created before a lost response or in an earlier attempt may have its
\* reveal open already; then nothing is committed.
OpenReveal(r) ==
    LET k == task[r].key IN
    /\ At(r, "open")
    /\ IF run[k].board # "none" THEN Go(r, "install") /\ UNCHANGED <<run, up, seen, installed, reserved, retry, faults>> ELSE
       \/ /\ run' = [run EXCEPT ![k].board = "opening"]
          /\ \/ Go(r, "install") /\ UNCHANGED <<up, seen, installed, reserved, retry, faults>>
             \/ Fault(1) /\ Thrown(r)
       \/ UNCHANGED run /\ Fault(1) /\ Thrown(r)
    /\ UNCHANGED <<record, job, claimVars, moneyVars>>

CheckSessions(r) ==
    /\ At(r, "check")
    /\ \E same \in Unchanged : Go(r, IF same THEN "open" ELSE "abort")
    /\ UNCHANGED <<durableVars, up, seen, installed, reserved, retry, faults>>

InstallGame(r) ==
    /\ At(r, "install")
    /\ \E same \in Unchanged :
          IF same THEN /\ installed' = installed \cup {k \in {task[r].key} : run[k].board # "over"}
                       /\ reserved' = reserved \ task[r].who
                       /\ Go(r, "done")
          ELSE Go(r, "abort") /\ UNCHANGED <<installed, reserved>>
    /\ UNCHANGED <<durableVars, up, seen, retry, faults>>

\* The start is undone where it stands; whatever comes of it, it has failed.
AbortCreation(r) ==
    /\ At(r, "abort")
    /\ \/ MayAbort(task[r].key) /\ Abort(task[r].key) /\ (faults' = faults \/ Fault(1))
       \/ UNCHANGED durableVars /\ (Fault(1) \/ (~MayAbort(task[r].key) /\ faults' = faults))
    /\ Thrown(r)

\* The room's record decides what a failed attempt has led to.
RereadRoom(r) ==
    LET copy == record[r] IN
    /\ At(r, "reread")
    /\ \/ /\ faults' = faults
          /\ IF copy.status \in {"waiting", "closed"} \/ ~Unresolved(copy)
             THEN Finished(r, copy)
             ELSE /\ Go(r, IF task[r].tries < 2 THEN "begin" ELSE "cancel")
                  /\ seen' = [seen EXCEPT ![r] = copy] /\ retry' = retry
       \/ Fault(1) /\ Finished(r, seen[r])
    /\ UNCHANGED <<durableVars, up, installed, reserved>>

\* The game is installed.  An error of this read counts as one of the attempt.
ReadStarted(r) ==
    /\ At(r, "done")
    /\ \/ Finished(r, record[r]) /\ faults' = faults
       \/ /\ Fault(1)
          /\ task' = [task EXCEPT ![r].stage = "reread", ![r].tries = @ + 1]
          /\ UNCHANGED <<seen, retry>>
    /\ UNCHANGED <<durableVars, up, installed, reserved>>

\* cancelRoomStart: twice, if the first transaction does not answer.
CancelStart(r) ==
    LET k == seen[r].key
        gone == run[k].status \in {"none", "aborted"}
        error == IF task[r].tries = 2
                 THEN task' = [task EXCEPT ![r].tries = 3] /\ UNCHANGED <<seen, retry>>
                 ELSE Finished(r, seen[r]) IN
    /\ At(r, "cancel")
    /\ IF k = NoKey
       THEN UNCHANGED <<durableVars, faults>> /\ Finished(r, seen[r])
       ELSE \/ /\ IF gone THEN UNCHANGED durableVars ELSE MayAbort(k) /\ Abort(k)
               /\ \/ Go(r, "cancelled") /\ UNCHANGED <<seen, retry, faults>>
                  \/ Fault(1) /\ error
            \/ UNCHANGED durableVars /\ error /\ (Fault(1) \/ (~gone /\ ~MayAbort(k) /\ faults' = faults))
    /\ UNCHANGED <<up, installed, reserved>>

\* With the cancellation confirmed, a room that got no further than the accepted
\* start waits again.
ReadCancelled(r) ==
    /\ At(r, "cancelled")
    /\ \/ /\ faults' = faults
          /\ IF record[r].status = "starting"
             THEN seen' = [seen EXCEPT ![r] = record[r]] /\ retry' = retry /\ Go(r, "reset")
             ELSE IF task[r].leaving
             THEN seen' = [seen EXCEPT ![r] = record[r]] /\ retry' = retry /\ Go(r, "depart")
             ELSE Finished(r, record[r])
       \/ Fault(1) /\ Finished(r, seen[r])
    /\ UNCHANGED <<durableVars, up, installed, reserved>>

ResetRoom(r) ==
    LET waiting == [seen[r] EXCEPT !.status = "waiting", !.key = NoKey] IN
    /\ At(r, "reset")
    /\ Write(r, waiting, IF task[r].leaving THEN Go(r, "depart") /\ retry' = retry
                         ELSE task' = [task EXCEPT ![r] = Idle] /\ retry' = retry)
    /\ UNCHANGED <<run, job, claimVars, moneyVars, up, installed, reserved>>

\* Nobody leaves the game that is being played.
ReadBeforeLeaving(r) ==
    LET copy == record[r] IN
    /\ At(r, "leave")
    /\ \/ /\ faults' = faults
          /\ IF ~(task[r].who \subseteq copy.players) \/ copy.key \in installed THEN Finished(r, copy)
             ELSE /\ task' = [task EXCEPT ![r].stage = IF copy.key # NoKey THEN "cancel" ELSE "depart",
                                         ![r].tries = 2]
                  /\ seen' = [seen EXCEPT ![r] = copy] /\ retry' = retry
       \/ Fault(1) /\ Finished(r, seen[r])
    /\ UNCHANGED <<durableVars, up, installed, reserved>>

Without(room, gone) ==
    IF room.players \subseteq gone THEN Closed ELSE [room EXCEPT !.players = @ \ gone]

\* The departure itself; a lost response is confirmed by its receipt or read anew.
Depart(r) ==
    LET left == Without(seen[r], task[r].who) IN
    /\ At(r, "depart")
    /\ Write(r, left, Finished(r, left))
    /\ member' = [p \in Player |-> IF p \in task[r].who /\ record'[r] = left THEN NoRoom ELSE member[p]]
    /\ UNCHANGED <<run, job, seat, viewer, moneyVars, up, installed, reserved>>

\* The connection that asked to leave is gone.
AbandonLeaving(r) ==
    /\ \E stage \in {"leave", "cancel", "depart"} : At(r, stage)
    /\ task[r].leaving
    /\ Finished(r, seen[r])
    /\ UNCHANGED <<durableVars, up, installed, reserved, faults>>

Work(r) ==
    \/ AcceptStart(r) \/ BeginCreation(r) \/ CreateGameRun(r) \/ CheckSessions(r) \/ OpenReveal(r)
    \/ InstallGame(r) \/ AbortCreation(r) \/ RereadRoom(r) \/ ReadStarted(r)
    \/ CancelStart(r) \/ ReadCancelled(r) \/ ResetRoom(r) \/ ReadBeforeLeaving(r) \/ Depart(r)

------------------------------------------------------------------------------
(* What begins room work *)

Free(r) == up /\ task[r] = Idle
Begun(r, stage, leaving, who, key) ==
    task' = [task EXCEPT ![r] = [stage |-> stage, leaving |-> leaving, who |-> who, key |-> key, tries |-> 0]]

SessionIdle(p) == ~Occupied(p) /\ \A r \in Room : p \notin seen[r].players
MayEnter(p) == SessionIdle(p) /\ member[p] = NoRoom /\ seat[p] = NoKey /\ coins[p] >= Stake

OpenRoom(p, r) ==
    /\ Free(r) /\ record[r] = Absent /\ MayEnter(p)
    /\ record' = [record EXCEPT ![r] = [Absent EXCEPT !.status = "waiting", !.players = {p}]]
    /\ seen' = [seen EXCEPT ![r] = record'[r]]
    /\ member' = [member EXCEPT ![p] = r]
    /\ UNCHANGED <<run, job, seat, viewer, moneyVars, up, installed, reserved, task, retry, faults>>

\* A write against an outdated copy is refused by the record's revision.  The copy
\* lags if the response, its confirmation by receipt and the reading all fail.
JoinRoom(p, r) ==
    /\ Free(r) /\ seen[r] = record[r] /\ MayEnter(p)
    /\ record[r].status = "waiting" /\ Cardinality(record[r].players) < 2
    /\ record' = [record EXCEPT ![r].players = @ \cup {p}]
    /\ \/ seen' = [seen EXCEPT ![r] = record'[r]] /\ faults' = faults
       \/ seen' = seen /\ Fault(3)
    /\ member' = [member EXCEPT ![p] = r]
    /\ UNCHANGED <<run, job, seat, viewer, moneyVars, up, installed, reserved, task, retry>>

\* Both players are ready: the room draws up a start under a key of its own.
ReadyToStart(r) ==
    /\ Free(r) /\ seen[r] = record[r]
    /\ record[r].status = "waiting" /\ Cardinality(record[r].players) = 2
    /\ Cardinality({k \in Key : run[k].status # "none"}) < MaxStarts
    /\ \E n \in 1..MaxAttempts :
          /\ run[<<r, n>>].status = "none" /\ \A m \in 1..(n - 1) : run[<<r, m>>].status # "none"
          /\ Begun(r, "accept", FALSE, record[r].players, <<r, n>>)
    /\ UNCHANGED <<durableVars, up, seen, installed, reserved, retry, faults>>

\* tryStartRoom takes up an accepted start that has no game.
Resume(r) ==
    /\ Free(r)
    /\ IF Unresolved(seen[r]) THEN Begun(r, "begin", FALSE, seen[r].players, seen[r].key)
                              ELSE UNCHANGED task
    /\ UNCHANGED <<durableVars, up, seen, installed, reserved, faults>>

\* A timer that fires during another attempt is left to that attempt.
RetryFires(r) ==
    /\ r \in retry /\ retry' = retry \ {r}
    /\ \/ Resume(r)
       \/ /\ task[r] # Idle /\ ~task[r].leaving
          /\ UNCHANGED <<durableVars, up, seen, installed, reserved, task, faults>>
Reconnect(r) == Unresolved(seen[r]) /\ retry' = retry /\ Resume(r)

\* A player leaves, is removed, or is away for too long.
LeaveRoom(p, r) ==
    /\ Free(r) /\ p \in seen[r].players /\ ~Occupied(p)
    /\ Begun(r, "leave", TRUE, {p}, NoKey)
    /\ UNCHANGED <<durableVars, up, seen, installed, reserved, retry, faults>>

\* Presence changes and refused commands read the record again.
Refresh(r) ==
    /\ Free(r) /\ seen[r] # record[r]
    /\ seen' = [seen EXCEPT ![r] = record[r]]
    /\ UNCHANGED <<durableVars, up, installed, reserved, task, retry, faults>>

------------------------------------------------------------------------------
(* Games, results, and restarts *)

Play(k) ==
    /\ up /\ k \in installed /\ run[k].board = "opening"
    /\ run' = [run EXCEPT ![k].board = "started"]
    /\ UNCHANGED <<record, job, claimVars, moneyVars, runtimeVars, faults>>

\* The terminal checkpoint, its job, the end of the seats, the players' claims
\* to the result and the closing of the room commit together.
EndGame(k) ==
    /\ up /\ k \in installed
    /\ \E o \in Outcome : (o.kind \in {"win", "short"} => o.winner \in run[k].players) /\ job' = [job EXCEPT ![k] = o]
    /\ run' = [run EXCEPT ![k].board = "over"]
    /\ seat' = Released(k)
    /\ viewer' = [p \in Player |-> IF p \in run[k].players THEN k ELSE viewer[p]]
    /\ record' = [record EXCEPT ![RoomOf(k)] = Closed]
    /\ seen' = [seen EXCEPT ![RoomOf(k)] = Closed]
    /\ installed' = installed \ {k}
    /\ retry' = retry \ {RoomOf(k)}
    /\ UNCHANGED <<member, moneyVars, up, reserved, task, faults>>

DismissResult(p) ==
    /\ up /\ viewer[p] # NoKey
    /\ viewer' = [viewer EXCEPT ![p] = NoKey]
    /\ UNCHANGED <<record, run, job, member, seat, moneyVars, runtimeVars, faults>>

Crash ==
    /\ up /\ Fault(1)
    /\ up' = FALSE
    /\ seen' = [r \in Room |-> Absent]
    /\ installed' = {} /\ reserved' = {} /\ retry' = {}
    /\ task' = [r \in Room |-> Idle]
    /\ UNCHANGED durableVars

Uninstalled == {k \in Key : Unfinished(k) /\ run[k].board = "none"}
LiveGames == {k \in Key : Unfinished(k) /\ run[k].board # "none"}

\* restoreActiveGames first cancels the starts that never got a checkpoint.
BootAbort(k) ==
    /\ ~up /\ k \in Uninstalled
    /\ Abort(k)
    /\ UNCHANGED <<runtimeVars, faults>>

\* restoreRooms, after the games: an accepted start without a run is dropped.
BootReset(r) ==
    /\ ~up /\ Uninstalled = {}
    /\ record[r].status = "starting" /\ run[record[r].key].status \in {"none", "aborted"}
    /\ record' = [record EXCEPT ![r].status = "waiting", ![r].key = NoKey]
    /\ UNCHANGED <<run, job, claimVars, moneyVars, runtimeVars, faults>>

\* restoreGamePlayers rebuilds the seats.  A room whose game is missing stops
\* the start of the server.
BootUp ==
    /\ ~up /\ Uninstalled = {}
    /\ \A r \in Room : record[r].status # "starting" /\ (record[r].status = "playing" => record[r].key \in LiveGames)
    /\ up' = TRUE
    /\ installed' = LiveGames
    /\ seen' = record
    /\ seat' = [p \in Player |-> IF \E k \in LiveGames : p \in run[k].players
                                 THEN CHOOSE k \in LiveGames : p \in run[k].players ELSE NoKey]
    /\ UNCHANGED <<record, run, job, member, viewer, moneyVars, reserved, task, retry, faults>>

------------------------------------------------------------------------------

\* Some rooms have come and gone, and some faults are already behind us.
Init ==
    /\ record \in [Room -> {Absent, Closed}] /\ seen = record
    /\ run = [k \in Key |-> NoRun] /\ job = [k \in Key |-> NoJob]
    /\ member = [p \in Player |-> NoRoom]
    /\ seat = [p \in Player |-> NoKey] /\ viewer = seat
    /\ coins = [p \in Player |-> Fund] /\ vault = 0
    /\ bounty = [p \in Player |-> "none"]
    /\ up = TRUE
    /\ installed = {} /\ reserved = {} /\ retry = {}
    /\ task = [r \in Room |-> Idle]
    /\ faults \in 0..MaxFaults

Next ==
    \/ \E r \in Room : Work(r) \/ ReadyToStart(r) \/ RetryFires(r) \/ Reconnect(r) \/ Refresh(r)
                     \/ BootReset(r) \/ AbandonLeaving(r)
    \/ \E r \in Room, p \in Player : OpenRoom(p, r) \/ JoinRoom(p, r) \/ LeaveRoom(p, r)
    \/ \E k \in Key : Play(k) \/ EndGame(k) \/ Settle(k) \/ BootAbort(k)
    \/ \E p \in Player : DismissResult(p) \/ ClaimPendingPayout(p)
    \/ Crash \/ BootUp

Spec == Init /\ [][Next]_vars

\* Transactions end, timers fire and the settlement worker runs; a server that is
\* down is started.  A retry waits in the room's queue, where other work cannot
\* overtake it again and again.  Players and sessions do as they please.
Fairness ==
    /\ WF_vars(BootUp)
    /\ \A r \in Room : WF_vars(Work(r)) /\ SF_vars(RetryFires(r)) /\ WF_vars(BootReset(r))
    /\ \A k \in Key : WF_vars(BootAbort(k)) /\ WF_vars(Settle(k))

FairSpec == Spec /\ Fairness

------------------------------------------------------------------------------
(* Properties *)

\* The shape of every variable.
TypeOK ==
    /\ record \in [Room -> RoomState]
    /\ run \in [Key -> [status : {"none", "open", "aborted", "settled"}, players : SUBSET Player,
                        board : {"none", "opening", "started", "over"}]]
    /\ job \in [Key -> Outcome \cup {NoJob}]
    /\ member \in [Player -> Room \cup {NoRoom}]
    /\ seat \in [Player -> Key \cup {NoKey}] /\ viewer \in [Player -> Key \cup {NoKey}]
    /\ coins \in [Player -> Nat] /\ vault \in Nat
    /\ bounty \in [Player -> {"none", "owed", "paid"}]
    /\ up \in BOOLEAN
    /\ seen \in [Room -> RoomState]
    /\ installed \subseteq Key /\ reserved \subseteq Player /\ retry \subseteq Room
    /\ task \in [Room -> [stage : {"none", "accept", "begin", "create", "check", "open", "install", "abort",
                                   "reread", "done", "cancel", "cancelled", "reset", "leave", "depart"},
                          leaving : BOOLEAN, who : SUBSET Player, key : Key \cup {NoKey}, tries : 0..3]]
    /\ faults \in Nat

\* The players' coins, the vault and the stakes of open runs add up to what the
\* players began with and what settled games have newly paid: no stake is taken
\* twice for a retried start, returned twice, or both returned and won; and nobody,
\* the vault least, pays what it does not have.
CoinsAreConserved ==
    /\ vault >= 0 /\ \A p \in Player : coins[p] >= 0
    /\ MapThenSumSet(LAMBDA p : coins[p], Player) + vault + 2 * Stake * Cardinality({k \in Key : run[k].status = "open"})
         = Fund * Cardinality(Player)
           + MapThenSumSet(LAMBDA k : Minted(job[k]), {k \in Key : run[k].status = "settled"})

\* The three tables never claim a person twice, and each agrees with the room or
\* the run it speaks of, whatever was lost between their transactions: whoever
\* plays an unfinished game holds its seat, and nobody else any.
ClaimsAgree ==
    /\ \A p \in Player : Cardinality({t \in {member[p], seat[p], viewer[p]} : t \notin {NoRoom, NoKey}}) <= 1
    /\ \A p \in Player, r \in Room :
          member[p] = r <=> p \in record[r].players /\ record[r].status \in {"waiting", "starting"}
    /\ \A p \in Player, k \in Key : seat[p] = k <=> Unfinished(k) /\ p \in run[k].players
    /\ \A k \in Key : Unfinished(k) <=> record[RoomOf(k)].status = "playing" /\ record[RoomOf(k)].key = k

\* Every game in memory has an open run, and none that was installed or begun is
\* ever cancelled by a start, a departure or a restart.
GamesAreNotCancelled ==
    [][\A k \in Key : /\ k \in installed' => run'[k].status = "open"
                      /\ run[k].status # "aborted" /\ run'[k].status = "aborted" =>
                            k \notin installed /\ run[k].board \notin {"started", "over"}]_vars

\* Stakes are not left with a run that nobody plays: it is installed or closed.
StakesAreNotForgotten == \A k \in Key : Unfinished(k) ~> (k \in installed \/ ~Unfinished(k))
==============================================================================
