------------------------------- MODULE QuickPlay -------------------------------
(***************************************************************************)
(* Quick play: the searches waiting in the pool, the exact entries that    *)
(* pairing has claimed, and the work queued for the sessions.  Pairing,    *)
(* commands and the restoration of a connection reserve the queue of every *)
(* session they concern at once, so one sequence of work stands for all    *)
(* the queues: a piece of work runs when nothing before it concerns one of *)
(* its players.  Sockets come and go without waiting for it.               *)
(***************************************************************************)
EXTENDS Naturals, Sequences, FiniteSets, SequencesExt

CONSTANTS
    Searcher,           \* people
    MaxSockets,         \* bound: connections opened
    MaxOrders,          \* bound: commands sent
    MaxOutages          \* bound: room creations that fail or are not answered

ASSUME QuickPlayAssumption ==
    /\ IsFiniteSet(Searcher)
    /\ MaxSockets \in Nat \ {0} /\ MaxOrders \in Nat /\ MaxOutages \in Nat

VARIABLES
    phase,      \* session.phase
    socket,     \* session.connectionId, 0 for none
    opened,     \* the latest connection
    waiting,    \* QuickPlayPool.players, which are in the order of their searches
    claims,     \* QuickPlayPool.claims
    order,      \* QuickPlayPool.order
    seat,       \* ActiveRoomMember: the key of the room each person has a seat in
    work,       \* work queued for the sessions, oldest first
    sent, outages

poolVars == <<waiting, claims>>
quickVars == <<phase, socket, opened, waiting, claims, order, seat, work, sent, outages>>

NoEntry == [user |-> "nobody", order |-> 0]
NoSeat == 0

\* Everybody is connected, and idle or searching already.
QuickInit ==
    /\ order = Cardinality(Searcher)
    /\ \/ waiting = {}
       \/ \E place \in Bijection(Searcher, 1..order) : waiting = {[user |-> u, order |-> place[u]] : u \in Searcher}
    /\ phase = [u \in Searcher |-> IF waiting = {} THEN "idle" ELSE "matchmaking"]
    /\ socket = [u \in Searcher |-> 1] /\ opened = 1
    /\ claims = [u \in Searcher |-> NoEntry]
    /\ seat = [u \in Searcher |-> NoSeat]
    /\ work = << >> /\ sent = 0 /\ outages = 0

------------------------------------------------------------------------------
(* enqueueSessionWork *)

Concerned(w) == {w.users[i] : i \in DOMAIN w.users}

\* Mutant: work reserves the queue of its first session only.
RunsAfterTheFirst(i) == \A j \in 1..(i - 1) : work[j].users[1] # work[i].users[1]

Runs(i) == \A j \in 1..(i - 1) : Concerned(work[j]) \cap Concerned(work[i]) = {}
Ready(kind, stage) == {i \in DOMAIN work : work[i].kind = kind /\ work[i].stage = stage /\ Runs(i)}

Enqueue(w) == work' = Append(work, w)
Finish(i) == work' = RemoveAt(work, i)
Continue(i, stage) == work' = [work EXCEPT ![i].stage = stage]

Order(kind, u) ==
    [kind |-> kind, stage |-> "queued", users |-> <<u>>, sockets |-> <<socket[u]>>, entries |-> << >>, key |-> sent + 1]

------------------------------------------------------------------------------
(* The pool *)

InPool(u) == \E e \in waiting : e.user = u
OwnsClaim(e) == claims[e.user] = e

\* remove
LeavePool(u) == waiting' = {e \in waiting : e.user # u} /\ claims' = [claims EXCEPT ![u] = NoEntry]

\* The claimed searches of a pairing that go on waiting.
Restorable(w) ==
    {i \in DOMAIN w.users : OwnsClaim(w.entries[i]) /\ phase[w.users[i]] = "matchmaking" /\ socket[w.users[i]] # 0}

\* release, with restoreClaim and finishClaim
Release(w) ==
    /\ waiting' = waiting \cup {w.entries[i] : i \in Restorable(w)}
    /\ claims' = [u \in Searcher |-> IF u \in Concerned(w) /\ \E i \in DOMAIN w.entries : claims[u] = w.entries[i]
                                     THEN NoEntry ELSE claims[u]]

------------------------------------------------------------------------------
(* Sockets *)

Connect(u) ==
    /\ opened < MaxSockets
    /\ opened' = opened + 1
    /\ socket' = [socket EXCEPT ![u] = opened']
    /\ Enqueue([kind |-> "membership", stage |-> "queued", users |-> <<u>>, sockets |-> <<opened'>>,
                entries |-> << >>, key |-> 0])
    /\ UNCHANGED <<phase, waiting, claims, order, seat, sent, outages>>

\* handleDisconnect and the games' disconnect handler
Disconnect(u) ==
    /\ socket[u] # 0
    /\ socket' = [socket EXCEPT ![u] = 0]
    /\ phase' = [phase EXCEPT ![u] = IF @ = "matchmaking" THEN "idle" ELSE @]
    /\ LeavePool(u)
    /\ UNCHANGED <<opened, order, seat, work, sent, outages>>

Projected(u) == phase[u] \in {"idle", "matchmaking"} /\ seat[u] # NoSeat

\* restoreMembership, which is reconcileUserRoom
RestoreMembership ==
    \E i \in Ready("membership", "queued") :
        LET u == work[i].users[1] IN
        /\ phase' = [phase EXCEPT ![u] = IF socket[u] = work[i].sockets[1] /\ Projected(u) THEN "in-room" ELSE @]
        /\ Finish(i)
        /\ UNCHANGED <<socket, opened, waiting, claims, order, seat, sent, outages>>

------------------------------------------------------------------------------
(* Commands *)

Send(u) ==
    /\ sent < MaxOrders /\ socket[u] # 0
    /\ \E kind \in {"join", "leave", "bot", "quit"} : Enqueue(Order(kind, u))
    /\ sent' = sent + 1
    /\ UNCHANGED <<phase, socket, opened, waiting, claims, order, seat, outages>>

Current(w) == socket[w.users[1]] = w.sockets[1]

\* The command transport and the dispatcher refuse what is not of this socket and phase.
Refuse ==
    \E i \in DOMAIN work :
        LET u == work[i].users[1]
            allowed == CASE work[i].kind = "join" -> {"idle"}
                         [] work[i].kind = "leave" -> {"matchmaking"}
                         [] work[i].kind = "bot" -> {"idle", "matchmaking"}
                         [] work[i].kind = "quit" -> {"in-room"}
                         [] OTHER -> {phase[u]} IN
        /\ work[i].kind \in {"join", "leave", "bot", "quit"} /\ work[i].stage = "queued" /\ Runs(i)
        /\ ~Current(work[i]) \/ phase[u] \notin allowed
        /\ Finish(i)
        /\ UNCHANGED <<phase, socket, opened, waiting, claims, order, seat, sent, outages>>

Join ==
    \E i \in Ready("join", "queued") :
        LET u == work[i].users[1] IN
        /\ Current(work[i]) /\ phase[u] = "idle"
        /\ phase' = [phase EXCEPT ![u] = "matchmaking"]
        /\ IF InPool(u) \/ claims[u] # NoEntry THEN UNCHANGED <<waiting, order>>
           ELSE order' = order + 1 /\ waiting' = waiting \cup {[user |-> u, order |-> order']}
        /\ Finish(i)
        /\ UNCHANGED <<socket, opened, claims, seat, sent, outages>>

Leave ==
    \E i \in Ready("leave", "queued") :
        LET u == work[i].users[1] IN
        /\ Current(work[i]) /\ phase[u] = "matchmaking"
        /\ phase' = [phase EXCEPT ![u] = "idle"]
        /\ LeavePool(u) /\ Finish(i)
        /\ UNCHANGED <<socket, opened, order, seat, sent, outages>>

\* room:leave, or the game's end
Quit ==
    \E i \in Ready("quit", "queued") :
        LET u == work[i].users[1] IN
        /\ Current(work[i]) /\ phase[u] = "in-room"
        /\ phase' = [phase EXCEPT ![u] = "idle"] /\ seat' = [seat EXCEPT ![u] = NoSeat]
        /\ Finish(i)
        /\ UNCHANGED <<socket, opened, waiting, claims, order, sent, outages>>

\* bot:play ends the search only after its reads, then opens a room.
BotPlay ==
    \E i \in Ready("bot", "queued") :
        LET u == work[i].users[1] IN
        /\ Current(work[i]) /\ phase[u] \in {"idle", "matchmaking"}
        /\ phase' = [phase EXCEPT ![u] = "idle"]
        /\ IF phase[u] = "matchmaking" THEN LeavePool(u) ELSE UNCHANGED poolVars
        /\ Continue(i, "creating")
        /\ UNCHANGED <<socket, opened, order, seat, sent, outages>>

------------------------------------------------------------------------------
(* Pairing *)

\* tryMatch: whom it chooses depends on ratings and times, and nothing on who of them comes first.
Match ==
    \E e, f \in waiting :
        LET pair == <<e, f>>
            users == <<e.user, f.user>> IN
        /\ e.order < f.order
        /\ waiting' = waiting \ {e, f}
        /\ claims' = [claims EXCEPT ![e.user] = e, ![f.user] = f]
        /\ Enqueue([kind |-> "pairing", stage |-> "queued", users |-> users,
                    sockets |-> <<socket[users[1]], socket[users[2]]>>, entries |-> pair,
                    key |-> MaxOrders + e.order])
        /\ UNCHANGED <<phase, socket, opened, order, seat, sent, outages>>

\* available of a pairing, currentActor of a command
Admissible(w) ==
    \A i \in DOMAIN w.users :
        /\ socket[w.users[i]] = w.sockets[i] /\ w.sockets[i] # 0
        /\ IF w.kind = "pairing" THEN OwnsClaim(w.entries[i]) /\ phase[w.users[i]] = "matchmaking"
           ELSE phase[w.users[i]] = "idle"

BeginPairing ==
    \E i \in Ready("pairing", "queued") :
        /\ IF Admissible(work[i]) THEN Continue(i, "creating") /\ UNCHANGED poolVars
           ELSE Release(work[i]) /\ Finish(i)
        /\ UNCHANGED <<phase, socket, opened, order, seat, sent, outages>>

------------------------------------------------------------------------------
(* newRoom: a transaction that may fail or go unanswered, a second attempt under *)
(* the same key, and a reading that is repeated until it is answered.            *)

Created(w) == \A u \in Concerned(w) : seat[u] = w.key
Free(w) == \A u \in Concerned(w) : seat[u] = NoSeat
Seated(w) == [u \in Searcher |-> IF u \in Concerned(w) THEN w.key ELSE seat[u]]
NextStage(stage) == IF stage = "creating" THEN "confirming" ELSE "reading"

\* The guard is evaluated inside the transaction, unless the room is there already.
MayCreate(w) == Admissible(w) /\ Free(w)

Create ==
    \E i \in Ready("pairing", "creating") \cup Ready("bot", "creating")
             \cup Ready("pairing", "confirming") \cup Ready("bot", "confirming") :
        /\ \/ MayCreate(work[i]) /\ seat' = Seated(work[i]) /\ Continue(i, "created") /\ UNCHANGED outages
           \/ Created(work[i]) /\ Continue(i, "created") /\ UNCHANGED <<seat, outages>>
           \/ /\ ~MayCreate(work[i]) /\ ~Created(work[i])
              /\ Continue(i, NextStage(work[i].stage)) /\ UNCHANGED <<seat, outages>>
           \/ /\ outages < MaxOutages /\ outages' = outages + 1
              /\ seat' \in {seat} \cup (IF MayCreate(work[i]) THEN {Seated(work[i])} ELSE {})
              /\ Continue(i, NextStage(work[i].stage))
        /\ UNCHANGED <<phase, socket, opened, waiting, claims, order, sent>>

\* readRoomCreation
ReadCreation ==
    \E i \in Ready("pairing", "reading") \cup Ready("bot", "reading") :
        /\ Continue(i, IF Created(work[i]) THEN "created" ELSE "failed")
        /\ UNCHANGED <<phase, socket, opened, waiting, claims, order, seat, sent, outages>>

\* installRoom
Install ==
    \E i \in Ready("pairing", "created") \cup Ready("bot", "created") :
        /\ phase' = [u \in Searcher |-> IF u \in Concerned(work[i]) /\ Projected(u) THEN "in-room" ELSE phase[u]]
        /\ claims' = [u \in Searcher |-> IF \E k \in DOMAIN work[i].entries : claims[u] = work[i].entries[k]
                                         THEN NoEntry ELSE claims[u]]
        /\ Finish(i)
        /\ UNCHANGED <<socket, opened, waiting, order, seat, sent, outages>>

\* The pairing's participants are reconciled with the seats they may have, then released.
FailPairing ==
    \E i \in Ready("pairing", "failed") :
        /\ phase' = [u \in Searcher |-> IF u \in Concerned(work[i]) /\ Projected(u) THEN "in-room" ELSE phase[u]]
        /\ Continue(i, "reconciled")
        /\ UNCHANGED <<socket, opened, waiting, claims, order, seat, sent, outages>>

GiveBack ==
    \E i \in Ready("pairing", "reconciled") :
        /\ Release(work[i]) /\ Finish(i)
        /\ UNCHANGED <<phase, socket, opened, order, seat, sent, outages>>

FailBot ==
    \E i \in Ready("bot", "failed") :
        /\ Finish(i)
        /\ UNCHANGED <<phase, socket, opened, waiting, claims, order, seat, sent, outages>>

QuickWork ==
    RestoreMembership \/ Refuse \/ Join \/ Leave \/ Quit \/ BotPlay
        \/ BeginPairing \/ Create \/ ReadCreation \/ Install \/ FailPairing \/ GiveBack \/ FailBot

QuickNext ==
    \/ \E u \in Searcher : Connect(u) \/ Disconnect(u) \/ Send(u)
    \/ Match \/ QuickWork

QuickSpec == QuickInit /\ [][QuickNext]_quickVars

------------------------------------------------------------------------------
(* Properties *)

\* Whoever searches is waiting once or claimed by a pairing that is still to come, and nobody else is.
SearchesAreKept ==
    \A u \in Searcher :
        /\ phase[u] = "matchmaking" <=> InPool(u) \/ claims[u] # NoEntry
        /\ InPool(u) => claims[u] = NoEntry /\ \E e \in waiting : \A f \in waiting : f.user = u => f = e
        /\ claims[u] # NoEntry => \E i \in DOMAIN work : claims[u] \in ToSet(work[i].entries)

\* A seat is shown to the session that holds it, or is about to be: by the work that took it, or
\* when its connection is restored.
SeatsAreShown ==
    \A u \in Searcher :
        /\ phase[u] = "in-room" => seat[u] # NoSeat
        /\ Projected(u) => \E i \in DOMAIN work : u \in Concerned(work[i]) /\ work[i].key = seat[u]

\* However cancellations, new searches, sockets and failing creations fall around a pairing, each
\* player is searching, seated or neither, and never two of them.  (createQuickPlayRoom)
EverySearchEndsOnce == SearchesAreKept /\ SeatsAreShown
==============================================================================
