--------------------------- MODULE SessionTransport ---------------------------
(***************************************************************************)
(* The commands and snapshots between one browser tab and the server.      *)
(*                                                                         *)
(* The tab keeps one command at a time and sends it again, under the same  *)
(* identity, until it is answered, refused or too old.  The server works   *)
(* through what concerns the player one piece at a time and remembers the  *)
(* result of every command for as long as a copy of it may still be        *)
(* admitted.  Messages of one connection may arrive in any order, and      *)
(* answers of an old connection late; connections break at either end,     *)
(* another device may take the session over, and the server may stop and   *)
(* start again as another process with an empty memory.  What a command    *)
(* does to the player's rooms and games is abstracted to the context it    *)
(* leaves the player in.                                                   *)
(***************************************************************************)
EXTENDS Integers, Sequences, FiniteSets

CONSTANTS
    Command,            \* identities of the tab's commands
    MaxServers,         \* bound: server processes
    MaxLinks,           \* bound: connections
    MaxGames,           \* bound: games the player enters
    MaxTime,            \* bound: the clock, in retry intervals
    MaxFlight,          \* bound: messages on their way to the tab
    MaxReceipts,        \* the receipts the server keeps of one session
    Nothing             \* no command, snapshot, answer or timer

ASSUME TransportAssumption ==
    {MaxServers, MaxLinks, MaxGames, MaxTime, MaxFlight} \subseteq Nat /\ MaxReceipts \in Nat \ {0}

\* What the tab sends, and how a command may end for it.
Req == [id : Command, kind : {"join", "move"}, server : Nat, game : Nat, created : Nat]
Result == {"ok", "rejected", "failed", "replaced", "recovering", "restarted", "expired", "too many", "timed out"}

ASSUME NothingAssumption == Nothing \notin Req \cup Result

VARIABLES
    status, snapshot, outstanding, link, sentAt, askedAt, answer,   \* SessionClient
    process,        \* serverId of the running process
    running,        \* it is running
    connection,     \* session.connectionId
    reconciling,    \* session.reconcilingConnectionId
    sequence,       \* session.snapshotSequence
    game, over,     \* the game the player is in and whether it is finished
    kept,           \* session.receipts: result and age of each command
    work, step,     \* session.commands and how far its head is
    links, games,   \* connections made, games entered
    net, time,
    done            \* history: how often each command took effect

tabVars == <<status, snapshot, outstanding, link, sentAt, askedAt, answer>>
hubVars == <<process, running, connection, reconciling, sequence, game, over, kept, work, step>>
transportVars == <<tabVars, hubVars, links, games, net, time, done>>

TTL == 3            \* COMMAND_TTL_MS, in retry intervals
NoLink == 0
NoGame == 0

------------------------------------------------------------------------------
(* SessionClient *)

Requests(conn) == [to |-> "server", kind |-> "sync", conn |-> conn]
Copy(conn, req) == [to |-> "server", kind |-> "command", conn |-> conn, req |-> req]

\* Mutant: a snapshot of any connection will do.
AcceptableAnywhere(snap) ==
    /\ status # "replaced" /\ link # NoLink
    /\ snapshot # Nothing /\ snapshot.server = snap.server => snap.sequence > snapshot.sequence
    /\ snapshot # Nothing /\ snapshot.server # snap.server => status # "ready"

Acceptable(snap) ==
    /\ status # "replaced" /\ link # NoLink /\ snap.conn = link
    /\ snapshot # Nothing /\ snapshot.server = snap.server => snap.sequence > snapshot.sequence
    /\ snapshot # Nothing /\ snapshot.server # snap.server => status # "ready"

Settle(result) ==
    /\ outstanding' = Nothing /\ sentAt' = Nothing
    /\ answer' = IF outstanding = Nothing THEN answer ELSE [answer EXCEPT ![outstanding.id] = result]

\* recover: ask for a snapshot, and again after a while.
Recovering(msgs) == status' = "syncing" /\ askedAt' = time /\ net' = msgs \cup {Requests(link)}

TooOld == time - outstanding.created >= TTL - 1

\* transmit, in a state known to be ready and connected.
Transmit(msgs) ==
    IF TooOld THEN Settle("timed out") /\ Recovering(msgs)
    ELSE /\ net' = msgs \cup {Copy(link, outstanding)} /\ sentAt' = time
         /\ status' = "ready" /\ askedAt' = Nothing
         /\ UNCHANGED <<outstanding, answer>>

\* Mutant: a recovered tab leaves its command to the timer the break has cleared.
TakeSnapshotOnly(snap, msgs) ==
    /\ snapshot' = snap /\ status' = "ready" /\ askedAt' = Nothing /\ net' = msgs
    /\ IF outstanding # Nothing /\ outstanding.server # snap.server THEN Settle("restarted")
       ELSE UNCHANGED <<outstanding, sentAt, answer>>

\* accept: a recovered tab sends its command again, unless the process is another one.
TakeSnapshot(snap, msgs) ==
    /\ snapshot' = snap
    /\ IF outstanding # Nothing /\ outstanding.server # snap.server
       THEN Settle("restarted") /\ status' = "ready" /\ askedAt' = Nothing /\ net' = msgs
       ELSE IF outstanding # Nothing /\ status # "ready" THEN Transmit(msgs)
       ELSE /\ status' = "ready" /\ askedAt' = Nothing /\ net' = msgs
            /\ UNCHANGED <<outstanding, sentAt, answer>>

Take(snap, msgs) ==
    IF snap # Nothing /\ Acceptable(snap) THEN TakeSnapshot(snap, msgs)
    ELSE net' = msgs /\ UNCHANGED <<status, snapshot, outstanding, sentAt, askedAt, answer>>

OnState ==
    \E m \in {n \in net : n.to = "client" /\ n.kind = "state"} :
        /\ Take(m.snap, net \ {m})
        /\ UNCHANGED <<link, hubVars, links, games, time, done>>

\* The acknowledgement counts for the transmission it answers; the snapshot published
\* with it counts in any case.
OnAck ==
    \E m \in {n \in net : n.to = "client" /\ n.kind = "ack"} :
        /\ IF m.conn # link \/ outstanding = Nothing \/ outstanding.id # m.id THEN Take(m.snap, net \ {m})
           ELSE IF m.snap = Nothing
           THEN Settle(m.result) /\ Recovering(net \ {m}) /\ UNCHANGED snapshot
           ELSE /\ IF Acceptable(m.snap)
                   THEN snapshot' = m.snap /\ status' = "ready" /\ askedAt' = Nothing
                   ELSE UNCHANGED <<snapshot, status, askedAt>>
                /\ Settle(IF Acceptable(m.snap) /\ outstanding.server # m.snap.server THEN "restarted" ELSE m.result)
                /\ net' = net \ {m}
        /\ UNCHANGED <<link, hubVars, links, games, time, done>>

\* The server has closed the connection; session:kicked, if it came first, has
\* settled the command.
OnClosed ==
    \E m \in {n \in net : n.to = "client" /\ n.kind = "closed" /\ n.conn = link} :
        /\ status' = "replaced" /\ link' = NoLink /\ askedAt' = Nothing
        /\ IF m.kicked THEN Settle("replaced") ELSE sentAt' = Nothing /\ UNCHANGED <<outstanding, answer>>
        /\ net' = net \ {m}
        /\ UNCHANGED <<snapshot, hubVars, links, games, time, done>>

SendCommand(c, kind) ==
    /\ status = "ready" /\ link # NoLink /\ outstanding = Nothing /\ answer[c] = Nothing
    /\ time <= MaxTime - TTL + 1
    /\ \E req \in {[id |-> c, kind |-> kind, server |-> snapshot.server, game |-> snapshot.game, created |-> time]} :
        outstanding' = req /\ net' = net \cup {Copy(link, req)}
    /\ sentAt' = time
    /\ UNCHANGED <<status, snapshot, link, askedAt, answer, hubVars, links, games, time, done>>

\* The retry timer; it is not set again while there is no snapshot.
Retransmit ==
    /\ sentAt # Nothing /\ sentAt < time /\ outstanding # Nothing /\ link # NoLink
    /\ IF status = "ready" THEN Transmit(net) ELSE sentAt' = Nothing /\ UNCHANGED <<status, outstanding, askedAt, answer, net>>
    /\ UNCHANGED <<snapshot, link, hubVars, links, games, time, done>>

AskAgain ==
    /\ status = "syncing" /\ askedAt # Nothing /\ askedAt < time /\ link # NoLink
    /\ net' = net \cup {Requests(link)} /\ askedAt' = time
    /\ UNCHANGED <<status, snapshot, outstanding, link, sentAt, answer, hubVars, links, games, time, done>>

\* The tab finds its connection broken.
LinkBreaks ==
    /\ link # NoLink /\ links < MaxLinks
    /\ link' = NoLink /\ status' = "reconnecting" /\ sentAt' = Nothing /\ askedAt' = Nothing
    /\ UNCHANGED <<snapshot, outstanding, answer, hubVars, links, games, net, time, done>>

------------------------------------------------------------------------------
(* The server *)

Snapshot(conn, seq, g) == [conn |-> conn, server |-> process, sequence |-> seq, game |-> g]

\* emitSyncState for a connection: only for the current one, once it is restored.
Publishable(conn) == conn # NoLink /\ connection = conn /\ reconciling # conn
Published(conn, g) == {[to |-> "client", kind |-> "state", snap |-> Snapshot(conn, sequence + 1, g)]}

HasRoom == Cardinality({m \in net : m.to = "client"}) < MaxFlight

Publish(conn, g, msgs) ==
    IF Publishable(conn) THEN HasRoom /\ sequence' = sequence + 1 /\ net' = msgs \cup Published(conn, g)
    ELSE UNCHANGED sequence /\ net' = msgs

Ack(conn, id, result, snap) ==
    [to |-> "client", kind |-> "ack", conn |-> conn, id |-> id, result |-> result, snap |-> snap]

\* The acknowledgement carries the snapshot that is published with it and arrives
\* with it.
Respond(conn, id, result, g) ==
    /\ HasRoom
    /\ sequence' = IF Publishable(conn) THEN sequence + 1 ELSE sequence
    /\ net' = net \cup {Ack(conn, id, result, IF Publishable(conn) THEN Snapshot(conn, sequence + 1, g) ELSE Nothing)}

\* What is on its way to the tab outlives the connection, but not the news of its end.
ToTab(msgs) == {m \in msgs : m.to = "client" /\ m.kind # "closed"}
Closing(conn, kicked) ==
    {m \in {[to |-> "client", kind |-> "closed", conn |-> conn, kicked |-> kicked]} : conn = link}

\* A connection of this tab or of another device; the one before is sent away.
Accepted(conn, msgs) ==
    /\ links' = conn /\ connection' = conn /\ reconciling' = conn
    /\ work' = Append(work, [kind |-> "membership", conn |-> conn])
    /\ net' = msgs

Reconnect ==
    /\ running /\ link = NoLink /\ status # "replaced" /\ links < MaxLinks
    /\ Accepted(links + 1, ToTab(net) \cup {Requests(links + 1)})
    /\ link' = links + 1 /\ status' = "syncing" /\ askedAt' = time
    /\ UNCHANGED <<snapshot, outstanding, sentAt, answer, process, running, sequence, game, over, kept, step,
                   games, time, done>>

ElsewhereConnects ==
    /\ running /\ links < MaxLinks /\ connection # NoLink /\ connection = link
    /\ Accepted(links + 1, ToTab(net) \cup Closing(connection, TRUE))
    /\ UNCHANGED <<tabVars, process, running, sequence, game, over, kept, step, games, time, done>>

\* The server finds the connection broken, which the tab may not know yet.
ServerDisconnects ==
    /\ running /\ connection # NoLink /\ connection # link
    /\ connection' = NoLink /\ net' = {m \in net : ~(m.to = "server" /\ m.conn = connection)}
    /\ UNCHANGED <<tabVars, process, running, reconciling, sequence, game, over, kept, work, step, links, games,
                   time, done>>

\* restoreMembership succeeds, or it fails and the connection is closed.
RestoreMembership ==
    /\ running /\ work # << >> /\ Head(work).kind = "membership" /\ work' = Tail(work)
    /\ \E conn \in {Head(work).conn} :
        \/ /\ reconciling' = IF reconciling = conn THEN NoLink ELSE reconciling
           /\ IF connection = conn THEN HasRoom /\ sequence' = sequence + 1 /\ net' = net \cup Published(conn, game)
              ELSE UNCHANGED <<sequence, net>>
           /\ UNCHANGED connection
        \/ /\ connection = conn /\ links < MaxLinks
           /\ connection' = NoLink
           /\ net' = ToTab(net) \cup Closing(conn, FALSE)
           /\ UNCHANGED <<reconciling, sequence>>
    /\ UNCHANGED <<tabVars, process, running, game, over, kept, step, links, games, time, done>>

\* sync:request waits for the restoration of its connection.
SyncArrives ==
    \E m \in {n \in net : n.to = "server" /\ n.kind = "sync" /\ n.conn = connection} :
        /\ (\A i \in DOMAIN work : work[i] # [kind |-> "membership", conn |-> m.conn])
        /\ Publish(m.conn, game, net \ {m})
        /\ UNCHANGED <<tabVars, process, running, connection, reconciling, game, over, kept, work, step, links,
                       games, time, done>>

CommandArrives ==
    \E m \in {n \in net : n.to = "server" /\ n.kind = "command" /\ n.conn = connection} :
        /\ net' = net \ {m}
        /\ work' = Append(work, [kind |-> "command", conn |-> m.conn, req |-> m.req])
        /\ UNCHANGED <<tabVars, process, running, connection, reconciling, sequence, game, over, kept, step, links,
                       games, time, done>>

\* Mutant: a receipt goes while a copy may still be admitted.
RememberedTooBriefly == {c \in DOMAIN kept : time - kept[c].created < TTL}

\* Receipts go when no copy of the command can be admitted any more.
Remembered == {c \in DOMAIN kept : time - kept[c].created <= TTL}

Refusal(req, conn) ==
    IF connection # conn THEN "replaced"
    ELSE IF reconciling = conn THEN "recovering"
    ELSE IF req.server # process THEN "restarted"
    ELSE IF time - req.created > TTL THEN "expired"
    ELSE IF req.id \in Remembered THEN kept[req.id].result
    ELSE IF Cardinality(Remembered) >= MaxReceipts THEN "too many"
    ELSE Nothing

Purged(req, conn) == connection = conn /\ reconciling # conn /\ req.server = process /\ time - req.created <= TTL
Kept(ids) == [c \in ids |-> kept[c]]

AllowedPhase(req) == IF req.kind = "join" THEN game = NoGame \/ over ELSE game # NoGame

\* The command's result is kept and sent.
Finish(t, result, g) ==
    /\ kept' = [c \in Remembered \cup {t.req.id} |->
                    IF c = t.req.id THEN [result |-> result, created |-> t.req.created] ELSE kept[c]]
    /\ work' = Tail(work) /\ step' = "queued"
    /\ Respond(t.conn, t.req.id, result, g)

\* createSessionDispatcher: phase and context, and the finished game is left first.
Dispatch(t) ==
    \/ /\ ~AllowedPhase(t.req) \/ t.req.game # game
       /\ Finish(t, "rejected", game) /\ UNCHANGED <<game, over>>
    \/ /\ AllowedPhase(t.req) /\ t.req.game = game
       /\ step' = "acting" /\ kept' = Kept(Remembered) /\ UNCHANGED <<work, sequence, net>>
       /\ IF t.req.kind = "join" THEN game' = NoGame /\ over' = FALSE ELSE UNCHANGED <<game, over>>
    \/ /\ AllowedPhase(t.req) /\ t.req.game = game /\ t.req.kind = "join" /\ game # NoGame
       /\ Finish(t, "failed", game) /\ UNCHANGED <<game, over>>

Refuse(t, result) ==
    /\ work' = Tail(work) /\ kept' = IF Purged(t.req, t.conn) THEN Kept(Remembered) ELSE kept
    /\ IF result \in {"replaced", "recovering"}
       THEN HasRoom /\ net' = net \cup {Ack(t.conn, t.req.id, result, Nothing)} /\ UNCHANGED sequence
       ELSE Respond(t.conn, t.req.id, result, game)
    /\ UNCHANGED <<game, over, step>>

\* A command is refused, answered from its receipt, or dispatched.
Admit ==
    /\ running /\ work # << >> /\ Head(work).kind = "command" /\ step = "queued"
    /\ \E t \in {Head(work)} :
        IF Refusal(t.req, t.conn) = Nothing THEN Dispatch(t) ELSE Refuse(t, Refusal(t.req, t.conn))
    /\ UNCHANGED <<tabVars, process, running, connection, reconciling, links, games, time, done>>

\* The action takes effect, is rejected by the domain, or fails, in which case nobody
\* knows whether it took effect.
Act ==
    /\ running /\ step = "acting"
    /\ \E t \in {Head(work)} :
        \/ /\ \E result \in {"ok", "failed"} : Finish(t, result, IF t.req.kind = "join" THEN games + 1 ELSE game)
           /\ done' = [done EXCEPT ![t.req.id] = @ + 1]
           /\ IF t.req.kind = "join" THEN games < MaxGames /\ games' = games + 1 /\ game' = games + 1 /\ over' = FALSE
              ELSE UNCHANGED <<games, game, over>>
        \/ /\ \E result \in {"rejected", "failed"} : Finish(t, result, game)
           /\ UNCHANGED <<game, over, games, done>>
    /\ UNCHANGED <<tabVars, process, running, connection, reconciling, links, time>>

\* The game ends for a reason of its own, and everyone in it is told.
GameEnds ==
    /\ running /\ game # NoGame /\ ~over /\ over' = TRUE
    /\ Publish(connection, game, net)
    /\ UNCHANGED <<tabVars, process, running, connection, reconciling, game, kept, work, step, links, games,
                   time, done>>

\* The process stops; its successor finds the player's game in the database.
Stop ==
    /\ running /\ process < MaxServers /\ links < MaxLinks /\ running' = FALSE
    /\ connection' = NoLink /\ reconciling' = NoLink /\ sequence' = 0 /\ kept' = Kept({})
    /\ work' = << >> /\ step' = "queued" /\ net' = {m \in net : m.to = "client"}
    /\ UNCHANGED <<tabVars, process, game, over, links, games, time, done>>

Start ==
    /\ ~running /\ running' = TRUE /\ process' = process + 1
    /\ UNCHANGED <<tabVars, connection, reconciling, sequence, game, over, kept, work, step, links, games, net,
                   time, done>>

TimePasses ==
    /\ time < MaxTime /\ time' = time + 1
    /\ UNCHANGED <<tabVars, hubVars, links, games, net, done>>

------------------------------------------------------------------------------
TransportInit ==
    /\ status = "reconnecting" /\ snapshot = Nothing /\ outstanding = Nothing /\ link = NoLink
    /\ sentAt = Nothing /\ askedAt = Nothing /\ answer = [c \in Command |-> Nothing]
    /\ process = 1 /\ running = TRUE /\ connection = NoLink /\ reconciling = NoLink /\ sequence = 0
    /\ game = NoGame /\ over = FALSE /\ kept = Kept({}) /\ work = << >> /\ step = "queued"
    /\ links = 0 /\ games = 0 /\ net = {} /\ time = 0 /\ done = [c \in Command |-> 0]

Browser == OnState \/ OnAck \/ OnClosed \/ Retransmit \/ AskAgain \/ Reconnect
Server == RestoreMembership \/ SyncArrives \/ CommandArrives \/ Admit \/ Act

TransportNext ==
    \/ Browser \/ Server \/ ServerDisconnects \/ Start \/ TimePasses
    \/ LinkBreaks \/ ElsewhereConnects \/ GameEnds \/ Stop
    \/ \E c \in Command, kind \in {"join", "move"} : SendCommand(c, kind)

TransportSpec == TransportInit /\ [][TransportNext]_transportVars

\* A broken connection is noticed at either end.
TabNotices == connection # link /\ LinkBreaks

\* The event loops go on, broken connections are noticed and made again, and time
\* passes.
TransportFairness ==
    /\ WF_transportVars(OnState) /\ WF_transportVars(OnAck) /\ WF_transportVars(OnClosed)
    /\ WF_transportVars(Retransmit) /\ WF_transportVars(AskAgain) /\ WF_transportVars(Reconnect)
    /\ WF_transportVars(RestoreMembership) /\ WF_transportVars(SyncArrives) /\ WF_transportVars(CommandArrives)
    /\ WF_transportVars(Admit \/ Act) /\ WF_transportVars(ServerDisconnects) /\ WF_transportVars(TabNotices)
    /\ WF_transportVars(Start) /\ WF_transportVars(TimePasses)

------------------------------------------------------------------------------
(* Properties *)

\* However often a command is sent again, over whichever connections and to whichever
\* process, it takes effect at most once, and its player is told the truth: that it
\* was carried out only if it was, that it was rejected only if it was not.
\* (commandRouter.js, sessionClient.js)
CommandsCountOnce ==
    \A c \in Command :
        /\ done[c] <= 1
        /\ answer[c] = "ok" => done[c] = 1
        /\ answer[c] = "rejected" => done[c] = 0

\* The tab never goes back to an earlier state of its process or to an earlier process.
\* (accept)
SnapshotsNeverGoBack ==
    [][snapshot # Nothing /\ snapshot' # snapshot =>
        \/ snapshot.server < snapshot'.server
        \/ snapshot.server = snapshot'.server /\ snapshot.sequence < snapshot'.sequence]_transportVars

\* A tab that stays the player's own gets through to the server and gets every command
\* settled.  (recover, transmit)
TheTabCatchesUp ==
    <>[](status = "replaced" \/ (status = "ready" /\ snapshot.server = process /\ snapshot.game = game /\ outstanding = Nothing))

==============================================================================
