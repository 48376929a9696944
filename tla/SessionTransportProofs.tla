------------------------ MODULE SessionTransportProofs ------------------------
(***************************************************************************)
(* Proofs about SessionTransport.  A command takes effect at most once     *)
(* because all its copies are alike, and because as long as one of them    *)
(* may still be admitted, the server remembers how the command ended: the  *)
(* receipt and the copies grow too old at the same moment, and a new       *)
(* process admits none of the copies made for its predecessor.             *)
(***************************************************************************)
EXTENDS SessionTransport, TLAPS

Snap == [conn : Nat, server : Nat, sequence : Nat, game : Nat]

Message ==
    [to : {"server"}, kind : {"sync"}, conn : Nat]
    \cup [to : {"server"}, kind : {"command"}, conn : Nat, req : Req]
    \cup [to : {"client"}, kind : {"state"}, snap : Snap]
    \cup [to : {"client"}, kind : {"ack"}, conn : Nat, id : Command, result : Result, snap : Snap \cup {Nothing}]
    \cup [to : {"client"}, kind : {"closed"}, conn : Nat, kicked : BOOLEAN]

Work == [kind : {"membership"}, conn : Nat \ {NoLink}] \cup [kind : {"command"}, conn : Nat, req : Req]

TabTypeOK ==
    /\ status \in {"reconnecting", "syncing", "ready", "replaced"}
    /\ snapshot \in Snap \cup {Nothing}
    /\ outstanding \in Req \cup {Nothing}
    /\ link \in Nat
    /\ answer \in [Command -> Result \cup {Nothing}]

HubTypeOK ==
    /\ process \in Nat /\ running \in BOOLEAN
    /\ connection \in Nat /\ sequence \in Nat
    /\ game \in Nat
    /\ DOMAIN kept \subseteq Command
    /\ \A c \in DOMAIN kept : kept[c] \in [result : Result, created : Nat]
    /\ work \in Seq(Work)
    /\ step \in {"queued", "acting"}

\* The shape of the tab, of the session on the server and of what is between them.
TypeOK ==
    /\ TabTypeOK /\ HubTypeOK
    /\ links \in Nat /\ games \in Nat /\ time \in Nat
    /\ net \subseteq Message
    /\ done \in [Command -> Nat]

------------------------------------------------------------------------------
(* What makes CommandsCountOnce inductive *)

Travels(x) == \E m \in net : m.kind = "command" /\ m.req = x
Waits(x) == \E i \in 1..Len(work) : work[i].kind = "command" /\ work[i].req = x
Held(x) == outstanding # Nothing /\ outstanding = x

\* Somewhere there is a copy of request x.
InUse(x) == Travels(x) \/ Waits(x) \/ Held(x)

Acked(c, r) == \E m \in net : m.kind = "ack" /\ m.id = c /\ m.result = r
Said(c, r) == answer[c] = r \/ Acked(c, r)

\* The command took effect, or its player was told how it ended.
Concluded(c) == done[c] # 0 \/ Said(c, "ok") \/ Said(c, "rejected")

\* All copies of a command are alike.
CopiesAreAlike == \A x, y \in Req : InUse(x) /\ InUse(y) /\ x.id = y.id => x = y

\* A command that the tab neither holds nor had answered was never sent.
UnusedUntilSent ==
    \A c \in Command : answer[c] = Nothing /\ (\A x \in Req : Held(x) => x.id # c) =>
        /\ done[c] = 0 /\ c \notin DOMAIN kept
        /\ \A x \in Req : InUse(x) => x.id # c
        /\ \A r \in Result : ~Acked(c, r)

HeldIsOpen == \A x \in Req : Held(x) => answer[x.id] = Nothing

ReceiptsMatch == \A x \in Req : InUse(x) /\ x.id \in DOMAIN kept => kept[x.id].created = x.created

\* Nothing was made for a process to come.
NothingIsEarly ==
    /\ \A x \in Req : InUse(x) => x.server <= process
    /\ snapshot # Nothing => snapshot.server <= process
    /\ \A m \in net : m.kind \in {"state", "ack"} /\ m.snap # Nothing => m.snap.server <= process

ReadyHasSnapshot == status = "ready" => snapshot # Nothing

\* While a copy may be admitted, the end of its command is remembered.
ConcludedIsRemembered ==
    running => \A x \in Req :
        InUse(x) /\ x.server = process /\ time - x.created <= TTL /\ Concluded(x.id) => x.id \in DOMAIN kept

ActingIsOpen ==
    step = "acting" =>
        /\ running /\ work # << >> /\ Head(work).kind = "command"
        /\ ~Concluded(Head(work).req.id)

TruthIsTold ==
    \A c \in Command :
        /\ done[c] <= 1
        /\ Said(c, "ok") \/ (c \in DOMAIN kept /\ kept[c].result = "ok") => done[c] = 1
        /\ Said(c, "rejected") \/ (c \in DOMAIN kept /\ kept[c].result = "rejected") => done[c] = 0

IInv ==
    /\ TypeOK
    /\ CopiesAreAlike
    /\ UnusedUntilSent
    /\ HeldIsOpen
    /\ ReceiptsMatch
    /\ NothingIsEarly
    /\ ReadyHasSnapshot
    /\ ConcludedIsRemembered
    /\ ActingIsOpen
    /\ TruthIsTold

------------------------------------------------------------------------------
(* Messages, requests and the queue of the session *)

LEMMA MessageFields ==
    ASSUME NEW m \in Message
    PROVE  /\ m.kind \in {"sync", "command", "state", "ack", "closed"}
           /\ m.kind \in {"sync", "command", "ack", "closed"} => m.conn \in Nat
           /\ m.kind = "command" => m.req \in Req
           /\ m.kind = "state" => m.snap \in Snap
           /\ m.kind = "ack" => /\ m.id \in Command /\ m.result \in Result
                                /\ m.snap \in Snap \cup {Nothing}
           /\ m.kind = "closed" => m.kicked \in BOOLEAN
BY DEF Message

LEMMA MessagesMade ==
    /\ \A conn \in Nat : Requests(conn) \in Message /\ Requests(conn).kind = "sync"
    /\ \A conn \in Nat : \A q \in Req :
          Copy(conn, q) \in Message /\ Copy(conn, q).kind = "command" /\ Copy(conn, q).req = q
    /\ \A conn \in Nat, id \in Command, result \in Result, snap \in Snap \cup {Nothing} :
          /\ Ack(conn, id, result, snap) \in Message /\ Ack(conn, id, result, snap).kind = "ack"
          /\ Ack(conn, id, result, snap).id = id /\ Ack(conn, id, result, snap).result = result
          /\ Ack(conn, id, result, snap).snap = snap
    /\ \A conn \in Nat, kicked \in BOOLEAN : \A m \in Closing(conn, kicked) :
          m \in Message /\ m.kind = "closed"
BY DEF Message, Requests, Copy, Ack, Closing

LEMMA SnapshotsMade ==
    ASSUME TypeOK, NEW conn \in Nat, NEW g \in Nat
    PROVE  /\ Snapshot(conn, sequence + 1, g) \in Snap
           /\ Snapshot(conn, sequence + 1, g).server = process
           /\ \A m \in Published(conn, g) :
                  /\ m \in Message /\ m.kind = "state" /\ m.snap = Snapshot(conn, sequence + 1, g)
BY DEF TypeOK, HubTypeOK, Snapshot, Published, Snap, Message

LEMMA QueueTail ==
    ASSUME NEW S, NEW q \in Seq(S), q # << >>
    PROVE  /\ Tail(q) \in Seq(S) /\ Head(q) \in S /\ Head(q) = q[1] /\ 1 \in 1..Len(q)
           /\ \A i \in 1..Len(Tail(q)) : i + 1 \in 1..Len(q) /\ Tail(q)[i] = q[i + 1]
OBVIOUS

LEMMA QueueAppend ==
    ASSUME NEW S, NEW q \in Seq(S), NEW w \in S
    PROVE  /\ Append(q, w) \in Seq(S) /\ Append(q, w) # << >>
           /\ q # << >> => Head(Append(q, w)) = Head(q)
           /\ \A i \in 1..Len(Append(q, w)) :
                  (i \in 1..Len(q) /\ Append(q, w)[i] = q[i]) \/ Append(q, w)[i] = w
<1>1. Append(q, w) \in Seq(S) /\ Len(Append(q, w)) = Len(q) + 1 /\ Len(q) \in Nat
  OBVIOUS
<1>2. /\ \A i \in 1..Len(q) : Append(q, w)[i] = q[i]
      /\ Append(q, w)[Len(q) + 1] = w
  OBVIOUS
<1>3. q # << >> => 1 \in 1..Len(q) /\ Head(q) = q[1]
  OBVIOUS
<1>4. Append(q, w) # << >> /\ Head(Append(q, w)) = Append(q, w)[1]
  BY <1>1
<1>. QED  BY <1>1, <1>2, <1>3, <1>4

------------------------------------------------------------------------------
(* Steps that neither conclude a command nor make one *)

\* The messages were there before, repeat the request the tab holds, or are
\* snapshots of the running process.
NetQuiet(N) ==
    \A m \in N :
        /\ m \in Message
        /\ m.kind = "command" => InUse(m.req)
        /\ m.kind = "ack" => m \in net
        /\ m.kind \in {"state", "ack"} /\ m.snap # Nothing => m \in net \/ m.snap.server = process

TabQuiet ==
    \/ outstanding' = outstanding /\ answer' = answer
    \/ /\ outstanding # Nothing /\ outstanding' = Nothing
       /\ \E result \in Result :
             /\ answer' = [answer EXCEPT ![outstanding.id] = result]
             /\ result \in {"ok", "rejected"} => Acked(outstanding.id, result)

WorkQuiet ==
    /\ \A i \in 1..Len(work') : work'[i].kind = "command" => InUse(work'[i].req)
    /\ step' = "acting" => step = "acting" /\ work' # << >> /\ Head(work') = Head(work)

Quiet ==
    /\ UNCHANGED <<process, running, kept, done>> /\ time' >= time
    /\ NetQuiet(net') /\ TabQuiet /\ WorkQuiet
    /\ snapshot' = snapshot \/ (snapshot' # Nothing /\ snapshot'.server <= process)
    /\ status' = "ready" => snapshot' # Nothing

LEMMA NetUnchanged == ASSUME TypeOK, NEW N \in SUBSET net PROVE NetQuiet(N)
BY MessageFields DEF TypeOK, NetQuiet, InUse, Travels

LEMMA QuietKeepsCopies ==
    ASSUME TypeOK, TypeOK', Quiet
    PROVE  /\ \A x \in Req : InUse(x)' => InUse(x)
           /\ \A x \in Req : Held(x)' => Held(x)
           /\ \A c \in Command : \A r \in Result : Acked(c, r)' => Acked(c, r)
<1>1. ASSUME NEW x \in Req, Travels(x)' PROVE InUse(x)
  BY <1>1 DEF Quiet, NetQuiet, Travels
<1>2. ASSUME NEW x \in Req, Waits(x)' PROVE InUse(x)
  BY <1>2 DEF Quiet, WorkQuiet, Waits
<1>3. ASSUME NEW x \in Req, Held(x)' PROVE Held(x)
  BY <1>3 DEF Quiet, TabQuiet, Held
<1>4. ASSUME NEW c \in Command, NEW r \in Result, Acked(c, r)' PROVE Acked(c, r)
  BY <1>4 DEF Quiet, NetQuiet, Acked
<1>5. \A x \in Req : Held(x) => InUse(x)
  BY DEF InUse
<1>6. \A x \in Req : InUse(x)' => Travels(x)' \/ Waits(x)' \/ Held(x)'
  BY DEF InUse
<1>. QED  BY <1>1, <1>2, <1>3, <1>4, <1>5, <1>6

\* What the invariant says besides the types.
Sound ==
    /\ CopiesAreAlike /\ UnusedUntilSent /\ HeldIsOpen /\ ReceiptsMatch /\ NothingIsEarly
    /\ ReadyHasSnapshot /\ ConcludedIsRemembered /\ ActingIsOpen /\ TruthIsTold

\* An answer is final, and what it says was in an acknowledgement.
LEMMA QuietKeepsAnswers ==
    ASSUME IInv, TypeOK', Quiet, NEW c \in Command
    PROVE  /\ answer[c] # Nothing => answer'[c] = answer[c]
           /\ answer'[c] = Nothing /\ (\A x \in Req : Held(x)' => x.id # c) =>
                  answer[c] = Nothing /\ (\A x \in Req : Held(x) => x.id # c)
           /\ \A r \in {"ok", "rejected"} : Said(c, r)' => Said(c, r)
<1>1. /\ answer \in [Command -> Result \cup {Nothing}]
      /\ outstanding # Nothing => outstanding \in Req /\ outstanding.id \in Command
                                  /\ answer[outstanding.id] = Nothing
  BY DEF IInv, TypeOK, TabTypeOK, HeldIsOpen, Held, Req
<1>2. \A r \in Result : Acked(c, r)' => Acked(c, r)
  BY QuietKeepsCopies DEF IInv
<1>3. {"ok", "rejected"} \subseteq Result /\ \A r \in Result : r # Nothing
  BY NothingAssumption DEF Result
<1>4. CASE outstanding' = outstanding /\ answer' = answer
  BY <1>2, <1>3, <1>4 DEF Said, Held
<1>5. CASE \E result \in Result :
              /\ outstanding # Nothing /\ outstanding' = Nothing
              /\ answer' = [answer EXCEPT ![outstanding.id] = result]
              /\ result \in {"ok", "rejected"} => Acked(outstanding.id, result)
  <2>1. PICK result \in Result :
              /\ outstanding # Nothing /\ outstanding' = Nothing
              /\ answer' = [answer EXCEPT ![outstanding.id] = result]
              /\ result \in {"ok", "rejected"} => Acked(outstanding.id, result)
    BY <1>5
  <2>2. answer'[c] = IF c = outstanding.id THEN result ELSE answer[c]
    BY <1>1, <2>1
  <2>. QED  BY <1>1, <1>2, <1>3, <2>1, <2>2 DEF Said, Held
<1>. QED  BY <1>4, <1>5 DEF Quiet, TabQuiet

LEMMA QuietKeepsInv ==
    ASSUME IInv, TypeOK', Quiet
    PROVE  IInv'
<1>1. /\ \A x \in Req : InUse(x)' => InUse(x)
      /\ \A x \in Req : Held(x)' => Held(x)
      /\ \A c \in Command : \A r \in Result : Acked(c, r)' => Acked(c, r)
  BY QuietKeepsCopies DEF IInv
<1>2. /\ process' = process /\ running' = running /\ kept' = kept /\ done' = done
      /\ \A x \in Req : x.id \in Command
  BY DEF Quiet, Req
<1>3. CopiesAreAlike'
  BY <1>1 DEF IInv, CopiesAreAlike
<1>4. UnusedUntilSent'
  <2>. SUFFICES ASSUME NEW c \in Command, answer'[c] = Nothing, \A x \in Req : Held(x)' => x.id # c
                PROVE  /\ done'[c] = 0 /\ c \notin DOMAIN kept'
                       /\ \A x \in Req : InUse(x)' => x.id # c
                       /\ \A r \in Result : ~Acked(c, r)'
    BY DEF UnusedUntilSent
  <2>1. answer[c] = Nothing /\ \A x \in Req : Held(x) => x.id # c
    BY QuietKeepsAnswers
  <2>. QED  BY <1>1, <1>2, <2>1 DEF IInv, UnusedUntilSent
<1>5. HeldIsOpen'
  <2>. SUFFICES ASSUME NEW x \in Req, Held(x)' PROVE answer'[x.id] = Nothing
    BY DEF HeldIsOpen
  <2>1. outstanding' # Nothing
    BY DEF Held
  <2>2. answer' = answer
    BY <2>1 DEF Quiet, TabQuiet
  <2>. QED  BY <1>1, <2>2 DEF IInv, HeldIsOpen
<1>6. ReceiptsMatch'
  BY <1>1, <1>2 DEF IInv, ReceiptsMatch
<1>7. NothingIsEarly'
  <2>1. process \in Nat
    BY DEF IInv, TypeOK, HubTypeOK
  <2>. QED  BY <1>1, <1>2, <2>1 DEF IInv, NothingIsEarly, Quiet, NetQuiet
<1>8. ReadyHasSnapshot'
  BY DEF ReadyHasSnapshot, Quiet
<1>9. \A c \in Command : Concluded(c)' => Concluded(c)
  BY <1>2, QuietKeepsAnswers DEF Concluded
<1>10. ConcludedIsRemembered'
  <2>1. \A x \in Req : time' - x.created <= TTL => time - x.created <= TTL
    BY DEF Quiet, Req, TTL, IInv, TypeOK
  <2>. QED  BY <1>1, <1>2, <1>9, <2>1 DEF IInv, ConcludedIsRemembered
<1>11. ActingIsOpen'
  <2>. SUFFICES ASSUME step' = "acting"
                PROVE  /\ running' /\ work' # << >> /\ Head(work').kind = "command"
                       /\ ~Concluded(Head(work).req.id)'
    BY DEF ActingIsOpen
  <2>1. /\ work' # << >> /\ Head(work') = Head(work)
        /\ running /\ work # << >> /\ Head(work).kind = "command"
        /\ ~Concluded(Head(work).req.id)
    BY DEF Quiet, WorkQuiet, IInv, ActingIsOpen
  <2>2. Head(work) \in Work
    BY <2>1, QueueTail DEF IInv, TypeOK, HubTypeOK
  <2>3. Head(work).req.id \in Command
    BY <2>1, <2>2, <1>2 DEF Work
  <2>4. ~Concluded(Head(work).req.id)'
    BY <1>9, <2>1, <2>3 DEF Concluded, Said, Acked
  <2>. QED  BY <1>2, <2>1, <2>4
<1>12. TruthIsTold'
  BY <1>2, QuietKeepsAnswers DEF IInv, TruthIsTold
<1>. QED  BY <1>3, <1>4, <1>5, <1>6, <1>7, <1>8, <1>10, <1>11, <1>12 DEF IInv

------------------------------------------------------------------------------
(* The tab *)

\* A step of the tab that is quiet, as far as the tab and the messages go.
TabStep ==
    /\ TabTypeOK' /\ TabQuiet /\ NetQuiet(net')
    /\ snapshot' = snapshot \/ (snapshot' # Nothing /\ snapshot'.server <= process)
    /\ status' = "ready" => snapshot' # Nothing

LEMMA TabStepIsQuiet ==
    ASSUME IInv, TabStep, UNCHANGED <<hubVars, links, games, time, done>>
    PROVE  IInv'
<1>1. TypeOK'
  BY DEF IInv, TypeOK, TabStep, HubTypeOK, hubVars, NetQuiet
<1>2. WorkQuiet
  <2>1. work' = work /\ step' = step /\ work \in Seq(Work)
    BY DEF hubVars, IInv, TypeOK, HubTypeOK
  <2>2. \A i \in 1..Len(work) : work[i].kind = "command" => work[i].req \in Req /\ InUse(work[i].req)
    BY <2>1 DEF Work, InUse, Waits
  <2>3. step = "acting" => work # << >>
    BY DEF IInv, ActingIsOpen
  <2>. QED  BY <2>1, <2>2, <2>3 DEF WorkQuiet
<1>3. time' >= time
  BY DEF IInv, TypeOK
<1>4. Quiet
  BY <1>2, <1>3 DEF Quiet, TabStep, hubVars
<1>. QED  BY <1>1, <1>4, QuietKeepsInv

LEMMA NetGrows ==
    ASSUME TypeOK, NEW N \in SUBSET net, NEW m \in Message,
           m.kind # "ack", m.kind = "command" => InUse(m.req), m.kind = "state" => m.snap.server = process
    PROVE  NetQuiet(N \cup {m})
<1>1. NetQuiet(N)
  BY NetUnchanged
<1>. QED  BY <1>1 DEF NetQuiet

LEMMA SettleStep ==
    ASSUME IInv, NEW result \in Result, Settle(result),
           outstanding # Nothing /\ result \in {"ok", "rejected"} => Acked(outstanding.id, result)
    PROVE  TabQuiet /\ outstanding' = Nothing /\ answer' \in [Command -> Result \cup {Nothing}]
BY DEF Settle, TabQuiet, IInv, TypeOK, TabTypeOK, Req

LEMMA TransmitStep ==
    ASSUME IInv, NEW N \in SUBSET net, outstanding # Nothing, Transmit(N)
    PROVE  /\ TabQuiet /\ NetQuiet(net')
           /\ outstanding' \in Req \cup {Nothing} /\ answer' \in [Command -> Result \cup {Nothing}]
           /\ status' \in {"ready", "syncing"}
<1>1. /\ outstanding \in Req /\ link \in Nat /\ TypeOK /\ InUse(outstanding)
      /\ answer \in [Command -> Result \cup {Nothing}]
  BY DEF IInv, TypeOK, TabTypeOK, InUse, Held
<1>2. CASE TooOld
  <2>1. Settle("timed out") /\ Recovering(N)
    BY <1>2 DEF Transmit
  <2>2. NetQuiet(N \cup {Requests(link)})
    BY <1>1, MessagesMade, NetGrows
  <2>3. "timed out" \in Result \ {"ok", "rejected"}
    BY DEF Result
  <2>. QED  BY <2>1, <2>2, <2>3, SettleStep DEF Recovering
<1>3. CASE ~TooOld
  <2>1. net' = N \cup {Copy(link, outstanding)} /\ status' = "ready" /\ UNCHANGED <<outstanding, answer>>
    BY <1>3 DEF Transmit
  <2>2. NetQuiet(N \cup {Copy(link, outstanding)})
    <3>. DEFINE m == Copy(link, outstanding)
    <3>1. m \in Message /\ m.kind = "command" /\ m.req = outstanding
      BY <1>1, MessagesMade
    <3>2. InUse(m.req) /\ m.kind # "ack" /\ m.kind # "state"
      BY <1>1, <3>1
    <3>. HIDE DEF m
    <3>3. NetQuiet(N \cup {m})
      BY <1>1, <3>1, <3>2, NetGrows
    <3>. QED  BY <3>3 DEF m
  <2>. QED  BY <1>1, <2>1, <2>2 DEF TabQuiet
<1>. QED  BY <1>2, <1>3

LEMMA TakeStep ==
    ASSUME IInv, NEW N \in SUBSET net, NEW snap \in Snap \cup {Nothing},
           snap # Nothing => snap.server <= process, Take(snap, N), link' = link
    PROVE  TabStep
<1>1. /\ TypeOK /\ TabTypeOK /\ "restarted" \in Result \ {"ok", "rejected"} /\ NetQuiet(N)
      /\ status = "ready" => snapshot # Nothing
  BY NetUnchanged DEF IInv, TypeOK, Result, ReadyHasSnapshot
<1>2. CASE ~(snap # Nothing /\ Acceptable(snap))
  BY <1>1, <1>2 DEF Take, TabStep, TabTypeOK, TabQuiet
<1>3. CASE snap # Nothing /\ Acceptable(snap)
  <2>1. TakeSnapshot(snap, N) /\ snapshot' = snap /\ snapshot' # Nothing /\ snapshot'.server <= process
    BY <1>3 DEF Take, TakeSnapshot
  <2>2. CASE outstanding # Nothing /\ outstanding.server # snap.server
    <3>1. Settle("restarted") /\ status' = "ready" /\ net' = N
      BY <2>1, <2>2 DEF TakeSnapshot
    <3>2. TabQuiet /\ outstanding' = Nothing /\ answer' \in [Command -> Result \cup {Nothing}]
      BY <1>1, <3>1, SettleStep
    <3>. QED  BY <1>1, <2>1, <3>1, <3>2 DEF TabStep, TabTypeOK
  <2>3. CASE outstanding # Nothing /\ outstanding.server = snap.server /\ status # "ready"
    <3>1. Transmit(N)
      BY <2>1, <2>3 DEF TakeSnapshot
    <3>2. /\ TabQuiet /\ NetQuiet(net') /\ status' \in {"ready", "syncing"}
          /\ outstanding' \in Req \cup {Nothing} /\ answer' \in [Command -> Result \cup {Nothing}]
      BY <2>3, <3>1, TransmitStep
    <3>. QED  BY <1>1, <2>1, <3>2 DEF TabStep, TabTypeOK
  <2>4. CASE ~(outstanding # Nothing /\ (outstanding.server # snap.server \/ status # "ready"))
    <3>1. status' = "ready" /\ net' = N /\ UNCHANGED <<outstanding, answer>>
      BY <2>1, <2>4 DEF TakeSnapshot
    <3>. QED  BY <1>1, <2>1, <3>1 DEF TabStep, TabTypeOK, TabQuiet
  <2>. QED  BY <2>2, <2>3, <2>4
<1>. QED  BY <1>2, <1>3

LEMMA OnStateStep == ASSUME IInv, OnState PROVE IInv'
<1>1. PICK m \in {n \in net : n.to = "client" /\ n.kind = "state"} : Take(m.snap, net \ {m})
  BY DEF OnState
<1>2. m.snap \in Snap /\ (m.snap # Nothing => m.snap.server <= process)
  BY <1>1, MessageFields DEF IInv, TypeOK, NothingIsEarly
<1>3. TabStep
  BY <1>1, <1>2, TakeStep DEF OnState
<1>. QED  BY <1>3, TabStepIsQuiet DEF OnState

LEMMA OnAckStep == ASSUME IInv, OnAck PROVE IInv'
<1>1. PICK m \in {n \in net : n.to = "client" /\ n.kind = "ack"} :
          IF m.conn # link \/ outstanding = Nothing \/ outstanding.id # m.id THEN Take(m.snap, net \ {m})
          ELSE IF m.snap = Nothing
          THEN Settle(m.result) /\ Recovering(net \ {m}) /\ UNCHANGED snapshot
          ELSE /\ IF Acceptable(m.snap)
                  THEN snapshot' = m.snap /\ status' = "ready" /\ askedAt' = Nothing
                  ELSE UNCHANGED <<snapshot, status, askedAt>>
               /\ Settle(IF Acceptable(m.snap) /\ outstanding.server # m.snap.server THEN "restarted" ELSE m.result)
               /\ net' = net \ {m}
  BY DEF OnAck
<1>2. /\ m.snap \in Snap \cup {Nothing} /\ (m.snap # Nothing => m.snap.server <= process)
      /\ m.id \in Command /\ m.result \in Result /\ Acked(m.id, m.result)
  BY <1>1, MessageFields DEF IInv, TypeOK, NothingIsEarly, Acked
<1>3. /\ TypeOK /\ TabTypeOK /\ link' = link /\ NetQuiet(net \ {m}) /\ link \in Nat
      /\ status = "ready" => snapshot # Nothing
      /\ "restarted" \in Result \ {"ok", "rejected"}
  BY NetUnchanged DEF IInv, TypeOK, TabTypeOK, ReadyHasSnapshot, OnAck, Result
<1>4. CASE m.conn # link \/ outstanding = Nothing \/ outstanding.id # m.id
  <2>1. TabStep
    BY <1>1, <1>2, <1>3, <1>4, TakeStep
  <2>. QED  BY <2>1, TabStepIsQuiet DEF OnAck
<1>5. CASE outstanding # Nothing /\ outstanding.id = m.id /\ m.conn = link /\ m.snap = Nothing
  <2>1. Settle(m.result) /\ Recovering(net \ {m}) /\ snapshot' = snapshot
    BY <1>1, <1>5
  <2>2. NetQuiet((net \ {m}) \cup {Requests(link)})
    BY <1>3, MessagesMade, NetGrows
  <2>3. TabQuiet /\ outstanding' = Nothing /\ answer' \in [Command -> Result \cup {Nothing}]
    BY <1>2, <1>5, <2>1, SettleStep
  <2>4. TabStep
    BY <1>3, <2>1, <2>2, <2>3 DEF TabStep, TabTypeOK, Recovering
  <2>. QED  BY <2>4, TabStepIsQuiet DEF OnAck
<1>6. CASE outstanding # Nothing /\ outstanding.id = m.id /\ m.conn = link /\ m.snap # Nothing
  <2>. DEFINE result == IF Acceptable(m.snap) /\ outstanding.server # m.snap.server THEN "restarted" ELSE m.result
  <2>1. /\ (snapshot' = m.snap /\ status' = "ready") \/ (snapshot' = snapshot /\ status' = status)
        /\ Settle(result) /\ net' = net \ {m}
    BY <1>1, <1>6
  <2>2. result \in Result /\ (result \in {"ok", "rejected"} => Acked(outstanding.id, result))
    BY <1>2, <1>3, <1>6
  <2>. HIDE DEF result
  <2>3. TabQuiet /\ outstanding' = Nothing /\ answer' \in [Command -> Result \cup {Nothing}]
    BY <2>1, <2>2, SettleStep
  <2>4. TabStep
    BY <1>2, <1>3, <1>6, <2>1, <2>3 DEF TabStep, TabTypeOK
  <2>. QED  BY <2>4, TabStepIsQuiet DEF OnAck
<1>. QED  BY <1>4, <1>5, <1>6

LEMMA OnClosedStep == ASSUME IInv, OnClosed PROVE IInv'
<1>1. PICK m \in {n \in net : n.to = "client" /\ n.kind = "closed" /\ n.conn = link} :
          /\ IF m.kicked THEN Settle("replaced") ELSE sentAt' = Nothing /\ UNCHANGED <<outstanding, answer>>
          /\ net' = net \ {m}
  BY DEF OnClosed
<1>2. "replaced" \in Result \ {"ok", "rejected"} /\ NetQuiet(net \ {m}) /\ TabTypeOK
  BY NetUnchanged DEF IInv, TypeOK, Result
<1>3. TabQuiet /\ outstanding' \in Req \cup {Nothing} /\ answer' \in [Command -> Result \cup {Nothing}]
  <2>1. CASE m.kicked
    BY <1>1, <1>2, <2>1, SettleStep
  <2>2. CASE ~m.kicked
    BY <1>1, <1>2, <2>2 DEF TabQuiet, TabTypeOK
  <2>. QED  BY <2>1, <2>2
<1>4. status' = "replaced" /\ snapshot' = snapshot /\ link' = 0
  BY DEF OnClosed, NoLink
<1>5. TabStep
  BY <1>1, <1>2, <1>3, <1>4 DEF TabStep, TabTypeOK
<1>. QED  BY <1>5, TabStepIsQuiet DEF OnClosed

LEMMA RetransmitStep == ASSUME IInv, Retransmit PROVE IInv'
<1>1. /\ TabTypeOK /\ TypeOK /\ net \in SUBSET net
      /\ status = "ready" => snapshot # Nothing
  BY DEF IInv, TypeOK, ReadyHasSnapshot
<1>2. snapshot' = snapshot /\ link' = link /\ outstanding # Nothing
  BY DEF Retransmit
<1>3. CASE status = "ready"
  <2>1. Transmit(net)
    BY <1>3 DEF Retransmit
  <2>2. /\ TabQuiet /\ NetQuiet(net') /\ status' \in {"ready", "syncing"}
        /\ outstanding' \in Req \cup {Nothing} /\ answer' \in [Command -> Result \cup {Nothing}]
    BY <1>1, <1>2, <2>1, TransmitStep
  <2>3. TabStep
    BY <1>1, <1>2, <1>3, <2>2 DEF TabStep, TabTypeOK
  <2>. QED  BY <2>3, TabStepIsQuiet DEF Retransmit
<1>4. CASE status # "ready"
  <2>1. UNCHANGED <<status, outstanding, answer, net>> /\ NetQuiet(net)
    BY <1>1, <1>4, NetUnchanged DEF Retransmit
  <2>2. TabStep
    BY <1>1, <1>2, <2>1 DEF TabStep, TabTypeOK, TabQuiet
  <2>. QED  BY <2>2, TabStepIsQuiet DEF Retransmit
<1>. QED  BY <1>3, <1>4

LEMMA AskAgainStep == ASSUME IInv, AskAgain PROVE IInv'
<1>1. TabTypeOK /\ TypeOK /\ net \in SUBSET net /\ link \in Nat
  BY DEF IInv, TypeOK, TabTypeOK
<1>2. NetQuiet(net \cup {Requests(link)})
  BY <1>1, MessagesMade, NetGrows
<1>3. TabStep
  BY <1>1, <1>2 DEF TabStep, TabTypeOK, TabQuiet, AskAgain
<1>. QED  BY <1>3, TabStepIsQuiet DEF AskAgain

LEMMA LinkBreaksStep == ASSUME IInv, LinkBreaks PROVE IInv'
<1>1. TabTypeOK /\ NetQuiet(net)
  BY NetUnchanged DEF IInv, TypeOK
<1>2. /\ status' = "reconnecting" /\ link' = 0
      /\ UNCHANGED <<snapshot, outstanding, answer, net>>
  BY DEF LinkBreaks, NoLink
<1>3. TabStep
  BY <1>1, <1>2 DEF TabStep, TabTypeOK, TabQuiet
<1>. QED  BY <1>3, TabStepIsQuiet DEF LinkBreaks

------------------------------------------------------------------------------
(* Quiet steps of the server *)

\* Work may be taken from the queue, and copies that are in use may join it.
LEMMA WorkStays ==
    ASSUME IInv, work' = work, step' = step PROVE WorkQuiet
<1>1. \A i \in 1..Len(work) : work[i].kind = "command" => work[i].req \in Req /\ InUse(work[i].req)
  BY DEF IInv, TypeOK, HubTypeOK, Work, InUse, Waits
<1>2. step = "acting" => work # << >>
  BY DEF IInv, ActingIsOpen
<1>. QED  BY <1>1, <1>2 DEF WorkQuiet

LEMMA WorkJoins ==
    ASSUME IInv, NEW w \in Work, work' = Append(work, w), step' = step,
           w.kind = "command" => InUse(w.req)
    PROVE  WorkQuiet /\ work' \in Seq(Work)
<1>1. work \in Seq(Work)
  BY DEF IInv, TypeOK, HubTypeOK
<1>2. \A i \in 1..Len(work) : work[i].kind = "command" => work[i].req \in Req /\ InUse(work[i].req)
  BY <1>1 DEF Work, InUse, Waits
<1>3. step = "acting" => work # << >>
  BY DEF IInv, ActingIsOpen
<1>4. /\ work' \in Seq(Work) /\ work' # << >>
      /\ work # << >> => Head(work') = Head(work)
      /\ \A i \in 1..Len(work') : (i \in 1..Len(work) /\ work'[i] = work[i]) \/ work'[i] = w
  BY <1>1, QueueAppend
<1>. QED  BY <1>2, <1>3, <1>4 DEF WorkQuiet

LEMMA WorkLeaves ==
    ASSUME IInv, work # << >>, work' = Tail(work), step' # "acting"
    PROVE  WorkQuiet /\ work' \in Seq(Work)
<1>1. work \in Seq(Work)
  BY DEF IInv, TypeOK, HubTypeOK
<1>2. \A i \in 1..Len(work) : work[i].kind = "command" => work[i].req \in Req /\ InUse(work[i].req)
  BY <1>1 DEF Work, InUse, Waits
<1>3. /\ work' \in Seq(Work)
      /\ \A i \in 1..Len(work') : i + 1 \in 1..Len(work) /\ work'[i] = work[i + 1]
  BY <1>1, QueueTail
<1>. QED  BY <1>2, <1>3 DEF WorkQuiet

LEMMA PublishStep ==
    ASSUME IInv, NEW N \in SUBSET net, NEW conn \in Nat, NEW g \in Nat, Publish(conn, g, N)
    PROVE  NetQuiet(net') /\ sequence' \in Nat
<1>1. TypeOK /\ NetQuiet(N) /\ sequence \in Nat
  BY NetUnchanged DEF IInv, TypeOK, HubTypeOK
<1>2. CASE Publishable(conn)
  <2>1. sequence' = sequence + 1 /\ net' = N \cup Published(conn, g)
    BY <1>2 DEF Publish
  <2>2. \A m \in Published(conn, g) : m \in Message /\ m.kind = "state" /\ m.snap.server = process
    BY <1>1, SnapshotsMade
  <2>. QED  BY <1>1, <2>1, <2>2 DEF NetQuiet
<1>3. CASE ~Publishable(conn)
  BY <1>1, <1>3 DEF Publish
<1>. QED  BY <1>2, <1>3

\* A quiet step of the server.
LEMMA HubStep ==
    ASSUME IInv, UNCHANGED <<snapshot, outstanding, answer, process, running, kept, done>>,
           time' \in Nat, time' >= time,
           status' \in {status, "syncing"}, link' \in Nat, connection' \in Nat, sequence' \in Nat,
           game' \in Nat, links' \in Nat, games' \in Nat, step' = step, work' \in Seq(Work),
           NetQuiet(net'), WorkQuiet
    PROVE  IInv'
<1>1. TypeOK'
  BY DEF IInv, TypeOK, TabTypeOK, HubTypeOK, NetQuiet
<1>2. Quiet
  BY DEF Quiet, TabQuiet, IInv, ReadyHasSnapshot
<1>. QED  BY <1>1, <1>2, QuietKeepsInv

LEMMA TimeStays == ASSUME IInv, time' = time PROVE time' \in Nat /\ time' >= time
BY DEF IInv, TypeOK

LEMMA ClosingIsQuiet ==
    ASSUME IInv, NEW N \in SUBSET net, NEW conn \in Nat, NEW kicked \in BOOLEAN
    PROVE  NetQuiet(N \cup Closing(conn, kicked)) /\ NetQuiet(N \cup {Requests(conn)})
<1>1. TypeOK /\ NetQuiet(N)
  BY NetUnchanged DEF IInv, TypeOK
<1>. QED  BY <1>1, MessagesMade, NetGrows DEF NetQuiet

LEMMA AcceptedStep ==
    ASSUME IInv, NEW N, NetQuiet(N), Accepted(links + 1, N), step' = step
    PROVE  /\ links' \in Nat /\ connection' \in Nat /\ work' \in Seq(Work) /\ NetQuiet(net') /\ WorkQuiet
<1>1. links + 1 \in Nat
  BY DEF IInv, TypeOK
<1>2. [kind |-> "membership", conn |-> links + 1] \in Work
  BY DEF IInv, TypeOK, Work, NoLink
<1>. QED  BY <1>1, <1>2, WorkJoins DEF Accepted

LEMMA ReconnectStep == ASSUME IInv, Reconnect PROVE IInv'
<1>1. links + 1 \in Nat /\ ToTab(net) \in SUBSET net /\ net \in SUBSET Message
  BY DEF IInv, TypeOK, ToTab
<1>. DEFINE N == ToTab(net) \cup {Requests(links + 1)}
<1>2. NetQuiet(N)
  BY <1>1, ClosingIsQuiet
<1>3. Accepted(links + 1, N) /\ step' = step
  BY DEF Reconnect
<1>. HIDE DEF N
<1>4. links' \in Nat /\ connection' \in Nat /\ work' \in Seq(Work) /\ NetQuiet(net') /\ WorkQuiet
  BY <1>2, <1>3, AcceptedStep
<1>5. /\ UNCHANGED <<snapshot, outstanding, answer, process, running, kept, time, done>>
      /\ status' = "syncing" /\ link' \in Nat /\ sequence' \in Nat /\ game' \in Nat /\ games' \in Nat
  BY <1>1 DEF Reconnect, IInv, TypeOK, HubTypeOK
<1>. QED  BY <1>3, <1>4, <1>5, TimeStays, HubStep

LEMMA ElsewhereConnectsStep == ASSUME IInv, ElsewhereConnects PROVE IInv'
<1>1. connection \in Nat /\ ToTab(net) \in SUBSET net /\ net \in SUBSET Message
  BY DEF IInv, TypeOK, HubTypeOK, ToTab
<1>. DEFINE N == ToTab(net) \cup Closing(connection, TRUE)
<1>2. NetQuiet(N)
  BY <1>1, ClosingIsQuiet
<1>3. Accepted(links + 1, N) /\ step' = step
  BY DEF ElsewhereConnects
<1>. HIDE DEF N
<1>4. links' \in Nat /\ connection' \in Nat /\ work' \in Seq(Work) /\ NetQuiet(net') /\ WorkQuiet
  BY <1>2, <1>3, AcceptedStep
<1>5. /\ UNCHANGED <<snapshot, outstanding, answer, process, running, kept, time, done>>
      /\ status' = status /\ link' \in Nat /\ sequence' \in Nat /\ game' \in Nat /\ games' \in Nat
  BY <1>1 DEF ElsewhereConnects, IInv, TypeOK, TabTypeOK, HubTypeOK, tabVars
<1>. QED  BY <1>3, <1>4, <1>5, TimeStays, HubStep

LEMMA ServerDisconnectsStep == ASSUME IInv, ServerDisconnects PROVE IInv'
<1>1. NetQuiet(net') /\ TypeOK
  BY NetUnchanged DEF IInv, TypeOK, ServerDisconnects
<1>2. work' = work /\ step' = step /\ time' = time
  BY DEF ServerDisconnects
<1>3. WorkQuiet
  BY <1>2, WorkStays
<1>4. /\ UNCHANGED <<snapshot, outstanding, answer, process, running, kept, done>> /\ status' = status
      /\ link' \in Nat /\ connection' \in Nat /\ sequence' \in Nat /\ game' \in Nat /\ links' \in Nat
      /\ games' \in Nat /\ work' \in Seq(Work)
  BY <1>1 DEF ServerDisconnects, TypeOK, TabTypeOK, HubTypeOK, tabVars, NoLink
<1>. QED  BY <1>1, <1>2, <1>3, <1>4, TimeStays, HubStep

LEMMA RestoreMembershipStep == ASSUME IInv, RestoreMembership PROVE IInv'
<1>1. /\ TypeOK /\ work \in Seq(Work) /\ work # << >> /\ work' = Tail(work) /\ step' = step /\ time' = time
      /\ Head(work).kind = "membership"
  BY DEF IInv, TypeOK, HubTypeOK, RestoreMembership
<1>2. step # "acting"
  BY <1>1 DEF IInv, ActingIsOpen
<1>3. WorkQuiet /\ work' \in Seq(Work)
  BY <1>1, <1>2, WorkLeaves
<1>4. Head(work).conn \in Nat
  BY <1>1, QueueTail DEF Work, NoLink
<1>5. NetQuiet(net') /\ sequence' \in Nat /\ connection' \in Nat
  <2>. DEFINE conn == Head(work).conn
  <2>1. NetQuiet(net) /\ sequence \in Nat /\ connection \in Nat /\ game \in Nat /\ ToTab(net) \in SUBSET net
    BY <1>1, NetUnchanged DEF TypeOK, HubTypeOK, ToTab
  <2>2. \/ sequence' = sequence + 1 /\ net' = net \cup Published(conn, game) /\ connection' = connection
        \/ sequence' = sequence /\ net' = net /\ connection' = connection
        \/ sequence' = sequence /\ connection' = NoLink /\ net' = ToTab(net) \cup Closing(conn, FALSE)
    BY DEF RestoreMembership
  <2>3. NetQuiet(net \cup Published(conn, game))
    <3>1. \A m \in Published(conn, game) : m \in Message /\ m.kind = "state" /\ m.snap.server = process
      BY <1>1, <1>4, <2>1, SnapshotsMade
    <3>. QED  BY <2>1, <3>1 DEF NetQuiet
  <2>4. NetQuiet(ToTab(net) \cup Closing(conn, FALSE))
    BY <1>4, <2>1, ClosingIsQuiet
  <2>5. NetQuiet(net')
    BY <2>1, <2>2, <2>3, <2>4, Zenon
  <2>6. sequence' \in Nat /\ connection' \in Nat
    <3>1. sequence' \in {sequence, sequence + 1} /\ connection' \in {connection, 0}
      BY DEF RestoreMembership, NoLink
    <3>. QED  BY <2>1, <3>1
  <2>. QED  BY <2>5, <2>6
<1>6. /\ UNCHANGED <<snapshot, outstanding, answer, process, running, kept, done>> /\ status' = status
      /\ link' \in Nat /\ game' \in Nat /\ links' \in Nat /\ games' \in Nat
  BY <1>1 DEF RestoreMembership, TypeOK, TabTypeOK, HubTypeOK, tabVars
<1>. QED  BY <1>1, <1>3, <1>5, <1>6, TimeStays, HubStep

LEMMA SyncArrivesStep == ASSUME IInv, SyncArrives PROVE IInv'
<1>1. PICK m \in net : m.kind = "sync" /\ Publish(m.conn, game, net \ {m})
  BY DEF SyncArrives
<1>2. TypeOK /\ m.conn \in Nat /\ game \in Nat
  BY <1>1, MessageFields DEF IInv, TypeOK, HubTypeOK
<1>3. NetQuiet(net') /\ sequence' \in Nat
  BY <1>1, <1>2, PublishStep
<1>4. work' = work /\ step' = step /\ time' = time
  BY DEF SyncArrives
<1>5. WorkQuiet
  BY <1>4, WorkStays
<1>6. /\ UNCHANGED <<snapshot, outstanding, answer, process, running, kept, done>> /\ status' = status
      /\ link' \in Nat /\ connection' \in Nat /\ game' \in Nat /\ links' \in Nat
      /\ games' \in Nat /\ work' \in Seq(Work)
  BY <1>2 DEF SyncArrives, TypeOK, TabTypeOK, HubTypeOK, tabVars
<1>. QED  BY <1>3, <1>4, <1>5, <1>6, TimeStays, HubStep

LEMMA GameEndsStep == ASSUME IInv, GameEnds PROVE IInv'
<1>1. TypeOK /\ connection \in Nat /\ game \in Nat /\ net \in SUBSET net
  BY DEF IInv, TypeOK, HubTypeOK
<1>2. NetQuiet(net') /\ sequence' \in Nat
  BY <1>1, PublishStep DEF GameEnds
<1>3. work' = work /\ step' = step /\ time' = time
  BY DEF GameEnds
<1>4. WorkQuiet
  BY <1>3, WorkStays
<1>5. /\ UNCHANGED <<snapshot, outstanding, answer, process, running, kept, done>> /\ status' = status
      /\ link' \in Nat /\ connection' \in Nat /\ game' \in Nat /\ links' \in Nat
      /\ games' \in Nat /\ work' \in Seq(Work)
  BY <1>1 DEF GameEnds, TypeOK, TabTypeOK, HubTypeOK, tabVars
<1>. QED  BY <1>2, <1>3, <1>4, <1>5, TimeStays, HubStep

LEMMA CommandArrivesStep == ASSUME IInv, CommandArrives PROVE IInv'
<1>1. PICK m \in net : /\ m.kind = "command" /\ net' = net \ {m}
                       /\ work' = Append(work, [kind |-> "command", conn |-> m.conn, req |-> m.req])
  BY DEF CommandArrives
<1>. DEFINE w == [kind |-> "command", conn |-> m.conn, req |-> m.req]
<1>2. TypeOK /\ w \in Work /\ w.req = m.req
  BY <1>1, MessageFields DEF IInv, TypeOK, Work
<1>3. NetQuiet(net') /\ InUse(m.req)
  BY <1>1, <1>2, NetUnchanged DEF InUse, Travels
<1>4. step' = step /\ time' = time
  BY DEF CommandArrives
<1>5. InUse(w.req) /\ work' = Append(work, w)
  BY <1>1, <1>2, <1>3
<1>. HIDE DEF w
<1>6. WorkQuiet /\ work' \in Seq(Work)
  BY <1>2, <1>4, <1>5, WorkJoins
<1>7. /\ UNCHANGED <<snapshot, outstanding, answer, process, running, kept, done>> /\ status' = status
      /\ link' \in Nat /\ connection' \in Nat /\ sequence' \in Nat /\ game' \in Nat /\ links' \in Nat
      /\ games' \in Nat
  BY <1>2 DEF CommandArrives, TypeOK, TabTypeOK, HubTypeOK, tabVars
<1>. QED  BY <1>3, <1>4, <1>6, <1>7, TimeStays, HubStep

LEMMA TimePassesStep == ASSUME IInv, TimePasses PROVE IInv'
<1>1. TypeOK /\ NetQuiet(net')
  BY NetUnchanged DEF IInv, TypeOK, TimePasses
<1>2. work' = work /\ step' = step /\ time' = time + 1 /\ time \in Nat
  BY <1>1 DEF TimePasses, hubVars, TypeOK
<1>3. WorkQuiet
  BY <1>2, WorkStays
<1>4. /\ UNCHANGED <<snapshot, outstanding, answer, process, running, kept, done>> /\ status' = status
      /\ link' \in Nat /\ connection' \in Nat /\ sequence' \in Nat /\ game' \in Nat /\ links' \in Nat
      /\ games' \in Nat /\ work' \in Seq(Work)
  BY <1>1 DEF TimePasses, TypeOK, TabTypeOK, HubTypeOK, tabVars, hubVars
<1>. QED  BY <1>1, <1>2, <1>3, <1>4, HubStep

------------------------------------------------------------------------------
(* The process stops and another one starts *)

LEMMA StopStep == ASSUME IInv, Stop PROVE IInv'
<1>1. TypeOK /\ NetQuiet(net') /\ net' \in SUBSET net
  BY NetUnchanged DEF IInv, TypeOK, Stop
<1>2. /\ running' = FALSE /\ connection' = 0 /\ sequence' = 0 /\ DOMAIN kept' = {} /\ work' = << >>
      /\ step' = "queued" /\ UNCHANGED <<tabVars, process, game, links, games, time, done>>
  BY DEF Stop, Kept, NoLink
<1>3. TypeOK'
  <2>1. TabTypeOK'
    BY <1>1, <1>2 DEF TypeOK, TabTypeOK, tabVars
  <2>2. HubTypeOK'
    <3>1. work' \in Seq(Work)
      BY <1>2
    <3>. QED  BY <1>1, <1>2, <3>1 DEF TypeOK, HubTypeOK
  <2>. QED  BY <1>1, <1>2, <2>1, <2>2 DEF TypeOK
<1>4. /\ UNCHANGED <<status, snapshot, outstanding, answer, process, done>>
      /\ \A x \in Req : Travels(x)' => Travels(x)
      /\ \A x \in Req : ~Waits(x)'
      /\ \A x \in Req : Held(x)' <=> Held(x)
      /\ \A c, r : Acked(c, r)' => Acked(c, r)
  BY <1>1, <1>2 DEF tabVars, Travels, Waits, Held, Acked
<1>5. \A x \in Req : InUse(x)' => InUse(x)
  BY <1>4 DEF InUse
<1>6. \A c, r : Said(c, r)' => Said(c, r)
  BY <1>4 DEF Said
<1>7. CopiesAreAlike' /\ HeldIsOpen' /\ ReadyHasSnapshot' /\ ConcludedIsRemembered' /\ ActingIsOpen'
  BY <1>2, <1>4, <1>5 DEF IInv, CopiesAreAlike, HeldIsOpen, ReadyHasSnapshot, ConcludedIsRemembered,
                          ActingIsOpen
<1>8. UnusedUntilSent' /\ ReceiptsMatch' /\ TruthIsTold'
  BY <1>2, <1>4, <1>5, <1>6 DEF IInv, UnusedUntilSent, ReceiptsMatch, TruthIsTold
<1>9. NothingIsEarly'
  BY <1>1, <1>4, <1>5 DEF IInv, NothingIsEarly
<1>. QED  BY <1>3, <1>7, <1>8, <1>9 DEF IInv

LEMMA StartStep == ASSUME IInv, Start PROVE IInv'
<1>1. /\ TypeOK /\ process \in Nat /\ running' = TRUE /\ process' = process + 1 /\ ~running
      /\ UNCHANGED <<tabVars, connection, sequence, game, kept, work, step, links, games, net, time, done>>
  BY DEF IInv, TypeOK, HubTypeOK, Start
<1>2. TypeOK'
  <2>1. TabTypeOK'
    BY <1>1 DEF TypeOK, TabTypeOK, tabVars
  <2>2. HubTypeOK'
    BY <1>1 DEF TypeOK, HubTypeOK
  <2>. QED  BY <1>1, <2>1, <2>2 DEF TypeOK
<1>3. step # "acting"
  BY <1>1 DEF IInv, ActingIsOpen
<1>4. /\ UNCHANGED <<status, snapshot, outstanding, answer>>
      /\ \A x : (Travels(x)' <=> Travels(x)) /\ (Waits(x)' <=> Waits(x)) /\ (Held(x)' <=> Held(x))
      /\ \A c, r : Acked(c, r)' <=> Acked(c, r)
  BY <1>1 DEF tabVars, Travels, Waits, Held, Acked
<1>5. (\A x : InUse(x)' <=> InUse(x)) /\ (\A c, r : Said(c, r)' <=> Said(c, r))
  BY <1>4 DEF InUse, Said
<1>6. CopiesAreAlike' /\ HeldIsOpen' /\ ReadyHasSnapshot' /\ ActingIsOpen'
  BY <1>1, <1>3, <1>4, <1>5 DEF IInv, CopiesAreAlike, HeldIsOpen, ReadyHasSnapshot, ActingIsOpen
<1>7. UnusedUntilSent' /\ ReceiptsMatch' /\ TruthIsTold'
  BY <1>1, <1>4, <1>5 DEF IInv, UnusedUntilSent, ReceiptsMatch, TruthIsTold
<1>8. NothingIsEarly' /\ ConcludedIsRemembered'
  <2>1. \A x \in Req : InUse(x) => x.server \in Nat /\ x.server <= process
    BY DEF IInv, NothingIsEarly, Req
  <2>2. \A s \in Snap : s.server \in Nat
    BY DEF Snap
  <2>3. \A m \in net : m.kind \in {"state", "ack"} /\ m.snap # Nothing => m.snap \in Snap
    BY <1>1, MessageFields DEF TypeOK
  <2>4. NothingIsEarly'
    BY <1>1, <1>4, <1>5, <2>1, <2>2, <2>3 DEF IInv, TypeOK, TabTypeOK, NothingIsEarly
  <2>5. ConcludedIsRemembered'
    BY <1>1, <1>5, <2>1 DEF ConcludedIsRemembered
  <2>. QED  BY <2>4, <2>5
<1>. QED  BY <1>2, <1>6, <1>7, <1>8 DEF IInv

------------------------------------------------------------------------------
(* The tab makes a command *)

LEMMA SendCommandStep ==
    ASSUME IInv, NEW c \in Command, NEW kind \in {"join", "move"}, SendCommand(c, kind)
    PROVE  IInv'
<1>0. /\ TypeOK /\ snapshot # Nothing /\ snapshot \in Snap /\ outstanding = Nothing /\ answer[c] = Nothing
      /\ UNCHANGED <<status, snapshot, link, answer, hubVars, links, games, time, done>>
  BY DEF IInv, TypeOK, TabTypeOK, ReadyHasSnapshot, SendCommand
<1>1. PICK q \in Req :
          /\ q.id = c /\ q.server = snapshot.server
          /\ outstanding' = q /\ net' = net \cup {Copy(link, q)}
  <2>. DEFINE q == [id |-> c, kind |-> kind, server |-> snapshot.server, game |-> snapshot.game, created |-> time]
  <2>1. q \in Req /\ q.id = c /\ q.server = snapshot.server
    BY <1>0 DEF Snap, Req, TypeOK
  <2>2. outstanding' = q /\ net' = net \cup {Copy(link, q)}
    BY DEF SendCommand
  <2>. HIDE DEF q
  <2>. QED  BY <2>1, <2>2
<1>2. q.server <= process /\ q # Nothing
  BY <1>0, <1>1, NothingAssumption DEF IInv, NothingIsEarly
<1>3. Copy(link, q) \in Message /\ Copy(link, q).kind = "command" /\ Copy(link, q).req = q
  BY <1>0, <1>1, <1>2, MessagesMade DEF TypeOK, TabTypeOK
<1>4. TypeOK'
  BY <1>0, <1>1, <1>2, <1>3 DEF TypeOK, TabTypeOK, HubTypeOK, hubVars
<1>5. /\ UNCHANGED <<process, running, kept, work, step>>
      /\ \A x \in Req : InUse(x)' => InUse(x) \/ x = q
      /\ \A x \in Req : Held(x)' => x = q
      /\ \A x \in Req : ~Held(x)
      /\ \A d, r : (Acked(d, r)' => Acked(d, r)) /\ (Said(d, r)' => Said(d, r))
  <2>1. UNCHANGED <<process, running, kept, work, step>>
    BY <1>0, <1>1 DEF hubVars
  <2>2. /\ \A x \in Req : Travels(x)' => Travels(x) \/ x = q
        /\ \A x \in Req : Waits(x)' => Waits(x)
        /\ \A x \in Req : Held(x)' => x = q
        /\ \A x \in Req : ~Held(x)
        /\ \A d, r : Acked(d, r)' => Acked(d, r)
    BY <1>0, <1>1, <1>3, <2>1 DEF Travels, Waits, Held, Acked
  <2>. QED  BY <1>0, <1>1, <2>1, <2>2 DEF InUse, Said
<1>6. Held(q)'
  BY <1>0, <1>1, <1>2 DEF Held
<1>7. /\ done[c] = 0 /\ c \notin DOMAIN kept
      /\ \A x \in Req : InUse(x) => x.id # c
      /\ ~Concluded(c)
  <2>1. /\ done[c] = 0 /\ c \notin DOMAIN kept
        /\ \A x \in Req : InUse(x) => x.id # c
        /\ \A r \in Result : ~Acked(c, r)
    BY <1>0, <1>1, <1>5 DEF IInv, UnusedUntilSent
  <2>2. {"ok", "rejected"} \subseteq Result /\ Nothing \notin Result
    BY NothingAssumption DEF Result
  <2>. QED  BY <1>0, <1>1, <2>1, <2>2 DEF Concluded, Said
<1>8. CopiesAreAlike'
  BY <1>1, <1>2, <1>5, <1>7 DEF IInv, CopiesAreAlike
<1>9. UnusedUntilSent'
  <2>. SUFFICES ASSUME NEW d \in Command, answer'[d] = Nothing, \A x \in Req : Held(x)' => x.id # d
                PROVE  /\ done'[d] = 0 /\ d \notin DOMAIN kept'
                       /\ \A x \in Req : InUse(x)' => x.id # d
                       /\ \A r \in Result : ~Acked(d, r)'
    BY DEF UnusedUntilSent
  <2>1. d # c
    BY <1>1, <1>6
  <2>. QED  BY <1>0, <1>1, <1>2, <1>5, <2>1 DEF IInv, UnusedUntilSent
<1>10. HeldIsOpen'
  BY <1>0, <1>1, <1>2, <1>5 DEF HeldIsOpen
<1>11. ReceiptsMatch'
  BY <1>1, <1>2, <1>5, <1>7 DEF IInv, ReceiptsMatch
<1>12. NothingIsEarly'
  BY <1>0, <1>1, <1>2, <1>3, <1>5 DEF IInv, NothingIsEarly
<1>13. ReadyHasSnapshot'
  BY <1>0, <1>1 DEF ReadyHasSnapshot
<1>14. \A d : Concluded(d)' => Concluded(d)
  BY <1>0, <1>1, <1>5 DEF Concluded
<1>15. ConcludedIsRemembered'
  BY <1>0, <1>1, <1>2, <1>5, <1>7, <1>14 DEF IInv, ConcludedIsRemembered
<1>16. ActingIsOpen'
  BY <1>0, <1>1, <1>5 DEF IInv, ActingIsOpen, Concluded
<1>17. TruthIsTold'
  BY <1>0, <1>1, <1>5 DEF IInv, TruthIsTold
<1>. QED  BY <1>4, <1>8, <1>9, <1>10, <1>11, <1>12, <1>13, <1>15, <1>16, <1>17 DEF IInv

------------------------------------------------------------------------------
(* The server answers the command at the head of the queue *)

\* Request x is answered with a result; receipts go only when their commands
\* are too old, and what is said of x is true.
Answered(x, result) ==
    /\ \A m \in net' :
          /\ m \in Message
          /\ m \in net \/ /\ m.kind = "ack" /\ m.id = x.id /\ m.result = result
                          /\ m.snap # Nothing => m.snap.server = process
    /\ \A c \in Command \ {x.id} :
          /\ done'[c] = done[c]
          /\ c \in DOMAIN kept' => c \in DOMAIN kept /\ kept'[c] = kept[c]
          /\ c \in DOMAIN kept \ DOMAIN kept' => time - kept[c].created > TTL
    /\ x.id \in DOMAIN kept' => kept'[x.id].created = x.created
    /\ done'[x.id] <= 1
    /\ result = "ok" \/ Said(x.id, "ok") \/ (x.id \in DOMAIN kept' /\ kept'[x.id].result = "ok") =>
          done'[x.id] = 1
    /\ result = "rejected" \/ Said(x.id, "rejected")
          \/ (x.id \in DOMAIN kept' /\ kept'[x.id].result = "rejected") => done'[x.id] = 0
    /\ (done'[x.id] # 0 \/ result \in {"ok", "rejected"} \/ Concluded(x.id)) /\ x.id \notin DOMAIN kept' =>
          time - x.created > TTL \/ x.server # process

\* The request at the head of the queue is one of the copies in use.
LEMMA HeadRequest ==
    ASSUME IInv, work # << >>, Head(work).kind = "command"
    PROVE  Head(work).req \in Req /\ Head(work).conn \in Nat /\ InUse(Head(work).req)
<1>1. work \in Seq(Work)
  BY DEF IInv, TypeOK, HubTypeOK
<1>2. Head(work) \in Work /\ Head(work) = work[1] /\ 1 \in 1..Len(work)
  BY <1>1, QueueTail
<1>. QED  BY <1>2 DEF Work, InUse, Waits

LEMMA AnsweredKeepsInv ==
    ASSUME IInv, TypeOK', work # << >>, Head(work).kind = "command", NEW x \in Req, x = Head(work).req,
           NEW result \in Result, Answered(x, result), work' = Tail(work), step' = "queued",
           UNCHANGED <<tabVars, process, running, time>>
    PROVE  IInv'
<1>1. InUse(x) /\ x.id \in Command /\ work \in Seq(Work) /\ TypeOK
  BY HeadRequest DEF Req, IInv, TypeOK, HubTypeOK
<1>2. UNCHANGED <<status, snapshot, outstanding, answer, process, running, time>>
  BY DEF tabVars
<1>3. \A y \in Req : (InUse(y)' => InUse(y)) /\ (Held(y)' <=> Held(y))
  <2>1. \A y \in Req : Travels(y)' => Travels(y)
    BY DEF Travels, Answered
  <2>2. \A y \in Req : Waits(y)' => Waits(y)
    <3>1. \A i \in 1..Len(work') : i + 1 \in 1..Len(work) /\ work'[i] = work[i + 1]
      BY <1>1, QueueTail
    <3>. QED  BY <3>1 DEF Waits
  <2>3. \A y \in Req : Held(y)' <=> Held(y)
    BY <1>2 DEF Held
  <2>. QED  BY <2>1, <2>2, <2>3 DEF InUse
<1>4. \A c \in Command, r \in Result :
          (Acked(c, r)' => Acked(c, r) \/ (c = x.id /\ r = result))
  BY DEF Acked, Answered
<1>5. \A r \in {"ok", "rejected"} : r \in Result
  BY DEF Result
<1>6. \A c \in Command, r \in {"ok", "rejected"} : Said(c, r)' => Said(c, r) \/ (c = x.id /\ r = result)
  BY <1>2, <1>4, <1>5 DEF Said
<1>7. \A y \in Req : InUse(y) /\ y.id = x.id => y = x
  BY <1>1 DEF IInv, CopiesAreAlike
<1>8. CopiesAreAlike' /\ HeldIsOpen' /\ ReadyHasSnapshot' /\ ActingIsOpen'
  BY <1>2, <1>3 DEF IInv, CopiesAreAlike, HeldIsOpen, ReadyHasSnapshot, ActingIsOpen
<1>9. UnusedUntilSent'
  <2>. SUFFICES ASSUME NEW c \in Command, answer'[c] = Nothing, \A y \in Req : Held(y)' => y.id # c
                PROVE  /\ done'[c] = 0 /\ c \notin DOMAIN kept'
                       /\ \A y \in Req : InUse(y)' => y.id # c
                       /\ \A r \in Result : ~Acked(c, r)'
    BY DEF UnusedUntilSent
  <2>1. /\ done[c] = 0 /\ c \notin DOMAIN kept
        /\ \A y \in Req : InUse(y) => y.id # c
        /\ \A r \in Result : ~Acked(c, r)
    BY <1>2, <1>3 DEF IInv, UnusedUntilSent
  <2>2. c # x.id
    BY <1>1, <2>1
  <2>. QED  BY <1>3, <1>4, <2>1, <2>2 DEF Answered
<1>10. ReceiptsMatch'
  BY <1>1, <1>3, <1>7 DEF IInv, ReceiptsMatch, Answered, Req
<1>11. NothingIsEarly'
  <2>1. process \in Nat
    BY <1>1 DEF TypeOK, HubTypeOK
  <2>. QED  BY <1>2, <1>3, <2>1 DEF IInv, NothingIsEarly, Answered
<1>12. ConcludedIsRemembered'
  <2>. SUFFICES ASSUME running, NEW y \in Req, InUse(y), y.server = process, time - y.created <= TTL,
                       Concluded(y.id)', y.id \notin DOMAIN kept'
                PROVE  FALSE
    BY <1>2, <1>3 DEF ConcludedIsRemembered
  <2>1. y.id \in Command /\ time - y.created \in Int /\ TTL \in Int
    BY <1>1 DEF Req, TypeOK, TTL
  <2>2. CASE y.id = x.id
    <3>1. y = x
      BY <1>7, <2>2
    <3>2. done'[x.id] # 0 \/ result \in {"ok", "rejected"} \/ Concluded(x.id)
      BY <1>6, <2>1, <2>2 DEF Concluded
    <3>3. time - x.created > TTL \/ x.server # process
      BY <2>2, <3>2 DEF Answered
    <3>. QED  BY <2>1, <3>1, <3>3
  <2>3. CASE y.id # x.id
    <3>1. Concluded(y.id)
      BY <1>6, <2>1, <2>3 DEF Concluded, Answered
    <3>2. y.id \in DOMAIN kept
      BY <3>1 DEF IInv, ConcludedIsRemembered
    <3>3. time - kept[y.id].created > TTL /\ kept[y.id].created = y.created
      BY <2>1, <2>3, <3>2 DEF Answered, IInv, ReceiptsMatch
    <3>. QED  BY <2>1, <3>3
  <2>. QED  BY <2>2, <2>3
<1>13. TruthIsTold'
  <2>. SUFFICES ASSUME NEW c \in Command
                PROVE  /\ done'[c] <= 1
                       /\ Said(c, "ok")' \/ (c \in DOMAIN kept' /\ kept'[c].result = "ok") => done'[c] = 1
                       /\ Said(c, "rejected")' \/ (c \in DOMAIN kept' /\ kept'[c].result = "rejected")
                              => done'[c] = 0
    BY DEF TruthIsTold
  <2>1. CASE c = x.id
    BY <1>6, <2>1 DEF Answered
  <2>2. CASE c # x.id
    BY <1>6, <2>2 DEF Answered, IInv, TruthIsTold
  <2>. QED  BY <2>1, <2>2
<1>. QED  BY <1>8, <1>9, <1>10, <1>11, <1>12, <1>13 DEF IInv

\* The one acknowledgement that leaves the server with an answer.
LEMMA RespondStep ==
    ASSUME IInv, NEW conn \in Nat, NEW x \in Req, NEW result \in Result, NEW g \in Nat,
           \/ Respond(conn, x.id, result, g)
           \/ net' = net \cup {Ack(conn, x.id, result, Nothing)} /\ sequence' = sequence
    PROVE  /\ sequence' \in Nat
           /\ \A m \in net' :
                 /\ m \in Message
                 /\ m \in net \/ /\ m.kind = "ack" /\ m.id = x.id /\ m.result = result
                                 /\ m.snap # Nothing => m.snap.server = process
<1>1. x.id \in Command /\ sequence \in Nat /\ net \subseteq Message
  BY DEF Req, IInv, TypeOK, HubTypeOK
<1>2. /\ Snapshot(conn, sequence + 1, g) \in Snap
      /\ Snapshot(conn, sequence + 1, g).server = process
  BY SnapshotsMade DEF IInv
<1>3. PICK snap \in Snap \cup {Nothing} :
          /\ snap # Nothing => snap.server = process
          /\ net' = net \cup {Ack(conn, x.id, result, snap)}
          /\ sequence' \in {sequence, sequence + 1}
  BY <1>2 DEF Respond
<1>4. /\ Ack(conn, x.id, result, snap) \in Message /\ Ack(conn, x.id, result, snap).kind = "ack"
      /\ Ack(conn, x.id, result, snap).id = x.id /\ Ack(conn, x.id, result, snap).result = result
      /\ Ack(conn, x.id, result, snap).snap = snap
  BY <1>1, MessagesMade
<1>. QED  BY <1>1, <1>3, <1>4

LEMMA ReceiptTypes ==
    ASSUME TypeOK
    PROVE  /\ Remembered \subseteq DOMAIN kept
           /\ \A c \in DOMAIN kept : /\ c \in Command /\ kept[c].created \in Nat /\ kept[c].result \in Result
                                     /\ c \notin Remembered => time - kept[c].created > TTL
           /\ DOMAIN Kept(Remembered) = Remembered
           /\ \A c \in Remembered : Kept(Remembered)[c] = kept[c]
BY DEF TypeOK, HubTypeOK, Remembered, Kept, TTL

\* What a command that was refused or answered from its receipt leaves behind.
LEMMA RefuseStep ==
    ASSUME IInv, running, work # << >>, Head(work).kind = "command", step = "queued",
           NEW w \in {Head(work)}, Refusal(w.req, w.conn) # Nothing, Refuse(w, Refusal(w.req, w.conn)),
           UNCHANGED <<tabVars, process, running, connection, reconciling, links, games, time, done>>
    PROVE  IInv'
<1>. DEFINE x == w.req
            result == Refusal(w.req, w.conn)
<1>1. /\ TypeOK /\ x \in Req /\ w.conn \in Nat /\ InUse(x) /\ x.id \in Command
      /\ work \in Seq(Work) /\ game \in Nat
  BY HeadRequest DEF IInv, Req, TypeOK, HubTypeOK
<1>2. /\ result \in Result
      /\ result \in {"ok", "rejected"} => x.id \in Remembered /\ kept[x.id].result = result
  <2>1. \A c \in Remembered : kept[c].result \in Result
    BY <1>1, ReceiptTypes
  <2>2. {"replaced", "recovering", "restarted", "expired", "too many"} \subseteq Result \ {"ok", "rejected"}
    BY DEF Result
  <2>3. \/ result \in {"replaced", "recovering", "restarted", "expired", "too many"}
        \/ x.id \in Remembered /\ result = kept[x.id].result
    BY DEF Refusal
  <2>. QED  BY <2>1, <2>2, <2>3
<1>3. /\ kept' = kept \/ kept' = Kept(Remembered)
      /\ step' = "queued" /\ work' = Tail(work) /\ UNCHANGED <<game, over, done>>
  BY DEF Refuse
<1>4. /\ DOMAIN kept' \subseteq DOMAIN kept /\ Remembered \subseteq DOMAIN kept'
      /\ \A c \in DOMAIN kept' : kept'[c] = kept[c]
      /\ \A c \in DOMAIN kept \ DOMAIN kept' : time - kept[c].created > TTL
  BY <1>1, <1>3, ReceiptTypes
<1>5. \/ Respond(w.conn, x.id, result, game)
      \/ net' = net \cup {Ack(w.conn, x.id, result, Nothing)} /\ sequence' = sequence
  BY DEF Refuse
<1>. HIDE DEF x, result
<1>6. /\ sequence' \in Nat
      /\ \A m \in net' :
            /\ m \in Message
            /\ m \in net \/ /\ m.kind = "ack" /\ m.id = x.id /\ m.result = result
                            /\ m.snap # Nothing => m.snap.server = process
  BY <1>1, <1>2, <1>5, RespondStep
<1>7. TypeOK'
  <2>1. work' \in Seq(Work)
    BY <1>1, <1>3, QueueTail
  <2>2. TabTypeOK'
    BY <1>1 DEF TypeOK, TabTypeOK, tabVars
  <2>3. HubTypeOK'
    BY <1>1, <1>3, <1>4, <1>6, <2>1 DEF TypeOK, HubTypeOK
  <2>. QED  BY <1>1, <1>6, <2>2, <2>3 DEF TypeOK
<1>8. Answered(x, result)
  <2>1. \A c \in Command \ {x.id} :
          /\ done'[c] = done[c]
          /\ c \in DOMAIN kept' => c \in DOMAIN kept /\ kept'[c] = kept[c]
          /\ c \in DOMAIN kept \ DOMAIN kept' => time - kept[c].created > TTL
    BY <1>3, <1>4
  <2>2. x.id \in DOMAIN kept' => kept'[x.id].created = x.created
    BY <1>1, <1>4 DEF IInv, ReceiptsMatch
  <2>3. /\ done'[x.id] <= 1
        /\ result = "ok" \/ Said(x.id, "ok") \/ (x.id \in DOMAIN kept' /\ kept'[x.id].result = "ok") =>
              done'[x.id] = 1
        /\ result = "rejected" \/ Said(x.id, "rejected")
              \/ (x.id \in DOMAIN kept' /\ kept'[x.id].result = "rejected") => done'[x.id] = 0
    BY <1>1, <1>2, <1>3, <1>4 DEF IInv, TruthIsTold
  <2>4. (done'[x.id] # 0 \/ result \in {"ok", "rejected"} \/ Concluded(x.id)) /\ x.id \notin DOMAIN kept' =>
            time - x.created > TTL \/ x.server # process
    <3>. SUFFICES ASSUME done[x.id] # 0 \/ result \in {"ok", "rejected"} \/ Concluded(x.id),
                         x.id \notin DOMAIN kept', ~(time - x.created > TTL), x.server = process
                  PROVE  FALSE
      BY <1>3
    <3>1. result \notin {"ok", "rejected"}
      BY <1>2, <1>4
    <3>2. Concluded(x.id)
      BY <3>1 DEF Concluded
    <3>3. time - x.created <= TTL
      BY <1>1 DEF TypeOK, Req, TTL
    <3>4. x.id \in DOMAIN kept /\ kept[x.id].created = x.created
      BY <1>1, <3>2, <3>3 DEF IInv, ConcludedIsRemembered, ReceiptsMatch
    <3>. QED  BY <1>4, <3>4
  <2>. QED  BY <1>6, <2>1, <2>2, <2>3, <2>4 DEF Answered
<1>9. x = Head(work).req
  BY DEF x
<1>. QED  BY <1>1, <1>2, <1>3, <1>7, <1>8, <1>9, AnsweredKeepsInv

\* What a command that was carried out, rejected or abandoned leaves behind.
LEMMA FinishStep ==
    ASSUME IInv, running, work # << >>, Head(work).kind = "command", NEW w \in {Head(work)},
           ~Concluded(w.req.id), NEW result \in {"ok", "rejected", "failed"}, NEW g \in Nat, Finish(w, result, g),
           NEW n \in {0, 1}, done' = [done EXCEPT ![w.req.id] = n],
           result = "ok" => n = 1, result = "rejected" => n = 0, game' \in Nat, games' \in Nat,
           UNCHANGED <<tabVars, process, running, connection, reconciling, links, time>>
    PROVE  IInv'
<1>. DEFINE x == w.req
<1>1. /\ TypeOK /\ x \in Req /\ w.conn \in Nat /\ x.id \in Command /\ x.created \in Nat
      /\ work \in Seq(Work) /\ result \in Result /\ done \in [Command -> Nat]
  BY HeadRequest DEF IInv, Req, TypeOK, HubTypeOK, Result
<1>2. /\ kept' = [c \in Remembered \cup {x.id} |->
                     IF c = x.id THEN [result |-> result, created |-> x.created] ELSE kept[c]]
      /\ work' = Tail(work) /\ step' = "queued" /\ Respond(w.conn, x.id, result, g)
      /\ ~Concluded(x.id) /\ done' = [done EXCEPT ![x.id] = n] /\ x = Head(work).req
  BY DEF Finish
<1>. HIDE DEF x
<1>3. /\ DOMAIN kept' = Remembered \cup {x.id}
      /\ kept'[x.id] = [result |-> result, created |-> x.created]
      /\ \A c \in Remembered : c # x.id => kept'[c] = kept[c]
  BY <1>2
<1>4. /\ sequence' \in Nat
      /\ \A m \in net' :
            /\ m \in Message
            /\ m \in net \/ /\ m.kind = "ack" /\ m.id = x.id /\ m.result = result
                            /\ m.snap # Nothing => m.snap.server = process
  BY <1>1, <1>2, RespondStep
<1>5. TypeOK'
  <2>1. work' \in Seq(Work)
    BY <1>1, <1>2, QueueTail
  <2>2. TabTypeOK'
    BY <1>1 DEF TypeOK, TabTypeOK, tabVars
  <2>3. DOMAIN kept' \subseteq Command /\ \A c \in DOMAIN kept' : kept'[c] \in [result : Result, created : Nat]
    BY <1>1, <1>3, ReceiptTypes DEF TypeOK, HubTypeOK
  <2>4. HubTypeOK'
    BY <1>1, <1>2, <1>4, <2>1, <2>3 DEF TypeOK, HubTypeOK
  <2>. QED  BY <1>1, <1>2, <1>4, <2>2, <2>4 DEF TypeOK
<1>6. Answered(x, result)
  <2>1. \A c \in Command \ {x.id} :
          /\ done'[c] = done[c]
          /\ c \in DOMAIN kept' => c \in DOMAIN kept /\ kept'[c] = kept[c]
          /\ c \in DOMAIN kept \ DOMAIN kept' => time - kept[c].created > TTL
    BY <1>1, <1>2, <1>3, ReceiptTypes
  <2>2. done'[x.id] = n /\ ~Said(x.id, "ok") /\ ~Said(x.id, "rejected")
    BY <1>1, <1>2 DEF Concluded
  <2>3. x.id \in DOMAIN kept' /\ kept'[x.id].created = x.created /\ kept'[x.id].result = result
    BY <1>3
  <2>. QED  BY <1>4, <2>1, <2>2, <2>3 DEF Answered
<1>. QED  BY <1>1, <1>2, <1>5, <1>6, AnsweredKeepsInv

\* A command is dispatched only if it was not concluded before.
LEMMA ActingStep ==
    ASSUME IInv, running, work # << >>, Head(work).kind = "command", NEW w \in {Head(work)},
           ~Concluded(w.req.id), step' = "acting", kept' = Kept(Remembered), game' \in Nat,
           UNCHANGED <<work, sequence, net, tabVars, process, running, connection, reconciling, links, games, time,
                       done>>
    PROVE  IInv'
<1>1. TypeOK /\ \A x \in Req : x.id \in Command /\ x.created \in Nat
  BY DEF IInv, Req
<1>2. /\ DOMAIN kept' = Remembered /\ Remembered \subseteq DOMAIN kept
      /\ \A c \in DOMAIN kept' : kept'[c] = kept[c]
      /\ \A c \in DOMAIN kept : c \notin Remembered => time - kept[c].created > TTL
  BY <1>1, ReceiptTypes
<1>3. UNCHANGED <<status, snapshot, outstanding, link, answer>>
  BY DEF tabVars
<1>4. TypeOK'
  <2>1. TabTypeOK'
    BY <1>1, <1>3 DEF TypeOK, TabTypeOK
  <2>2. HubTypeOK'
    BY <1>1, <1>2 DEF TypeOK, HubTypeOK
  <2>. QED  BY <1>1, <2>1, <2>2 DEF TypeOK
<1>5. /\ \A x : (InUse(x)' <=> InUse(x)) /\ (Held(x)' <=> Held(x))
      /\ \A c, r : (Acked(c, r)' <=> Acked(c, r)) /\ (Said(c, r)' <=> Said(c, r))
  BY <1>3 DEF InUse, Travels, Waits, Held, Acked, Said
<1>6. \A c : Concluded(c)' <=> Concluded(c)
  BY <1>5 DEF Concluded
<1>7. CopiesAreAlike' /\ HeldIsOpen' /\ ReadyHasSnapshot' /\ NothingIsEarly'
  BY <1>3, <1>5 DEF IInv, CopiesAreAlike, HeldIsOpen, ReadyHasSnapshot, NothingIsEarly
<1>8. UnusedUntilSent' /\ ReceiptsMatch' /\ TruthIsTold'
  BY <1>2, <1>3, <1>5 DEF IInv, UnusedUntilSent, ReceiptsMatch, TruthIsTold
<1>9. ConcludedIsRemembered'
  <2>. SUFFICES ASSUME running, NEW y \in Req, InUse(y), y.server = process, time - y.created <= TTL,
                       Concluded(y.id)
                PROVE  y.id \in Remembered
    BY <1>2, <1>5, <1>6 DEF ConcludedIsRemembered
  <2>1. y.id \in DOMAIN kept /\ kept[y.id].created = y.created
    BY DEF IInv, ConcludedIsRemembered, ReceiptsMatch
  <2>. QED  BY <2>1 DEF Remembered
<1>10. ActingIsOpen'
  BY <1>5 DEF ActingIsOpen, Concluded
<1>. QED  BY <1>4, <1>7, <1>8, <1>9, <1>10 DEF IInv

LEMMA AdmitStep == ASSUME IInv, Admit PROVE IInv'
<1>1. PICK w \in {Head(work)} :
          IF Refusal(w.req, w.conn) = Nothing THEN Dispatch(w) ELSE Refuse(w, Refusal(w.req, w.conn))
  BY DEF Admit
<1>2. /\ running /\ work # << >> /\ Head(work).kind = "command" /\ step = "queued"
      /\ UNCHANGED <<tabVars, process, running, connection, reconciling, links, games, time, done>>
  BY DEF Admit
<1>3. CASE Refusal(w.req, w.conn) # Nothing
  BY <1>1, <1>2, <1>3, RefuseStep
<1>4. CASE Refusal(w.req, w.conn) = Nothing
  <2>. DEFINE x == w.req
  <2>1. /\ TypeOK /\ x \in Req /\ InUse(x) /\ x.id \in Command /\ game \in Nat /\ games \in Nat
        /\ done \in [Command -> Nat] /\ Dispatch(w)
    BY <1>1, <1>2, <1>4, HeadRequest DEF IInv, Req, TypeOK, HubTypeOK
  <2>2. x.server = process /\ ~(time - x.created > TTL) /\ x.id \notin Remembered
    <3>1. \A c \in Remembered : kept[c].result # Nothing
      BY <2>1, ReceiptTypes, NothingAssumption
    <3>2. \A r \in {"replaced", "recovering", "restarted", "expired"} : r # Nothing
      BY NothingAssumption DEF Result
    <3>. QED  BY <1>4, <3>1, <3>2 DEF Refusal
  <2>3. ~Concluded(x.id)
    <3>. SUFFICES ASSUME Concluded(x.id) PROVE FALSE
      OBVIOUS
    <3>1. time - x.created <= TTL
      BY <2>1, <2>2 DEF TypeOK, Req, TTL
    <3>2. x.id \in DOMAIN kept /\ kept[x.id].created = x.created
      BY <1>2, <2>1, <2>2, <3>1 DEF IInv, ConcludedIsRemembered, ReceiptsMatch
    <3>. QED  BY <2>2, <3>1, <3>2 DEF Remembered
  <2>4. ASSUME NEW result \in {"rejected", "failed"}, Finish(w, result, game), UNCHANGED <<game, over>>
        PROVE  IInv'
    <3>1. done[x.id] = 0
      BY <2>3 DEF Concluded
    <3>2. done' = [done EXCEPT ![x.id] = 0]
      BY <1>2, <2>1, <3>1
    <3>. QED  BY <1>2, <2>1, <2>3, <2>4, <3>2, FinishStep
  <2>5. ASSUME step' = "acting", kept' = Kept(Remembered), UNCHANGED <<work, sequence, net>>,
               game' = NoGame \/ game' = game
        PROVE  IInv'
    BY <1>2, <2>1, <2>3, <2>5, ActingStep DEF NoGame
  <2>. QED  BY <2>1, <2>4, <2>5 DEF Dispatch
<1>. QED  BY <1>3, <1>4

LEMMA ActStep == ASSUME IInv, Act PROVE IInv'
<1>1. /\ running /\ work # << >> /\ Head(work).kind = "command" /\ ~Concluded(Head(work).req.id)
      /\ UNCHANGED <<tabVars, process, running, connection, reconciling, links, time>>
  BY DEF IInv, ActingIsOpen, Act
<1>. DEFINE w == Head(work)
<1>2. /\ w.req.id \in Command /\ game \in Nat /\ games \in Nat /\ games + 1 \in Nat
      /\ done \in [Command -> Nat] /\ done[w.req.id] = 0
  BY <1>1, HeadRequest DEF IInv, Req, TypeOK, HubTypeOK, Concluded
<1>3. \/ \E result \in {"ok", "failed"}, g \in {game, games + 1} :
             /\ Finish(w, result, g)
             /\ done' = [done EXCEPT ![w.req.id] = @ + 1]
             /\ game' \in {game, games + 1} /\ games' \in {games, games + 1}
      \/ \E result \in {"rejected", "failed"} : Finish(w, result, game) /\ UNCHANGED <<game, over, games, done>>
  BY DEF Act
<1>4. ASSUME NEW result \in {"ok", "failed"}, NEW g \in {game, games + 1}, Finish(w, result, g),
             done' = [done EXCEPT ![w.req.id] = @ + 1],
             game' \in {game, games + 1}, games' \in {games, games + 1}
      PROVE  IInv'
  <2>1. done' = [done EXCEPT ![w.req.id] = 1]
    BY <1>2, <1>4
  <2>2. /\ g \in Nat /\ game' \in Nat /\ games' \in Nat /\ 1 \in {0, 1}
        /\ result \in {"ok", "rejected", "failed"} /\ result # "rejected"
    BY <1>2, <1>4
  <2>. HIDE DEF w
  <2>3. w \in {Head(work)}
    BY DEF w
  <2>4. work # << >> /\ Head(work).kind = "command" /\ ~Concluded(w.req.id) /\ running
    BY <1>1 DEF w
  <2>. QED  BY <1>1, <1>4, <2>1, <2>2, <2>3, <2>4, FinishStep
<1>5. ASSUME NEW result \in {"rejected", "failed"}, Finish(w, result, game), UNCHANGED <<game, over, games, done>>
      PROVE  IInv'
  <2>1. done' = [done EXCEPT ![w.req.id] = 0]
    BY <1>2, <1>5
  <2>. QED  BY <1>1, <1>2, <1>5, <2>1, FinishStep
<1>. QED  BY <1>3, <1>4, <1>5

------------------------------------------------------------------------------
LEMMA InvInit == TransportInit => IInv
<1>. SUFFICES ASSUME TransportInit PROVE IInv
  OBVIOUS
<1>1. /\ net = {} /\ work = << >> /\ outstanding = Nothing /\ snapshot = Nothing /\ step = "queued"
      /\ done = [c \in Command |-> 0] /\ answer = [c \in Command |-> Nothing] /\ DOMAIN kept = {}
      /\ status = "reconnecting" /\ process = 1
  BY DEF TransportInit, Kept
<1>2. TypeOK
  <2>1. work \in Seq(Work)
    BY <1>1
  <2>. QED  BY <1>1, <2>1 DEF TransportInit, TypeOK, TabTypeOK, HubTypeOK, NoLink, NoGame
<1>3. /\ \A x : ~InUse(x) /\ ~Held(x)
      /\ \A c, r : ~Acked(c, r)
  BY <1>1 DEF InUse, Travels, Waits, Held, Acked
<1>4. CopiesAreAlike /\ HeldIsOpen /\ ReceiptsMatch /\ NothingIsEarly /\ ReadyHasSnapshot
  BY <1>1, <1>3 DEF CopiesAreAlike, HeldIsOpen, ReceiptsMatch, NothingIsEarly, ReadyHasSnapshot
<1>5. UnusedUntilSent /\ ConcludedIsRemembered /\ ActingIsOpen
  BY <1>1, <1>3 DEF UnusedUntilSent, ConcludedIsRemembered, ActingIsOpen
<1>6. TruthIsTold
  <2>1. Nothing \notin {"ok", "rejected"}
    BY NothingAssumption DEF Result
  <2>. QED  BY <1>1, <1>3, <2>1 DEF TruthIsTold, Said
<1>. QED  BY <1>2, <1>4, <1>5, <1>6 DEF IInv

LEMMA InvStep == IInv /\ [TransportNext]_transportVars => IInv'
<1>. SUFFICES ASSUME IInv, [TransportNext]_transportVars PROVE IInv'
  OBVIOUS
<1>1. CASE Browser
  BY <1>1, OnStateStep, OnAckStep, OnClosedStep, RetransmitStep, AskAgainStep, ReconnectStep DEF Browser
<1>2. CASE Server
  BY <1>2, RestoreMembershipStep, SyncArrivesStep, CommandArrivesStep, AdmitStep, ActStep DEF Server
<1>3. CASE ServerDisconnects \/ Start \/ TimePasses \/ LinkBreaks \/ ElsewhereConnects \/ GameEnds \/ Stop
  BY <1>3, ServerDisconnectsStep, StartStep, TimePassesStep, LinkBreaksStep, ElsewhereConnectsStep,
     GameEndsStep, StopStep
<1>4. ASSUME NEW c \in Command, NEW kind \in {"join", "move"}, SendCommand(c, kind) PROVE IInv'
  BY <1>4, SendCommandStep
<1>5. CASE UNCHANGED transportVars
  <2>1. TabStep
    <3>1. TabTypeOK /\ NetQuiet(net)
      BY NetUnchanged DEF IInv, TypeOK
    <3>. QED  BY <1>5, <3>1 DEF TabStep, TabTypeOK, TabQuiet, transportVars, tabVars, IInv, ReadyHasSnapshot
  <2>. QED  BY <1>5, <2>1, TabStepIsQuiet DEF transportVars
<1>. QED  BY <1>1, <1>2, <1>3, <1>4, <1>5 DEF TransportNext

LEMMA Invariance == TransportSpec => []IInv
BY InvInit, InvStep, PTL DEF TransportSpec

\* Copies, retries and other processes never make a command count twice, and
\* the tab is told the truth about it (commandRouter.js, sessionClient.js).
THEOREM CommandsCount == TransportSpec => []CommandsCountOnce
<1>1. IInv => CommandsCountOnce
  BY DEF IInv, TruthIsTold, CommandsCountOnce, Said
<1>. QED  BY <1>1, Invariance, PTL

------------------------------------------------------------------------------
(* Snapshots.  Connections are numbered in the order they are made, each by  *)
(* the process that runs then; a tab only takes snapshots of its connection, *)
(* so none is from a process before the one it knows.                        *)

\* The snapshots that exist.
Around(s) ==
    \/ snapshot # Nothing /\ s = snapshot
    \/ \E m \in net : m.kind \in {"state", "ack"} /\ m.snap # Nothing /\ s = m.snap

\* The connection the server has is the newest, and a stopped server has none.
NewestIsConnected ==
    /\ connection \in {NoLink, links}
    /\ ~running => connection = NoLink

\* A later connection is of the same process or a later one; the current one is of the
\* current process.
ConnectionsAreOrdered ==
    /\ \A s \in Snap : Around(s) => s.conn <= links /\ s.server <= process
    /\ \A s \in Snap : Around(s) /\ connection # NoLink /\ s.conn = connection => s.server = process
    /\ \A s, u \in Snap : Around(s) /\ Around(u) /\ s.conn <= u.conn => s.server <= u.server

\* The tab's own connection is not older than that of the snapshot it has.
TabKeepsUp ==
    /\ link <= links
    /\ snapshot # Nothing /\ link # NoLink => snapshot.conn <= link

ConnInv == NewestIsConnected /\ ConnectionsAreOrdered /\ TabKeepsUp

Fresh(s) == connection # NoLink /\ s.conn = connection /\ s.server = process

\* A step brings only fresh snapshots, and the tab takes only acceptable ones.
NetSnaps(N) ==
    \A m \in N : m.kind \in {"state", "ack"} /\ m.snap # Nothing => m \in net \/ Fresh(m.snap)
SnapStep ==
    /\ NetSnaps(net')
    /\ \/ snapshot' = snapshot
       \/ snapshot' \in Snap /\ snapshot' # Nothing /\ Around(snapshot') /\ Acceptable(snapshot')

LEMMA AroundStep ==
    ASSUME SnapStep
    PROVE  \A s \in Snap : Around(s)' => Around(s) \/ Fresh(s)
<1>. SUFFICES ASSUME NEW s \in Snap, Around(s)' PROVE Around(s) \/ Fresh(s)
  OBVIOUS
<1>1. CASE snapshot' # Nothing /\ s = snapshot'
  BY <1>1 DEF SnapStep, Around
<1>2. CASE \E m \in net' : m.kind \in {"state", "ack"} /\ m.snap # Nothing /\ s = m.snap
  BY <1>2 DEF SnapStep, NetSnaps, Around
<1>. QED  BY <1>1, <1>2 DEF Around

ConnTypeOK ==
    /\ connection \in Nat /\ link \in Nat /\ links \in Nat /\ process \in Nat
    /\ snapshot # Nothing => snapshot \in Snap

LEMMA ConnTypes == TypeOK => ConnTypeOK
BY DEF TypeOK, TabTypeOK, HubTypeOK, ConnTypeOK

\* Steps on the connections there are.
LEMMA ConnStays ==
    ASSUME ConnTypeOK, ConnInv, SnapStep, link' \in {link, NoLink}, connection' \in {connection, NoLink},
           UNCHANGED <<process, running, links>>
    PROVE  ConnInv'
<1>1. \A s \in Snap : Around(s)' => Around(s) \/ Fresh(s)
  BY AroundStep
<1>2. \A s \in Snap : s.conn \in Nat /\ s.server \in Nat
  BY DEF Snap
<1>3. NewestIsConnected'
  BY DEF ConnInv, NewestIsConnected
<1>4. ConnectionsAreOrdered'
  <2>1. \A s \in Snap : Fresh(s) => s.conn = links /\ s.server = process
    BY DEF Fresh, ConnInv, NewestIsConnected
  <2>2. \A s \in Snap : Around(s)' => s.conn <= links /\ s.server <= process
    BY <1>1, <1>2, <2>1 DEF ConnInv, ConnectionsAreOrdered, ConnTypeOK
  <2>3. ASSUME NEW s \in Snap, Around(s)', connection # NoLink, s.conn = connection PROVE s.server = process
    BY <1>1, <2>1, <2>3 DEF ConnInv, ConnectionsAreOrdered
  <2>4. ASSUME NEW s \in Snap, NEW u \in Snap, Around(s)', Around(u)', s.conn <= u.conn
        PROVE  s.server <= u.server
    <3>1. CASE Around(s) /\ Around(u)
      BY <2>4, <3>1 DEF ConnInv, ConnectionsAreOrdered
    <3>2. CASE Fresh(u)
      BY <1>2, <2>1, <2>2, <2>4, <3>2
    <3>3. CASE Fresh(s) /\ Around(u)
      <4>1. u.conn = connection /\ connection # NoLink
        BY <1>2, <2>1, <2>2, <2>4, <3>3 DEF Fresh, ConnTypeOK
      <4>2. u.server = process
        BY <3>3, <4>1 DEF ConnInv, ConnectionsAreOrdered
      <4>. QED  BY <1>2, <2>1, <3>3, <4>2
    <3>. QED  BY <1>1, <2>4, <3>1, <3>2, <3>3
  <2>. QED  BY <2>2, <2>3, <2>4 DEF ConnectionsAreOrdered
<1>5. TabKeepsUp'
  BY <1>2 DEF ConnInv, TabKeepsUp, SnapStep, Acceptable, ConnTypeOK, NoLink
<1>. QED  BY <1>3, <1>4, <1>5 DEF ConnInv

\* A new connection, which no snapshot is of yet.
LEMMA ConnGrows ==
    ASSUME ConnTypeOK, ConnInv, links' = links + 1, connection' = links + 1, link' \in {link, links + 1},
           \A s \in Snap : Around(s)' => Around(s), running, UNCHANGED <<snapshot, process, running>>
    PROVE  ConnInv'
<1>1. \A s \in Snap : s.conn \in Nat /\ s.server \in Nat
  BY DEF Snap
<1>2. NewestIsConnected'
  BY DEF NewestIsConnected
<1>3. ConnectionsAreOrdered'
  BY <1>1 DEF ConnInv, ConnectionsAreOrdered, ConnTypeOK
<1>4. TabKeepsUp'
  <2>1. snapshot # Nothing => Around(snapshot) /\ snapshot \in Snap
    BY DEF Around, ConnTypeOK
  <2>2. snapshot # Nothing => snapshot.conn <= links
    BY <2>1 DEF ConnInv, ConnectionsAreOrdered
  <2>. QED  BY <1>1, <2>1, <2>2 DEF ConnInv, TabKeepsUp, ConnTypeOK
<1>. QED  BY <1>2, <1>3, <1>4 DEF ConnInv

\* A process stops, or its successor starts.
LEMMA ConnRestarts ==
    ASSUME ConnTypeOK, ConnInv, \A s \in Snap : Around(s)' => Around(s), UNCHANGED <<snapshot, link, links>>,
           connection' = NoLink, process' \in {process, process + 1}
    PROVE  ConnInv'
<1>1. \A s \in Snap : s.conn \in Nat /\ s.server \in Nat
  BY DEF Snap
<1>. QED  BY <1>1 DEF ConnInv, NewestIsConnected, ConnectionsAreOrdered, TabKeepsUp, ConnTypeOK

------------------------------------------------------------------------------
(* Every step is one of these *)

LEMMA SnapsKept == ASSUME NEW N \in SUBSET net PROVE NetSnaps(N)
BY DEF NetSnaps

LEMMA RequestsAreNotSnaps ==
    ASSUME NEW N \in SUBSET net, NEW req
    PROVE  NetSnaps(N \cup {Requests(link)}) /\ NetSnaps(N \cup {Copy(link, req)})
BY DEF NetSnaps, Requests, Copy

LEMMA TransmitSnaps == ASSUME NEW N \in SUBSET net, Transmit(N) PROVE NetSnaps(net')
BY RequestsAreNotSnaps DEF Transmit, Recovering

LEMMA TakeSnaps ==
    ASSUME NEW N \in SUBSET net, NEW snap \in Snap \cup {Nothing}, snap # Nothing => Around(snap), Take(snap, N)
    PROVE  SnapStep
<1>1. CASE snap # Nothing /\ Acceptable(snap)
  <2>1. TakeSnapshot(snap, N) /\ snapshot' = snap
    BY <1>1 DEF Take, TakeSnapshot
  <2>2. NetSnaps(net')
    BY <2>1, SnapsKept, TransmitSnaps DEF TakeSnapshot
  <2>. QED  BY <1>1, <2>1, <2>2 DEF SnapStep
<1>2. CASE ~(snap # Nothing /\ Acceptable(snap))
  BY <1>2, SnapsKept DEF Take, SnapStep
<1>. QED  BY <1>1, <1>2

LEMMA TabSnaps ==
    ASSUME TypeOK, OnState \/ OnAck \/ OnClosed \/ Retransmit \/ AskAgain \/ LinkBreaks
    PROVE  SnapStep /\ link' \in {link, NoLink} /\ UNCHANGED <<connection, process, running, links>>
<1>1. link' \in {link, NoLink} /\ UNCHANGED <<connection, process, running, links>>
  BY DEF OnState, OnAck, OnClosed, Retransmit, AskAgain, LinkBreaks, hubVars
<1>2. CASE OnState
  <2>1. PICK m \in {n \in net : n.to = "client" /\ n.kind = "state"} : Take(m.snap, net \ {m})
    BY <1>2 DEF OnState
  <2>2. m.snap \in Snap /\ (m.snap # Nothing => Around(m.snap))
    BY <2>1, MessageFields DEF TypeOK, Around
  <2>. QED  BY <1>1, <2>1, <2>2, TakeSnaps
<1>3. CASE OnAck
  <2>1. PICK m \in {n \in net : n.to = "client" /\ n.kind = "ack"} :
          \/ Take(m.snap, net \ {m})
          \/ Recovering(net \ {m}) /\ UNCHANGED snapshot
          \/ /\ net' = net \ {m}
             /\ (m.snap # Nothing /\ Acceptable(m.snap) /\ snapshot' = m.snap) \/ UNCHANGED snapshot
    BY <1>3 DEF OnAck
  <2>2. m.snap \in Snap \cup {Nothing} /\ (m.snap # Nothing => Around(m.snap))
    BY <2>1, MessageFields DEF TypeOK, Around
  <2>3. CASE Take(m.snap, net \ {m})
    BY <1>1, <2>2, <2>3, TakeSnaps
  <2>4. CASE Recovering(net \ {m}) /\ UNCHANGED snapshot
    BY <1>1, <2>4, RequestsAreNotSnaps DEF Recovering, SnapStep
  <2>5. CASE /\ net' = net \ {m}
             /\ (m.snap # Nothing /\ Acceptable(m.snap) /\ snapshot' = m.snap) \/ UNCHANGED snapshot
    BY <1>1, <2>2, <2>5, SnapsKept DEF SnapStep
  <2>. QED  BY <2>1, <2>3, <2>4, <2>5
<1>4. CASE OnClosed
  BY <1>1, <1>4, SnapsKept DEF OnClosed, SnapStep
<1>5. CASE Retransmit
  <2>1. snapshot' = snapshot /\ (net' = net \/ Transmit(net))
    BY <1>5 DEF Retransmit
  <2>. QED  BY <1>1, <2>1, SnapsKept, TransmitSnaps DEF SnapStep
<1>6. CASE AskAgain
  BY <1>1, <1>6, RequestsAreNotSnaps DEF AskAgain, SnapStep
<1>7. CASE LinkBreaks
  BY <1>1, <1>7, SnapsKept DEF LinkBreaks, SnapStep
<1>. QED  BY <1>2, <1>3, <1>4, <1>5, <1>6, <1>7

LEMMA PublishedIsFresh ==
    ASSUME NEW conn, NEW g, connection # NoLink, conn = connection
    PROVE  /\ \A m \in Published(conn, g) : m.kind = "state" /\ Fresh(m.snap)
           /\ Fresh(Snapshot(conn, sequence + 1, g))
BY DEF Published, Snapshot, Fresh

LEMMA PublishSnaps == ASSUME NEW N \in SUBSET net, NEW conn, NEW g, Publish(conn, g, N) PROVE NetSnaps(net')
BY PublishedIsFresh DEF Publish, Publishable, NetSnaps

LEMMA RespondSnaps ==
    ASSUME NEW conn, NEW id, NEW result, NEW g,
           \/ Respond(conn, id, result, g)
           \/ net' = net \cup {Ack(conn, id, result, Nothing)}
    PROVE  NetSnaps(net')
<1>1. PICK snap : (snap # Nothing => Fresh(snap)) /\ net' = net \cup {Ack(conn, id, result, snap)}
  BY PublishedIsFresh DEF Respond, Publishable
<1>2. Ack(conn, id, result, snap).snap = snap
  BY DEF Ack
<1>. QED  BY <1>1, <1>2 DEF NetSnaps

LEMMA ServerSnaps ==
    ASSUME TypeOK,
           RestoreMembership \/ SyncArrives \/ CommandArrives \/ Admit \/ Act \/ ServerDisconnects \/ GameEnds
               \/ TimePasses
    PROVE  SnapStep /\ link' = link /\ connection' \in {connection, NoLink} /\ UNCHANGED <<process, running, links>>
<1>1. /\ snapshot' = snapshot /\ link' = link /\ UNCHANGED <<process, running, links>>
      /\ connection' \in {connection, NoLink}
  BY DEF RestoreMembership, SyncArrives, CommandArrives, Admit, Act, ServerDisconnects, GameEnds, TimePasses,
         tabVars, hubVars
<1>2. CASE RestoreMembership
  <2>. DEFINE conn == Head(work).conn
  <2>1. \/ connection = conn /\ net' = net \cup Published(conn, game)
        \/ net' = net
        \/ net' = ToTab(net) \cup Closing(conn, FALSE)
    BY <1>2 DEF RestoreMembership
  <2>2. conn # NoLink
    <3>1. Head(work).kind = "membership" /\ work # << >> /\ work \in Seq(Work)
      BY <1>2 DEF RestoreMembership, TypeOK, HubTypeOK
    <3>. QED  BY <3>1, QueueTail DEF Work
  <2>. HIDE DEF conn
  <2>3. CASE connection = conn /\ net' = net \cup Published(conn, game)
    BY <1>1, <2>2, <2>3, PublishedIsFresh DEF NetSnaps, SnapStep
  <2>4. CASE net' = net
    BY <1>1, <2>4, SnapsKept DEF SnapStep
  <2>5. CASE net' = ToTab(net) \cup Closing(conn, FALSE)
    BY <1>1, <2>5 DEF NetSnaps, SnapStep, ToTab, Closing
  <2>. QED  BY <2>1, <2>3, <2>4, <2>5
<1>3. CASE SyncArrives
  BY <1>1, <1>3, PublishSnaps DEF SyncArrives, SnapStep
<1>4. CASE CommandArrives \/ ServerDisconnects \/ TimePasses
  BY <1>1, <1>4, SnapsKept DEF CommandArrives, ServerDisconnects, TimePasses, hubVars, SnapStep
<1>5. CASE GameEnds
  BY <1>1, <1>5, PublishSnaps DEF GameEnds, SnapStep
<1>6. CASE Admit
  <2>1. \/ net' = net
        \/ \E conn, id, result, g : \/ Respond(conn, id, result, g)
                                    \/ net' = net \cup {Ack(conn, id, result, Nothing)}
    BY <1>6 DEF Admit, Dispatch, Finish, Refuse
  <2>. QED  BY <1>1, <2>1, SnapsKept, RespondSnaps DEF SnapStep
<1>7. CASE Act
  <2>1. \E conn, id, result, g : Respond(conn, id, result, g)
    BY <1>7 DEF Act, Finish
  <2>. QED  BY <1>1, <2>1, RespondSnaps DEF SnapStep
<1>. QED  BY <1>2, <1>3, <1>4, <1>5, <1>6, <1>7

LEMMA ConnStep == ASSUME IInv, ConnInv, [TransportNext]_transportVars PROVE ConnInv' /\ (SnapStep \/ snapshot' = snapshot)
<1>1. TypeOK /\ ConnTypeOK
  BY ConnTypes DEF IInv
<1>2. CASE OnState \/ OnAck \/ OnClosed \/ Retransmit \/ AskAgain \/ LinkBreaks
  BY <1>1, <1>2, TabSnaps, ConnStays
<1>3. CASE RestoreMembership \/ SyncArrives \/ CommandArrives \/ Admit \/ Act \/ ServerDisconnects \/ GameEnds
               \/ TimePasses
  BY <1>1, <1>3, ServerSnaps, ConnStays
<1>4. ASSUME Reconnect \/ ElsewhereConnects PROVE ConnInv' /\ snapshot' = snapshot
  <2>1. /\ snapshot' = snapshot /\ UNCHANGED <<process, running>> /\ running
        /\ links' = links + 1 /\ connection' = links + 1 /\ link' \in {link, links + 1}
    BY <1>4 DEF Reconnect, ElsewhereConnects, Accepted, tabVars
  <2>2. \/ net' = ToTab(net) \cup {Requests(links + 1)}
        \/ \E conn : net' = ToTab(net) \cup Closing(conn, TRUE)
    BY <1>4 DEF Reconnect, ElsewhereConnects, Accepted
  <2>3. \A m \in net' : m.kind \in {"state", "ack"} => m \in net
    BY <2>2 DEF ToTab, Requests, Closing
  <2>4. \A s \in Snap : Around(s)' => Around(s)
    BY <2>1, <2>3 DEF Around
  <2>. QED  BY <1>1, <2>1, <2>4, ConnGrows
<1>5. ASSUME Stop \/ Start PROVE ConnInv' /\ snapshot' = snapshot
  <2>1. snapshot' = snapshot /\ link' = link /\ links' = links /\ process' \in {process, process + 1}
    BY <1>5 DEF Stop, Start, tabVars
  <2>2. connection' = NoLink /\ \A m \in net' : m \in net
    BY <1>5 DEF Stop, Start, ConnInv, NewestIsConnected
  <2>3. \A s \in Snap : Around(s)' => Around(s)
    BY <2>1, <2>2 DEF Around
  <2>. QED  BY <1>1, <2>1, <2>2, <2>3, ConnRestarts
<1>6. ASSUME NEW c \in Command, NEW kind \in {"join", "move"}, SendCommand(c, kind)
      PROVE  ConnInv' /\ SnapStep
  <2>1. /\ snapshot' = snapshot /\ link' = link /\ UNCHANGED <<connection, process, running, links>>
        /\ \E req : net' = net \cup {Copy(link, req)}
    BY <1>6 DEF SendCommand, hubVars
  <2>2. SnapStep
    BY <2>1, RequestsAreNotSnaps DEF SnapStep
  <2>. QED  BY <1>1, <2>1, <2>2, ConnStays
<1>7. ASSUME UNCHANGED transportVars PROVE ConnInv' /\ SnapStep
  <2>1. snapshot' = snapshot /\ link' = link /\ UNCHANGED <<connection, process, running, links, net>>
    BY <1>7 DEF transportVars, tabVars, hubVars
  <2>2. SnapStep
    BY <2>1, SnapsKept DEF SnapStep
  <2>. QED  BY <1>1, <2>1, <2>2, ConnStays
<1>8. CASE TransportNext
  <2>1. CASE Browser
    BY <1>2, <1>4, <2>1, <1>1, TabSnaps DEF Browser
  <2>2. CASE Server
    BY <1>3, <2>2, <1>1, ServerSnaps DEF Server
  <2>3. CASE ServerDisconnects \/ TimePasses \/ GameEnds
    BY <1>3, <2>3, <1>1, ServerSnaps
  <2>4. CASE LinkBreaks
    BY <1>2, <2>4, <1>1, TabSnaps
  <2>5. CASE Start \/ Stop \/ ElsewhereConnects
    BY <1>4, <1>5, <2>5
  <2>6. CASE \E c \in Command, kind \in {"join", "move"} : SendCommand(c, kind)
    BY <1>6, <2>6
  <2>. QED  BY <1>8, <2>1, <2>2, <2>3, <2>4, <2>5, <2>6 DEF TransportNext
<1>. QED  BY <1>7, <1>8

LEMMA ConnInit == TransportInit => ConnInv
<1>. SUFFICES ASSUME TransportInit PROVE ConnInv
  OBVIOUS
<1>1. \A s \in Snap : ~Around(s)
  BY DEF TransportInit, Around
<1>. QED  BY <1>1 DEF TransportInit, ConnInv, NewestIsConnected, ConnectionsAreOrdered, TabKeepsUp, NoLink

LEMMA ConnInvariance == TransportSpec => [](IInv /\ ConnInv)
<1>1. ConnInv /\ IInv /\ [TransportNext]_transportVars => ConnInv'
  BY ConnStep
<1>. QED  BY <1>1, ConnInit, Invariance, PTL DEF TransportSpec

\* A tab never shows an earlier state than it has shown, nor that of an earlier
\* process: accept takes only snapshots of the tab's own connection, and a
\* connection belongs to one process.
THEOREM SnapshotsGoForward == TransportSpec => SnapshotsNeverGoBack
<1>. DEFINE A == snapshot # Nothing /\ snapshot' # snapshot =>
                    \/ snapshot.server < snapshot'.server
                    \/ snapshot.server = snapshot'.server /\ snapshot.sequence < snapshot'.sequence
<1>1. ASSUME IInv, ConnInv, [TransportNext]_transportVars, snapshot # Nothing, snapshot' # snapshot
      PROVE  \/ snapshot.server < snapshot'.server
             \/ snapshot.server = snapshot'.server /\ snapshot.sequence < snapshot'.sequence
  <2>1. SnapStep
    BY <1>1, ConnStep
  <2>2. snapshot' \in Snap /\ Around(snapshot') /\ Acceptable(snapshot')
    BY <1>1, <2>1 DEF SnapStep
  <2>3. snapshot \in Snap /\ Around(snapshot)
    BY <1>1 DEF IInv, TypeOK, TabTypeOK, Around
  <2>4. snapshot.conn <= snapshot'.conn
    BY <1>1, <2>2 DEF ConnInv, TabKeepsUp, Acceptable
  <2>5. snapshot.server <= snapshot'.server
    BY <1>1, <2>2, <2>3, <2>4 DEF ConnInv, ConnectionsAreOrdered
  <2>6. snapshot.server \in Nat /\ snapshot'.server \in Nat
    BY <2>2, <2>3 DEF Snap
  <2>7. CASE snapshot.server = snapshot'.server
    BY <1>1, <2>2, <2>7 DEF Acceptable
  <2>. QED  BY <2>5, <2>6, <2>7
<1>2. IInv /\ ConnInv /\ [TransportNext]_transportVars => [A]_transportVars
  BY <1>1
<1>. QED  BY <1>2, ConnInvariance, PTL DEF TransportSpec, SnapshotsNeverGoBack

\* The types of all of it.
THEOREM TransportTypes == TransportSpec => []TypeOK
<1>1. IInv => TypeOK
  BY DEF IInv
<1>. QED  BY <1>1, Invariance, PTL
==============================================================================
