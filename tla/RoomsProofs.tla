------------------------------ MODULE RoomsProofs ------------------------------
(***************************************************************************)
(* What holds of a waiting room in every reachable state, for any host,    *)
(* guests, kinds of room and bounds.                                       *)
(*                                                                         *)
(* The copy is never more than one change behind the record, because a     *)
(* change is only written over the record the copy shows.  So what the     *)
(* screens do when the copy moves on can be told change by change.         *)
(***************************************************************************)
EXTENDS Rooms, SequenceTheorems, TLAPS

------------------------------------------------------------------------------
(* The inductive invariant *)

Status == {"waiting", "playing", "closed"}
KindOfRoom == {"open", "auto", "challenge"}
Someone == Human \cup {NoOne}
Hour == 0..InviteEnd

Record ==
    [status: Status, host: Someone, kind: KindOfRoom, players: SUBSET Human, watching: SUBSET Human,
     ready: SUBSET Human, bot: BOOLEAN, until: [Human -> Hour], terms: Nat, audience: BOOLEAN, invited: Someone]

KindOfJob ==
    {"join", "spectate", "leave", "ready", "settings", "kick", "invite", "decline", "bot",
     "expire", "lapse", "presence", "start"}

Form ==
    [kind: KindOfJob, user: Someone, whom: Someone, fresh: BOOLEAN, on: BOOLEAN, terms: Nat, until: Hour,
     seen: SUBSET Human, base: Record \cup {NoOne}]

Task == {t \in Form : t.kind \in {"join", "spectate"} => t.user \in Human}

Phase == {"idle", "in-room", "spectating", "in-game", "elsewhere"}

TypeOK ==
    /\ room \in Record /\ model \in Record /\ listed \in BOOLEAN
    /\ jobs \in Seq(Task) /\ point \in {"next", "write", "accept", "look"} /\ again \in BOOLEAN
    /\ phase \in [Human -> Phase] /\ there \in [Human -> BOOLEAN]
    /\ hour \in Hour /\ orders \in Nat /\ roomFaults \in Nat
    /\ agreed \in [Human -> Nat]

\* Nobody plays and watches, and a room that is not closed has a player.
IsSeated(r) == r.players \cap r.watching = {} /\ (r.status # "closed" => r.players # {})

MembersOnce == IsSeated(room) /\ IsSeated(model)

\* Whoever counts as ready agreed to the terms as they are.
Agreed(r, given) ==
    r.status = "waiting" => \A u \in r.players : r.kind = "auto" \/ u \in r.ready => given[u] = r.terms

ReadyIsAgreed == Agreed(room, agreed)

\* What one change may do: nobody changes sides, a game keeps its players, and what is
\* closed stays as it is.
Follows(m, r) ==
    /\ m.players \cap r.watching = {} /\ m.watching \cap r.players = {}
    /\ m.status = "playing" => r.status = "playing" /\ r.players = m.players
    /\ m.status = "closed" => r.status = "closed"

CopyIsNear == Follows(model, room) /\ (listed <=> model.status # "closed")

\* What the work knows of the copy when it is about to write.
MayGo(t, m) ==
    /\ m.status # "closed"
    /\ t.kind \in {"leave", "kick", "expire"} => ~(m.status = "playing" /\ t.whom \in m.players)
    /\ t.kind = "lapse" => m.status = "waiting"
    /\ t.kind = "start" => CanStart(m)

WorkIsSound == point = "write" => jobs # << >> /\ MayGo(Head(jobs), model)

\* The screens show the copy.
PhasesFollow ==
    \A u \in Human :
        /\ (phase[u] = "in-room") <=> (model.status = "waiting" /\ u \in model.players)
        /\ (phase[u] = "spectating") <=> (model.status # "closed" /\ u \in model.watching)
        /\ phase[u] = "in-game" => model.status = "playing" /\ u \in model.players
        /\ phase[u] = "elsewhere" => model.status = "closed"

IInv == TypeOK /\ MembersOnce /\ ReadyIsAgreed /\ CopyIsNear /\ WorkIsSound /\ PhasesFollow

------------------------------------------------------------------------------
(* One change of the record *)

\* What a change may not break, whatever asked for it.
Sound(t, m, r) == r \in Record /\ IsSeated(r) /\ Follows(m, r) /\ (m.status = "waiting" /\ r.status = "playing" => t.kind = "start")

\* The history that goes with a record.
Given(t, r) ==
    CASE t.kind = "ready" /\ t.on -> [agreed EXCEPT ![t.user] = t.terms]
      [] t.kind = "join" -> [agreed EXCEPT ![t.user] = IF r.kind = "auto" THEN r.terms ELSE 0]
      [] OTHER -> agreed

LEMMA FollowsItself ==
    ASSUME NEW r, IsSeated(r)
    PROVE  Follows(r, r)
BY DEF IsSeated, Follows

LEMMA RecordFields ==
    ASSUME NEW r \in Record
    PROVE  /\ r.status \in Status /\ r.host \in Someone /\ r.kind \in KindOfRoom /\ r.invited \in Someone
           /\ r.players \in SUBSET Human /\ r.watching \in SUBSET Human /\ r.ready \in SUBSET Human
           /\ r.bot \in BOOLEAN /\ r.audience \in BOOLEAN /\ r.terms \in Nat /\ r.until \in [Human -> Hour]
BY DEF Record

LEMMA DeadlineIsHour == hour \in Hour => Deadline \in Hour /\ Present \in Hour
BY DEF Hour, InviteEnd, Deadline, Present

LEMMA WithoutIsSound ==
    ASSUME NEW t, NEW r \in Record, IsSeated(r), NEW u, r.status # "closed",
           ~(r.status = "playing" /\ u \in r.players), Agreed(r, agreed), hour \in Hour
    PROVE  Sound(t, r, Without(r, u)) /\ Agreed(Without(r, u), agreed)
<1> DEFINE left == [r EXCEPT !.players = @ \ {u}, !.watching = @ \ {u}, !.until[u] = Present]
           shut == [left EXCEPT !.status = "closed", !.host = NoOne]
           heir == IF left.host \in left.players THEN left.host ELSE CHOOSE v \in left.players : TRUE
           open == [left EXCEPT !.ready = IF u \in r.players THEN {} ELSE @ \ {u}, !.host = heir]
<1>1. left \in Record /\ left.players = r.players \ {u} /\ left.watching = r.watching \ {u}
  <2>1. [r.until EXCEPT ![u] = Present] \in [Human -> Hour]
    BY RecordFields, DeadlineIsHour
  <2>2. left = [r EXCEPT !.players = r.players \ {u}, !.watching = r.watching \ {u}, !.until = [r.until EXCEPT ![u] = Present]]
    BY DEF Record
  <2> QED BY <2>1, <2>2 DEF Record
<1>2. left.status = r.status /\ left.ready = r.ready /\ left.terms = r.terms /\ left.kind = r.kind
  BY DEF Record
<1>3. CASE (u \in r.players /\ r.kind = "challenge") \/ left.players = {}
  <2>1. Without(r, u) = shut
    BY <1>3 DEF Without
  <2>2. shut \in Record /\ shut.status = "closed" /\ shut.players = left.players /\ shut.watching = left.watching
    BY <1>1 DEF Record, Status, Someone
  <2>3. r.status # "playing"
    BY <1>1, <1>3 DEF IsSeated
  <2> QED BY <1>1, <2>1, <2>2, <2>3 DEF Sound, IsSeated, Follows, Agreed
<1>4. CASE ~((u \in r.players /\ r.kind = "challenge") \/ left.players = {})
  <2>1. Without(r, u) = open
    BY <1>4, <1>1, <1>2 DEF Without, Record
  <2>2. heir \in left.players /\ heir \in Someone
    BY <1>1, <1>4, RecordFields DEF Someone
  <2>3. open \in Record /\ open.status = r.status /\ open.players = left.players /\ open.watching = left.watching
        /\ open.ready = (IF u \in r.players THEN {} ELSE r.ready \ {u}) /\ open.terms = r.terms /\ open.kind = r.kind
    <3> HIDE DEF heir
    <3> QED BY <1>1, <1>2, <2>2, RecordFields DEF Record
  <2>4. Agreed(open, agreed)
    BY <1>1, <2>3 DEF Agreed
  <2> QED BY <1>1, <1>4, <2>1, <2>3, <2>4 DEF Sound, IsSeated, Follows
<1> QED BY <1>3, <1>4

LEMMA JoinedIsSound ==
    ASSUME NEW t \in Task, NEW r \in Record, IsSeated(r), Agreed(r, agreed), agreed \in [Human -> Nat],
           t.kind = "join", MayJoin(t, r)
    PROVE  Sound(t, r, Joined(t, r)) /\ Agreed(Joined(t, r), Given(t, Joined(t, r)))
<1> DEFINE q == Joined(t, r)
<1>1. t.user \in Human /\ t.user \notin r.players /\ t.user \notin r.watching /\ r.status = "waiting"
  BY DEF Task, MayJoin, Members
<1>2. q \in Record /\ q.players = r.players \cup {t.user} /\ q.ready = {} /\ q.status = r.status
      /\ q.watching = r.watching /\ q.terms = r.terms /\ q.kind = r.kind
  BY <1>1, RecordFields DEF Joined, Record, Someone
<1>3. Given(t, q) = [agreed EXCEPT ![t.user] = IF q.kind = "auto" THEN q.terms ELSE 0]
  BY DEF Given
<1>4. Agreed(q, Given(t, q))
  <2> SUFFICES ASSUME NEW u \in q.players, q.kind = "auto" \/ u \in q.ready
               PROVE  Given(t, q)[u] = q.terms
    BY DEF Agreed
  <2>1. q.kind = "auto" /\ u \in Human
    BY <1>2, RecordFields
  <2>2. CASE u = t.user
    BY <1>3, <2>1, <2>2
  <2>3. CASE u # t.user
    BY <1>1, <1>2, <1>3, <2>1, <2>3 DEF Agreed
  <2> QED BY <2>2, <2>3
<1>5. IsSeated(q) /\ Follows(r, q)
  BY <1>1, <1>2 DEF IsSeated, Follows
<1> HIDE DEF q
<1>6. Sound(t, r, q)
  BY <1>1, <1>2, <1>5 DEF Sound
<1> QED BY <1>4, <1>6 DEF q

LEMMA GivenIsTyped ==
    ASSUME NEW t \in Task, NEW r \in Record, agreed \in [Human -> Nat]
    PROVE  Given(t, r) \in [Human -> Nat]
BY RecordFields DEF Given, Task, Form

\* Whatever a command writes over a record that the work may go on with.
LEMMA ReducedIsSound ==
    ASSUME NEW t \in Task, NEW r \in Record, NEW q \in Reduced(t, r),
           IsSeated(r), MayGo(t, r), Agreed(r, agreed), agreed \in [Human -> Nat], hour \in Hour
    PROVE  Sound(t, r, q) /\ Agreed(q, Given(t, q))
<1> USE RecordFields
<1>1. r.status # "closed" /\ t \in Form
  BY DEF MayGo, Task
<1>2. CASE t.kind = "join"
  BY <1>2, JoinedIsSound DEF Reduced
<1>3. CASE t.kind = "spectate"
  <2>1. q = [r EXCEPT !.watching = @ \cup {t.user}] /\ t.user \notin Members(r) /\ t.user \in Human
    BY <1>3 DEF Reduced, Task
  <2>2. q \in Record /\ q.players = r.players /\ q.watching = r.watching \cup {t.user} /\ q.status = r.status
        /\ q.ready = r.ready /\ q.terms = r.terms /\ q.kind = r.kind
    BY <2>1 DEF Record
  <2>3. Given(t, q) = agreed
    BY <1>3 DEF Given
  <2> QED BY <1>1, <2>1, <2>2, <2>3 DEF Sound, IsSeated, Follows, Agreed, Members
<1>4. CASE t.kind = "ready"
  <2>1. q = [r EXCEPT !.ready = IF t.on THEN @ \cup {t.user} ELSE @ \ {t.user}] /\ MayReady(t, r)
    BY <1>4 DEF Reduced
  <2>2. t.user \in Human /\ t.on \in BOOLEAN
    BY <1>1, <2>1 DEF MayReady, Form
  <2>3. q \in Record /\ q.players = r.players /\ q.watching = r.watching /\ q.status = r.status
        /\ q.ready = (IF t.on THEN r.ready \cup {t.user} ELSE r.ready \ {t.user}) /\ q.terms = r.terms /\ q.kind = r.kind
    BY <2>1, <2>2 DEF Record
  <2>4. CASE t.on
    <3>1. Given(t, q) = [agreed EXCEPT ![t.user] = r.terms]
      BY <1>4, <2>1, <2>4 DEF Given, MayReady
    <3>2. Agreed(q, Given(t, q))
      BY <2>2, <2>3, <2>4, <3>1 DEF Agreed
    <3> QED BY <2>1, <2>3, <3>2 DEF Sound, IsSeated, Follows, MayReady
  <2>5. CASE ~t.on
    <3>1. Given(t, q) = agreed
      BY <1>4, <2>5 DEF Given
    <3>2. Agreed(q, Given(t, q))
      BY <2>3, <2>5, <3>1 DEF Agreed
    <3> QED BY <2>1, <2>3, <3>2 DEF Sound, IsSeated, Follows, MayReady
  <2> QED BY <2>4, <2>5
<1>5. CASE t.kind = "settings"
  <2>1. PICK b \in BOOLEAN : MayEdit(r) /\ q = [r EXCEPT !.terms = @ + 1, !.kind = "open", !.audience = b]
    BY <1>5 DEF Reduced
  <2>2. q \in Record /\ q.players = r.players /\ q.watching = r.watching /\ q.status = r.status
        /\ q.ready = r.ready /\ q.kind = "open"
    <3>1. r.terms + 1 \in Nat /\ "open" \in KindOfRoom
      BY DEF KindOfRoom
    <3>2. q = [r EXCEPT !.terms = r.terms + 1, !.kind = "open", !.audience = b]
      BY <2>1 DEF Record
    <3> DEFINE n == r.terms + 1
    <3> HIDE DEF n
    <3> QED BY <3>1, <3>2 DEF Record, n
  <2>3. r.ready = {} /\ r.status = "waiting"
    BY <2>1 DEF MayEdit
  <2>4. Agreed(q, Given(t, q))
    BY <2>2, <2>3 DEF Agreed
  <2> QED BY <2>2, <2>3, <2>4 DEF Sound, IsSeated, Follows
<1>6. CASE t.kind \in {"bot", "invite"}
  <2>1. \E b \in BOOLEAN, v \in Someone : q = [r EXCEPT !.bot = b, !.invited = v]
    <3>1. CASE t.kind = "bot"
      BY <1>6, <3>1 DEF Reduced, Someone, Record
    <3>2. CASE t.kind = "invite"
      <4>1. q = [r EXCEPT !.invited = t.whom]
        BY <3>2 DEF Reduced
      <4>2. q = [r EXCEPT !.bot = r.bot, !.invited = t.whom] /\ t.whom \in Someone
        BY <1>1, <4>1 DEF Record, Form
      <4> QED BY <4>2
    <3> QED BY <1>6, <3>1, <3>2
  <2>2. q \in Record /\ q.players = r.players /\ q.watching = r.watching /\ q.status = r.status
        /\ q.ready = r.ready /\ q.kind = r.kind /\ q.terms = r.terms
    BY <2>1 DEF Record
  <2>3. Given(t, q) = agreed
    BY <1>6 DEF Given
  <2> QED BY <1>1, <2>2, <2>3 DEF Sound, IsSeated, Follows, Agreed
<1>7. CASE t.kind = "decline" \/ t.kind = "lapse"
  <2>1. \/ q = [r EXCEPT !.status = "closed"] /\ r.status = "waiting"
        \/ \E v \in Someone : q = [r EXCEPT !.invited = v]
    <3>1. CASE t.kind = "decline"
      BY <3>1 DEF Reduced, Someone
    <3>2. CASE t.kind = "lapse"
      BY <3>2 DEF Reduced, Someone, MayGo
    <3> QED BY <1>7, <3>1, <3>2
  <2>2. Given(t, q) = agreed
    BY <1>7 DEF Given
  <2>3. CASE q = [r EXCEPT !.status = "closed"] /\ r.status = "waiting"
    <3>1. q \in Record /\ q.status = "closed" /\ q.players = r.players /\ q.watching = r.watching
      BY <2>3 DEF Record, Status
    <3> QED BY <2>3, <3>1 DEF Sound, IsSeated, Follows, Agreed
  <2>4. CASE \E v \in Someone : q = [r EXCEPT !.invited = v]
    <3>1. q \in Record /\ q.players = r.players /\ q.watching = r.watching /\ q.status = r.status
          /\ q.ready = r.ready /\ q.kind = r.kind /\ q.terms = r.terms
      BY <2>4 DEF Record
    <3> QED BY <1>1, <2>2, <3>1 DEF Sound, IsSeated, Follows, Agreed
  <2> QED BY <2>1, <2>3, <2>4
<1>8. CASE t.kind \in {"leave", "kick", "expire"}
  <2>1. q = Without(r, t.whom) /\ Given(t, q) = agreed
    BY <1>8 DEF Reduced, Given
  <2>2. ~(r.status = "playing" /\ t.whom \in r.players)
    BY <1>8 DEF MayGo
  <2> QED BY <1>1, <2>1, <2>2, WithoutIsSound
<1>9. CASE t.kind = "start"
  <2>1. q = [r EXCEPT !.status = "playing"] /\ r.status = "waiting"
    BY <1>9 DEF Reduced, MayGo, CanStart
  <2>2. q \in Record /\ q.status = "playing" /\ q.players = r.players /\ q.watching = r.watching
    BY <2>1 DEF Record, Status
  <2> QED BY <1>9, <2>1, <2>2 DEF Sound, IsSeated, Follows, Agreed
<1>10. CASE t.kind = "presence"
  BY <1>10 DEF Reduced
<1> QED BY <1>1, <1>2, <1>3, <1>4, <1>5, <1>6, <1>7, <1>8, <1>9, <1>10 DEF Form, KindOfJob

LEMMA UpdatedIsSound ==
    ASSUME NEW t \in Task, NEW r \in Record, IsSeated(r), r.status # "closed", Agreed(r, agreed), hour \in Hour
    PROVE  Sound(t, r, Updated(t, r)) /\ Agreed(Updated(t, r), agreed)
<1> DEFINE now == [u \in Human |-> IF u \in Members(r) /\ Away(t, u) THEN IF there[u] THEN Present ELSE Deadline ELSE r.until[u]]
           still == {u \in r.ready : ~Away(t, u) \/ there[u]}
           q == Updated(t, r)
<1>1. now \in [Human -> Hour]
  BY RecordFields, DeadlineIsHour
<1>2. still \subseteq r.ready
  OBVIOUS
<1>3. q = [r EXCEPT !.until = now, !.ready = still]
  BY DEF Updated
<1> HIDE DEF now, still, q
<1>4. q \in Record /\ q.players = r.players /\ q.watching = r.watching /\ q.status = r.status
      /\ q.ready = still /\ q.kind = r.kind /\ q.terms = r.terms
  BY <1>1, <1>2, <1>3, RecordFields DEF Record
<1>5. Sound(t, r, q) /\ Agreed(q, agreed)
  BY <1>2, <1>4 DEF Sound, IsSeated, Follows, Agreed
<1> QED BY <1>5 DEF q

LEMMA ResultsAreSound ==
    ASSUME TypeOK, MembersOnce, ReadyIsAgreed, NEW t \in Task, MayGo(t, model), NEW q \in Results(t)
    PROVE  model = room /\ Sound(t, room, q) /\ Agreed(q, Given(t, q)) /\ Given(t, q) \in [Human -> Nat]
<1>1. model = room /\ q \in Outcomes(t, room) /\ room \in Record /\ agreed \in [Human -> Nat] /\ hour \in Hour
  BY DEF Results, TypeOK
<1>2. IsSeated(room) /\ Agreed(room, agreed) /\ MayGo(t, room)
  BY <1>1 DEF MembersOnce, ReadyIsAgreed
<1>3. CASE t.kind = "presence"
  BY <1>1, <1>2, <1>3, UpdatedIsSound, GivenIsTyped DEF Outcomes, Given, Sound, MayGo
<1>4. CASE t.kind # "presence"
  BY <1>1, <1>2, <1>4, ReducedIsSound, GivenIsTyped DEF Outcomes, Sound
<1> QED BY <1>3, <1>4

------------------------------------------------------------------------------
(* The queue *)

LEMMA JobIsTask ==
    ASSUME NEW kind \in KindOfJob, NEW user \in Someone, NEW whom \in Someone,
           kind \in {"join", "spectate"} => user \in Human
    PROVE  Job(kind, user, whom) \in Task
<1>1. (user # NoOne) \in BOOLEAN /\ 0 \in Nat /\ 0 \in Hour
  BY DEF Hour, InviteEnd
<1> QED BY <1>1 DEF Job, Task, Form

LEMMA PresenceIsTask ==
    ASSUME NEW b \in BOOLEAN
    PROVE  Presence(b) \in Task
<1>1. Job("presence", NoOne, NoOne) \in Task
  BY JobIsTask DEF KindOfJob, Someone
<1> QED BY <1>1 DEF Presence, Task, Form, Job

LEMMA FollowedIsWork ==
    ASSUME NEW t \in Task, NEW ok \in BOOLEAN
    PROVE  Followed(t, ok) \in Seq(Task)
<1>1. CASE ok /\ t.kind \in {"join", "spectate"}
  <2> DEFINE b == t.kind = "join" /\ model'.kind = "auto"
  <2>1. Followed(t, ok) = <<Presence(b)>>
    BY <1>1 DEF Followed
  <2>2. b \in BOOLEAN
    OBVIOUS
  <2> HIDE DEF b
  <2> QED BY <2>1, <2>2, PresenceIsTask
<1>2. CASE ~(ok /\ t.kind \in {"join", "spectate"})
  <2>1. Followed(t, ok) = <<Job("start", NoOne, NoOne)>> \/ Followed(t, ok) = << >>
    BY <1>2 DEF Followed
  <2>2. Job("start", NoOne, NoOne) \in Task
    BY JobIsTask DEF KindOfJob, Someone
  <2>3. <<Job("start", NoOne, NoOne)>> \in Seq(Task) /\ << >> \in Seq(Task)
    <3> DEFINE j == Job("start", NoOne, NoOne)
    <3> HIDE DEF j
    <3>1. j \in Task
      BY <2>2 DEF j
    <3> HIDE DEF Task
    <3>2. <<j>> \in Seq(Task) /\ << >> \in Seq(Task)
      BY <3>1
    <3> QED BY <3>2 DEF j
  <2> QED BY <2>1, <2>3
<1> QED BY <1>1, <1>2

LEMMA FinishMeans ==
    ASSUME NEW t \in Task, NEW ok \in BOOLEAN, jobs \in Seq(Task), jobs # << >>,
           again \in BOOLEAN, listed' \in BOOLEAN, Finish(t, ok)
    PROVE  jobs' \in Seq(Task) /\ point' = "next" /\ again' \in BOOLEAN
<1>1. Tail(jobs) \in Seq(Task) /\ Followed(t, ok) \in Seq(Task)
  BY FollowedIsWork
<1>2. jobs' = Tail(jobs) \o Followed(t, ok) /\ point' = "next"
  BY DEF Finish
<1>3. again' \in BOOLEAN
  BY DEF Finish
<1> QED BY <1>1, <1>2, <1>3

LEMMA HeadIsTask ==
    ASSUME NEW q \in Seq(Task), q # << >>
    PROVE  Head(q) \in Task /\ Tail(q) \in Seq(Task) /\ Len(q) \in Nat \ {0} /\ Head(q) = q[1]
OBVIOUS

\* What a task may do depends on its kind and on whom it is about.
LEMMA MayGoAlike ==
    ASSUME NEW t, NEW s, NEW m, s.kind = t.kind, s.whom = t.whom, MayGo(t, m)
    PROVE  MayGo(s, m)
BY DEF MayGo

\* Steps that leave the room, its copy and the screens alone, and the head of the queue.
LEMMA QueueMoves ==
    ASSUME IInv, UNCHANGED <<room, model, listed, point, phase, agreed>>,
           jobs' \in Seq(Task),
           jobs # << >> => jobs' # << >> /\ Head(jobs').kind = Head(jobs).kind /\ Head(jobs').whom = Head(jobs).whom,
           again' \in BOOLEAN, there' \in [Human -> BOOLEAN], hour' \in Hour, orders' \in Nat, roomFaults' \in Nat
    PROVE  IInv'
<1>1. TypeOK'
  BY DEF IInv, TypeOK
<1>2. MembersOnce' /\ ReadyIsAgreed' /\ CopyIsNear' /\ PhasesFollow'
  BY DEF IInv, MembersOnce, ReadyIsAgreed, CopyIsNear, PhasesFollow
<1>3. WorkIsSound'
  <2> SUFFICES ASSUME point = "write"
               PROVE  jobs' # << >> /\ MayGo(Head(jobs'), model)
    BY DEF WorkIsSound
  <2>1. jobs # << >> /\ MayGo(Head(jobs), model)
    BY DEF IInv, WorkIsSound
  <2> QED BY <2>1, MayGoAlike
<1> QED BY <1>1, <1>2, <1>3 DEF IInv

LEMMA Appending ==
    ASSUME NEW q \in Seq(Task), NEW t \in Task
    PROVE  /\ Append(q, t) \in Seq(Task) /\ Append(q, t) # << >>
           /\ q # << >> => Head(Append(q, t)) = Head(q)
<1>1. Append(q, t) \in Seq(Task) /\ Append(q, t) # << >>
  BY AppendProperties
<1>2. ASSUME q # << >>
      PROVE  Head(Append(q, t)) = Head(q)
  BY <1>2, HeadTailAppend
<1> QED BY <1>1, <1>2

LEMMA OrderKeeps ==
    ASSUME IInv, NEW u, NEW t \in Task, Order(u, t)
    PROVE  IInv'
<1>1. jobs' = Append(jobs, t) /\ jobs \in Seq(Task) /\ orders' = orders + 1 /\ orders \in Nat
  BY DEF Order, Enqueue, IInv, TypeOK
<1>2. UNCHANGED <<room, model, listed, point, again, phase, there, hour, roomFaults, agreed>>
  BY DEF Order
<1> QED BY <1>1, <1>2, Appending, QueueMoves DEF IInv, TypeOK

LEMMA CommandsKeep ==
    ASSUME IInv, NEW u \in Human,
           \/ RoomJoin(u) \/ RoomSpectate(u) \/ RoomLeave(u) \/ RoomReady(u) \/ RoomReadyLate(u)
           \/ RoomSettings(u) \/ RoomDecline(u) \/ BotJoin(u)
           \/ \E v \in Human : RoomKick(u, v) \/ RoomInvite(u, v)
    PROVE  IInv'
<1>1. u \in Someone /\ Human \subseteq Someone /\ NoOne \in Someone /\ model \in Record
  BY DEF Someone, IInv, TypeOK
<1>2. CASE RoomJoin(u) \/ RoomSpectate(u) \/ RoomLeave(u)
  <2>1. Job("join", u, u) \in Task /\ Job("spectate", u, u) \in Task /\ Job("leave", u, u) \in Task
    BY <1>1, JobIsTask DEF KindOfJob
  <2> QED BY <1>2, <2>1, OrderKeeps DEF RoomJoin, RoomSpectate, RoomLeave
<1>3. CASE RoomReady(u) \/ RoomReadyLate(u)
  <2> DEFINE j == Job("ready", u, NoOne)
  <2>1. j \in Task /\ j.kind = "ready"
    BY <1>1, JobIsTask DEF KindOfJob, Job
  <2> HIDE DEF j
  <2>2. \A b \in BOOLEAN, n \in Nat : [j EXCEPT !.on = b, !.terms = n] \in Task
    BY <2>1 DEF Task, Form
  <2>3. CASE RoomReady(u)
    <3>1. PICK b \in BOOLEAN : Order(u, [j EXCEPT !.on = b, !.terms = model.terms])
      BY <2>3 DEF RoomReady, j
    <3> QED BY <1>1, <2>2, <3>1, RecordFields, OrderKeeps
  <2>4. CASE RoomReadyLate(u)
    <3>1. Order(u, [j EXCEPT !.terms = model.terms - 1]) /\ model.terms > 1
      BY <2>4 DEF RoomReadyLate, j
    <3>2. model.terms - 1 \in Nat
      BY <1>1, <3>1, RecordFields
    <3>3. \A n \in Nat : [j EXCEPT !.terms = n] \in Task
      BY <2>1 DEF Task, Form
    <3> QED BY <3>1, <3>2, <3>3, OrderKeeps
  <2> QED BY <1>3, <2>3, <2>4
<1>4. CASE RoomSettings(u)
  <2> DEFINE j == Job("settings", u, NoOne)
  <2>1. j \in Task /\ j.kind = "settings"
    BY <1>1, JobIsTask DEF KindOfJob, Job
  <2>2. Order(u, [j EXCEPT !.base = model])
    BY <1>4 DEF RoomSettings
  <2> HIDE DEF j
  <2>3. [j EXCEPT !.base = model] \in Task
    <3> DEFINE B == Record \cup {NoOne}
    <3>1. model \in B
      BY <1>1
    <3> HIDE DEF B
    <3> QED BY <2>1, <3>1 DEF Task, Form, B
  <2> QED BY <2>2, <2>3, OrderKeeps
<1>5. CASE RoomDecline(u) \/ BotJoin(u)
  <2>1. Job("decline", u, NoOne) \in Task /\ Job("bot", u, NoOne) \in Task
    BY <1>1, JobIsTask DEF KindOfJob
  <2> QED BY <1>5, <2>1, OrderKeeps DEF RoomDecline, BotJoin
<1>6. CASE \E v \in Human : RoomKick(u, v) \/ RoomInvite(u, v)
  <2>1. PICK v \in Human : RoomKick(u, v) \/ RoomInvite(u, v)
    BY <1>6
  <2>2. Job("kick", u, v) \in Task /\ Job("invite", u, v) \in Task
    BY <1>1, JobIsTask DEF KindOfJob
  <2> QED BY <2>1, <2>2, OrderKeeps DEF RoomKick, RoomInvite
<1> QED BY <1>2, <1>3, <1>4, <1>5, <1>6

LEMMA TimersKeep ==
    ASSUME IInv, ExpiryFires \/ PresenceRetries
    PROVE  IInv'
<1>1. jobs \in Seq(Task) /\ model.until \in [Human -> Hour]
  BY RecordFields DEF IInv, TypeOK
<1>2. UNCHANGED <<room, model, listed, point, phase, agreed, hour, roomFaults, there, orders>> /\ again' \in BOOLEAN
  BY DEF ExpiryFires, PresenceRetries, System, Still, IInv, TypeOK
<1>3. \E t \in Task : jobs' = Append(jobs, t)
  <2>1. CASE PresenceRetries
    BY <2>1, PresenceIsTask DEF PresenceRetries, System, Enqueue
  <2>2. ASSUME NEW u \in Human, System([Job("expire", NoOne, u) EXCEPT !.until = model.until[u]])
        PROVE  \E t \in Task : jobs' = Append(jobs, t)
    <3> DEFINE j == Job("expire", NoOne, u)
    <3>1. j \in Task /\ j.kind = "expire"
      BY JobIsTask DEF KindOfJob, Someone, Job
    <3>2. jobs' = Append(jobs, [j EXCEPT !.until = model.until[u]])
      BY <2>2 DEF System, Enqueue
    <3> HIDE DEF j
    <3>3. [j EXCEPT !.until = model.until[u]] \in Task
      BY <1>1, <3>1 DEF Task, Form
    <3> QED BY <3>2, <3>3
  <2>3. CASE System(Job("lapse", NoOne, NoOne))
    BY <2>3, JobIsTask DEF System, Enqueue, KindOfJob, Someone
  <2>4. Expirable(model) \subseteq Human
    BY RecordFields DEF IInv, TypeOK, Expirable, Seen, Members
  <2> QED BY <2>1, <2>2, <2>3, <2>4 DEF ExpiryFires
<1> QED BY <1>1, <1>2, <1>3, Appending, QueueMoves DEF IInv, TypeOK

LEMMA ComingAndGoingKeep ==
    ASSUME IInv, NEW u \in Human, Disconnect(u) \/ Connect(u)
    PROVE  IInv'
<1>1. jobs \in Seq(Task) /\ there \in [Human -> BOOLEAN] /\ orders \in Nat /\ again \in BOOLEAN /\ hour \in Hour /\ roomFaults \in Nat
  BY DEF IInv, TypeOK
<1>2. CASE Connect(u)
  <2>1. jobs' = Append(jobs, Presence(TRUE)) \/ jobs' = jobs
    BY <1>2 DEF Connect
  <2>2. there' = [there EXCEPT ![u] = TRUE]
        /\ UNCHANGED <<room, model, listed, point, again, phase, hour, orders, roomFaults, agreed>>
    BY <1>2 DEF Connect
  <2> QED BY <1>1, <2>1, <2>2, PresenceIsTask, Appending, QueueMoves
<1>3. CASE Disconnect(u)
  <2> DEFINE void == [i \in DOMAIN jobs |-> [jobs[i] EXCEPT !.fresh = @ /\ jobs[i].user # u]]
  <2>1. jobs' = Append(void, Presence(FALSE)) \/ jobs' = void
    BY <1>3 DEF Disconnect
  <2>2. there' = [there EXCEPT ![u] = FALSE] /\ orders' = orders + 1
        /\ UNCHANGED <<room, model, listed, point, again, phase, hour, roomFaults, agreed>>
    BY <1>3 DEF Disconnect, Still
  <2>3. void \in Seq(Task) /\ (jobs # << >> => void # << >> /\ Head(void).kind = Head(jobs).kind /\ Head(void).whom = Head(jobs).whom)
    <3>1. \A i \in 1..Len(jobs) : jobs[i] \in Task
      BY <1>1
    <3>2. \A i \in 1..Len(jobs) : /\ void[i] \in Task
                                  /\ void[i].kind = jobs[i].kind
                                  /\ void[i].whom = jobs[i].whom
      <4> SUFFICES ASSUME NEW i \in 1..Len(jobs)
                   PROVE  void[i] \in Task /\ void[i].kind = jobs[i].kind /\ void[i].whom = jobs[i].whom
        OBVIOUS
      <4> DEFINE b == jobs[i].fresh /\ jobs[i].user # u
      <4>1. jobs[i] \in Task /\ b \in BOOLEAN
        BY <3>1 DEF Task, Form
      <4>2. void[i] = [jobs[i] EXCEPT !.fresh = b]
        BY <1>1, <4>1 DEF Task, Form
      <4> HIDE DEF b, void
      <4> QED BY <4>1, <4>2 DEF Task, Form
    <3>3. void \in [1..Len(jobs) -> Task] /\ Len(jobs) \in Nat
      <4>1. DOMAIN void = 1..Len(jobs) /\ void = [i \in 1..Len(jobs) |-> void[i]]
        BY <1>1
      <4> HIDE DEF void
      <4> QED BY <1>1, <3>2, <4>1
    <3> HIDE DEF void
    <3>4. void \in Seq(Task) /\ Len(void) = Len(jobs)
      BY <3>3, LenProperties, IsASeq
    <3> QED BY <1>1, <3>2, <3>4
  <2> HIDE DEF void
  <2>4. /\ jobs' \in Seq(Task)
        /\ jobs # << >> => jobs' # << >> /\ Head(jobs').kind = Head(jobs).kind /\ Head(jobs').whom = Head(jobs).whom
    BY <2>1, <2>3, PresenceIsTask, Appending
  <2>5. there' \in [Human -> BOOLEAN] /\ orders' \in Nat /\ again' \in BOOLEAN /\ hour' \in Hour /\ roomFaults' \in Nat
    BY <1>1, <2>2
  <2> QED BY <2>2, <2>4, <2>5, QueueMoves
<1> QED BY <1>2, <1>3

LEMMA HourPassesKeeps ==
    ASSUME IInv, HourPasses
    PROVE  IInv'
<1>1. hour' \in Hour
  BY DEF HourPasses, IInv, TypeOK, Hour, InviteEnd
<1> QED BY <1>1, QueueMoves DEF HourPasses, IInv, TypeOK

LEMMA StutterKeeps ==
    ASSUME IInv, UNCHANGED roomVars
    PROVE  IInv'
BY QueueMoves DEF roomVars, IInv, TypeOK

------------------------------------------------------------------------------
(* Work, await by await *)

LEMMA AcceptShows ==
    ASSUME TypeOK, MembersOnce, CopyIsNear, PhasesFollow, Accept, room' = room
    PROVE  /\ model' = room /\ listed' \in BOOLEAN /\ (listed' <=> room.status # "closed")
           /\ phase' \in [Human -> Phase] /\ MembersOnce' /\ CopyIsNear' /\ PhasesFollow'
<1>1. model' = room /\ listed' = (room.status # "closed")
      /\ phase' = [u \in Human |-> IF room.status = "playing" /\ u \in room.players THEN "in-game"
                                   ELSE ShownInRoom(model, room)[u]]
  BY DEF Accept
<1>2. IsSeated(room) /\ IsSeated(model) /\ Follows(model, room) /\ phase \in [Human -> Phase]
      /\ room.status \in Status /\ model.status \in Status
  BY RecordFields DEF MembersOnce, CopyIsNear, TypeOK
<1>3. MembersOnce' /\ CopyIsNear'
  BY <1>1, <1>2, FollowsItself DEF MembersOnce, CopyIsNear
<1>4. ASSUME NEW u \in Human
      PROVE  /\ phase'[u] \in Phase
             /\ (phase'[u] = "in-room") <=> (room.status = "waiting" /\ u \in room.players)
             /\ (phase'[u] = "spectating") <=> (room.status # "closed" /\ u \in room.watching)
             /\ phase'[u] = "in-game" => room.status = "playing" /\ u \in room.players
             /\ phase'[u] = "elsewhere" => room.status = "closed"
  <2> DEFINE now == IF u \in Members(model) /\ (room.status = "closed" \/ u \notin Members(room)) /\ phase[u] \in {"in-room", "spectating"}
                    THEN "idle" ELSE phase[u]
  <2>1. phase'[u] = IF room.status = "playing" /\ u \in room.players THEN "in-game"
                    ELSE IF u \in room.watching /\ room.status # "closed" /\ now = "idle" THEN "spectating"
                    ELSE IF u \in room.players /\ room.status = "waiting" /\ now = "idle" THEN "in-room" ELSE now
    BY <1>1 DEF ShownInRoom
  <2>2. /\ (phase[u] = "in-room") <=> (model.status = "waiting" /\ u \in model.players)
        /\ (phase[u] = "spectating") <=> (model.status # "closed" /\ u \in model.watching)
        /\ phase[u] = "in-game" => model.status = "playing" /\ u \in model.players
        /\ phase[u] = "elsewhere" => model.status = "closed"
    BY DEF PhasesFollow
  <2>3. phase[u] \in Phase
    BY <1>2
  <2> QED BY <1>2, <2>1, <2>2, <2>3 DEF Phase, Status, Members, IsSeated, Follows
<1>5. phase' \in [Human -> Phase] /\ PhasesFollow'
  BY <1>1, <1>4 DEF PhasesFollow
<1> QED BY <1>1, <1>3, <1>5

\* Work that is over, or given up, whether or not the copy was brought up to date.
LEMMA EndingKeeps ==
    ASSUME IInv, NEW t \in Task, NEW ok \in BOOLEAN, jobs # << >>,
           Keep \/ Accept, Finish(t, ok), roomFaults' \in Nat,
           UNCHANGED <<room, agreed, there, hour, orders>>
    PROVE  IInv'
<1>1. /\ model' \in Record /\ listed' \in BOOLEAN /\ phase' \in [Human -> Phase]
      /\ MembersOnce' /\ CopyIsNear' /\ PhasesFollow'
  <2>1. CASE Keep
    BY <2>1 DEF Keep, IInv, TypeOK, MembersOnce, CopyIsNear, PhasesFollow
  <2>2. CASE Accept
    BY <2>2, AcceptShows DEF IInv, TypeOK
  <2> QED BY <2>1, <2>2
<1>2. jobs' \in Seq(Task) /\ point' = "next" /\ again' \in BOOLEAN
  BY <1>1, FinishMeans DEF IInv, TypeOK
<1>3. TypeOK'
  BY <1>1, <1>2 DEF IInv, TypeOK
<1>4. ReadyIsAgreed' /\ WorkIsSound'
  BY <1>2 DEF IInv, ReadyIsAgreed, Agreed, WorkIsSound
<1> QED BY <1>1, <1>3, <1>4 DEF IInv

LEMMA FaultsAreCounted ==
    ASSUME roomFaults \in Nat, Failing(1) \/ UNCHANGED roomFaults
    PROVE  roomFaults' \in Nat
<1>1. Failing(1) => roomFaults' = roomFaults + 1
  BY DEF Failing
<1> QED BY <1>1

LEMMA BeginKeeps ==
    ASSUME IInv, Begin
    PROVE  IInv'
<1> DEFINE t == Head(jobs)
<1>1. jobs # << >> /\ jobs \in Seq(Task) /\ roomFaults \in Nat
  BY DEF Begin, Working, IInv, TypeOK
<1>2. t \in Task /\ UNCHANGED <<room, agreed, there, hour, orders>>
  BY <1>1, HeadIsTask DEF Begin
<1>3. \/ Keep /\ Finish(t, TRUE) /\ UNCHANGED roomFaults
      \/ /\ listed /\ (t.kind = "start" => CanStart(model)) /\ t.kind \notin ByRecord
         /\ point' = "write" /\ Keep /\ UNCHANGED <<jobs, again, roomFaults>>
      \/ Accept /\ Finish(t, TRUE) /\ UNCHANGED roomFaults
      \/ /\ t.kind \in ByRecord /\ Accept /\ UNCHANGED roomFaults /\ ~Settled(t, room)
         /\ point' = "write" /\ UNCHANGED again /\ jobs' = <<[t EXCEPT !.seen = Seen(room)]>> \o Tail(jobs)
      \/ Failing(1) /\ Keep /\ Finish(t, FALSE)
  BY DEF Begin
<1> HIDE DEF t
<1>4. CASE \/ Keep /\ Finish(t, TRUE) /\ UNCHANGED roomFaults
           \/ Accept /\ Finish(t, TRUE) /\ UNCHANGED roomFaults
           \/ Failing(1) /\ Keep /\ Finish(t, FALSE)
  <2>1. roomFaults' \in Nat
    BY <1>1, <1>4, FaultsAreCounted
  <2> QED BY <1>1, <1>2, <1>4, <2>1, EndingKeeps
<1>5. CASE /\ listed /\ (t.kind = "start" => CanStart(model)) /\ t.kind \notin ByRecord
           /\ point' = "write" /\ Keep /\ UNCHANGED <<jobs, again, roomFaults>>
  <2>1. TypeOK' /\ MembersOnce' /\ ReadyIsAgreed' /\ CopyIsNear' /\ PhasesFollow'
    BY <1>2, <1>5 DEF Keep, IInv, TypeOK, MembersOnce, ReadyIsAgreed, CopyIsNear, PhasesFollow
  <2>2. model.status # "closed"
    BY <1>5 DEF IInv, CopyIsNear
  <2>3. MayGo(t, model)
    BY <1>5, <2>2 DEF MayGo, ByRecord
  <2>4. WorkIsSound'
    BY <1>1, <1>5, <2>3 DEF WorkIsSound, Keep, t
  <2> QED BY <2>1, <2>4 DEF IInv
<1>6. CASE /\ t.kind \in ByRecord /\ Accept /\ UNCHANGED roomFaults /\ ~Settled(t, room)
           /\ point' = "write" /\ UNCHANGED again /\ jobs' = <<[t EXCEPT !.seen = Seen(room)]>> \o Tail(jobs)
  <2>1. /\ model' = room /\ listed' \in BOOLEAN /\ phase' \in [Human -> Phase]
        /\ MembersOnce' /\ CopyIsNear' /\ PhasesFollow'
    BY <1>2, <1>6, AcceptShows DEF IInv
  <2> DEFINE s == [t EXCEPT !.seen = Seen(room)]
  <2>2. s \in Task /\ s.kind = t.kind /\ s.whom = t.whom
    <3>1. Seen(room) \in SUBSET Human
      BY RecordFields DEF IInv, TypeOK, Seen, Members
    <3> QED BY <1>2, <3>1 DEF Task, Form
  <2> HIDE DEF s
  <2>3. jobs' \in Seq(Task) /\ jobs' # << >> /\ Head(jobs') = s
    <3>1. jobs' = <<s>> \o Tail(jobs)
      BY <1>6 DEF s
    <3>2. Tail(jobs) \in Seq(Task)
      BY <1>1, HeadIsTask
    <3> HIDE DEF Task
    <3> QED BY <2>2, <3>1, <3>2
  <2>4. MayGo(s, room)
    BY <1>6, <2>2 DEF MayGo, Settled, ByRecord
  <2>5. TypeOK'
    BY <1>2, <1>6, <2>1, <2>3 DEF IInv, TypeOK
  <2>6. ReadyIsAgreed' /\ WorkIsSound'
    BY <1>2, <2>1, <2>3, <2>4 DEF IInv, ReadyIsAgreed, WorkIsSound
  <2> QED BY <2>1, <2>5, <2>6 DEF IInv
<1> QED BY <1>3, <1>4, <1>5, <1>6

LEMMA CommitWriteKeeps ==
    ASSUME IInv, CommitWrite
    PROVE  IInv'
<1> DEFINE t == Head(jobs)
<1>1. jobs # << >> /\ jobs \in Seq(Task) /\ roomFaults \in Nat /\ point = "write"
  BY DEF CommitWrite, Working, IInv, TypeOK
<1>2. t \in Task /\ MayGo(t, model)
  BY <1>1, HeadIsTask DEF IInv, WorkIsSound
<1>3. /\ \/ \E r \in Results(t) : Write(t, r)
         \/ KeepData
      /\ point' \in {"accept", "look"} /\ roomFaults' \in Nat
      /\ UNCHANGED <<jobs, again, model, listed, phase, there, hour, orders>>
  BY <1>1 DEF CommitWrite, To, Failing, Keep
<1> HIDE DEF t
<1>4. CASE KeepData
  BY <1>3, <1>4 DEF KeepData, IInv, TypeOK, MembersOnce, ReadyIsAgreed, CopyIsNear, PhasesFollow, WorkIsSound
<1>5. CASE \E r \in Results(t) : Write(t, r)
  <2>1. PICK r \in Results(t) : Write(t, r)
    BY <1>5
  <2>2. model = room /\ Sound(t, room, r) /\ Agreed(r, Given(t, r)) /\ Given(t, r) \in [Human -> Nat]
    BY <1>2, ResultsAreSound DEF IInv
  <2>3. room' = r /\ agreed' = Given(t, r)
    BY <2>1 DEF Write, Given
  <2>4. TypeOK'
    BY <1>3, <2>2, <2>3 DEF IInv, TypeOK, Sound
  <2>5. MembersOnce' /\ ReadyIsAgreed' /\ CopyIsNear' /\ PhasesFollow' /\ WorkIsSound'
    BY <1>3, <2>2, <2>3 DEF IInv, MembersOnce, ReadyIsAgreed, CopyIsNear, PhasesFollow, WorkIsSound, Sound
  <2> QED BY <2>4, <2>5 DEF IInv
<1> QED BY <1>3, <1>4, <1>5

LEMMA AcceptWriteKeeps ==
    ASSUME IInv, AcceptWrite
    PROVE  IInv'
<1> DEFINE t == Head(jobs)
           ok == point = "accept"
<1>1. jobs # << >> /\ jobs \in Seq(Task) /\ roomFaults \in Nat
  BY DEF AcceptWrite, Working, IInv, TypeOK
<1>2. t \in Task /\ ok \in BOOLEAN
  BY <1>1, HeadIsTask
<1>3. /\ \/ Accept /\ Finish(t, ok) /\ UNCHANGED roomFaults
         \/ Failing(1) /\ Keep /\ Finish(t, FALSE)
      /\ UNCHANGED <<room, agreed, there, hour, orders>>
  BY DEF AcceptWrite, KeepData
<1> HIDE DEF t, ok
<1>4. roomFaults' \in Nat
  BY <1>1, <1>3, FaultsAreCounted
<1> QED BY <1>1, <1>2, <1>3, <1>4, EndingKeeps

------------------------------------------------------------------------------
(* Endings and restarts *)

LEMMA GameEndsKeeps ==
    ASSUME IInv, GameEnds
    PROVE  IInv'
<1>1. room \in Record /\ IsSeated(room) /\ phase \in [Human -> Phase] /\ room.status = "playing" /\ model = room
  BY DEF GameEnds, IInv, TypeOK, MembersOnce
<1>2. room' = [room EXCEPT !.status = "closed"] /\ model' = room' /\ listed' = FALSE
      /\ phase' = [u \in Human |-> IF u \in Members(room) THEN "elsewhere" ELSE phase[u]]
      /\ UNCHANGED <<jobs, point, again, there, hour, orders, roomFaults, agreed>> /\ jobs = << >>
  BY DEF GameEnds
<1>3. room' \in Record /\ room'.status = "closed" /\ room'.players = room.players /\ room'.watching = room.watching
  BY <1>1, <1>2 DEF Record, Status
<1>4. phase' \in [Human -> Phase]
  BY <1>1, <1>2 DEF Phase
<1>5. TypeOK'
  BY <1>2, <1>3, <1>4 DEF IInv, TypeOK
<1>6. MembersOnce' /\ ReadyIsAgreed' /\ CopyIsNear' /\ WorkIsSound'
  BY <1>1, <1>2, <1>3 DEF IInv, MembersOnce, IsSeated, ReadyIsAgreed, Agreed, CopyIsNear, Follows, WorkIsSound
<1>7. PhasesFollow'
  <2> SUFFICES ASSUME NEW u \in Human
               PROVE  phase'[u] # "in-room" /\ phase'[u] # "spectating" /\ phase'[u] # "in-game"
    BY <1>2, <1>3 DEF PhasesFollow
  <2> QED BY <1>1, <1>2 DEF IInv, PhasesFollow, Members
<1> QED BY <1>5, <1>6, <1>7 DEF IInv

LEMMA RestartKeeps ==
    ASSUME IInv, Restart
    PROVE  IInv'
<1>1. room \in Record /\ IsSeated(room) /\ roomFaults \in Nat /\ hour \in Hour /\ Deadline \in Hour
  BY DeadlineIsHour DEF IInv, TypeOK, MembersOnce
<1>2. jobs' = << >> /\ point' = "next" /\ again' = FALSE /\ there' = [u \in Human |-> FALSE]
      /\ model' = room' /\ listed' = (room.status # "closed") /\ UNCHANGED <<hour, orders, agreed>>
  BY DEF Restart
<1>3. roomFaults' \in Nat
  BY <1>1 DEF Restart, Failing
<1>4. /\ room' \in Record /\ room'.status = room.status /\ room'.players = room.players /\ room'.watching = room.watching
      /\ room'.terms = room.terms /\ room'.kind = room.kind /\ (room.status = "closed" \/ room'.ready = {})
  <2>1. CASE room.status = "closed"
    BY <1>1, <2>1 DEF Restart
  <2>2. CASE room.status # "closed"
    <3> DEFINE away == [u \in Human |-> IF u \in Members(room) /\ room.until[u] = Present THEN Deadline ELSE room.until[u]]
    <3>1. away \in [Human -> Hour]
      BY <1>1, RecordFields
    <3>2. room' = [room EXCEPT !.ready = {}, !.until = away]
      BY <1>1, <2>2 DEF Restart, Record
    <3> HIDE DEF away
    <3> QED BY <1>1, <3>1, <3>2 DEF Record
  <2> QED BY <2>1, <2>2
<1>5. ASSUME NEW u \in Human
      PROVE  phase'[u] = IF phase[u] = "elsewhere" THEN "elsewhere"
                         ELSE IF room.status = "playing" /\ u \in room.players THEN "in-game"
                         ELSE IF room.status = "waiting" /\ u \in room.players THEN "in-room"
                         ELSE IF room.status # "closed" /\ u \in room.watching THEN "spectating" ELSE "idle"
  BY DEF Restart
<1>6. phase' \in [Human -> Phase]
  <2>1. phase' = [u \in Human |-> phase'[u]]
    BY DEF Restart
  <2>2. \A u \in Human : phase'[u] \in Phase
    BY <1>5 DEF Phase
  <2> QED BY <2>1, <2>2
<1>7. TypeOK'
  BY <1>1, <1>2, <1>3, <1>4, <1>6, EmptySeq DEF IInv, TypeOK
<1>8. MembersOnce' /\ CopyIsNear' /\ WorkIsSound'
  BY <1>1, <1>2, <1>4 DEF IInv, MembersOnce, IsSeated, CopyIsNear, Follows, WorkIsSound
<1>9. ReadyIsAgreed'
  BY <1>2, <1>4 DEF IInv, ReadyIsAgreed, Agreed
<1>10. PhasesFollow'
  <2> SUFFICES ASSUME NEW u \in Human
               PROVE  /\ (phase'[u] = "in-room") <=> (room.status = "waiting" /\ u \in room.players)
                      /\ (phase'[u] = "spectating") <=> (room.status # "closed" /\ u \in room.watching)
                      /\ phase'[u] = "in-game" => room.status = "playing" /\ u \in room.players
                      /\ phase'[u] = "elsewhere" => room.status = "closed"
    BY <1>2, <1>4 DEF PhasesFollow
  <2>1. phase[u] = "elsewhere" => room.status = "closed"
    BY DEF IInv, PhasesFollow, CopyIsNear, Follows
  <2>2. room.status \in Status
    BY <1>1, RecordFields
  <2> QED BY <1>1, <1>5, <2>1, <2>2 DEF IsSeated, Status
<1> QED BY <1>7, <1>8, <1>9, <1>10 DEF IInv

------------------------------------------------------------------------------
(* The room from its creation on *)

LEMMA InitInv == RoomInit => IInv
<1> SUFFICES ASSUME RoomInit
             PROVE  IInv
  OBVIOUS
<1>1. PICK kind \in Kind, target \in Guest :
        room = [status |-> "waiting", host |-> Host, kind |-> kind, players |-> {Host}, watching |-> {}, ready |-> {},
                bot |-> FALSE, until |-> [u \in Human |-> Present], terms |-> 1, audience |-> kind # "challenge",
                invited |-> IF kind = "challenge" THEN target ELSE NoOne]
  BY DEF RoomInit
<1>2. /\ model = room /\ listed = TRUE /\ jobs = << >> /\ point = "next" /\ again = FALSE
      /\ phase = [u \in Human |-> IF u = Host THEN "in-room" ELSE "idle"]
      /\ there = [u \in Human |-> TRUE] /\ hour = 0 /\ orders = 0 /\ roomFaults = 0
      /\ agreed = [u \in Human |-> IF u = Host /\ room.kind = "auto" THEN 1 ELSE 0]
  BY DEF RoomInit
<1>3. /\ kind \in KindOfRoom /\ Host \in Human /\ target \in Someone /\ NoOne \in Someone
      /\ (kind # "challenge") \in BOOLEAN /\ [u \in Human |-> Present] \in [Human -> Hour]
  BY RoomAssumption DEF KindOfRoom, Human, Someone, Hour, Present, InviteEnd
<1>4. room \in Record
  <2> DEFINE away == [u \in Human |-> Present]
             open == kind # "challenge"
             whom == IF kind = "challenge" THEN target ELSE NoOne
  <2>1. whom \in Someone /\ Host \in Someone /\ {Host} \in SUBSET Human
    BY <1>3 DEF Someone
  <2>2. away \in [Human -> Hour] /\ open \in BOOLEAN
    BY <1>3
  <2> HIDE DEF away, open, whom
  <2>3. room = [status |-> "waiting", host |-> Host, kind |-> kind, players |-> {Host}, watching |-> {}, ready |-> {},
                bot |-> FALSE, until |-> away, terms |-> 1, audience |-> open, invited |-> whom]
    BY <1>1 DEF away, open, whom
  <2> QED BY <1>3, <2>1, <2>2, <2>3 DEF Record, Status
<1>5. TypeOK
  <2>1. phase \in [Human -> Phase] /\ there \in [Human -> BOOLEAN] /\ agreed \in [Human -> Nat]
    BY <1>2 DEF Phase
  <2>2. hour \in Hour /\ orders \in Nat /\ roomFaults \in Nat
    BY <1>2 DEF Hour, InviteEnd
  <2> QED BY <1>2, <1>4, <2>1, <2>2, EmptySeq DEF TypeOK
<1>6. MembersOnce /\ ReadyIsAgreed /\ CopyIsNear /\ WorkIsSound
  BY <1>1, <1>2, <1>3 DEF MembersOnce, IsSeated, ReadyIsAgreed, Agreed, CopyIsNear, Follows, WorkIsSound
<1>7. PhasesFollow
  BY <1>1, <1>2, <1>3 DEF PhasesFollow
<1> QED BY <1>5, <1>6, <1>7 DEF IInv

LEMMA StepInv ==
    ASSUME IInv, [RoomNext]_roomVars
    PROVE  IInv'
<1>1. CASE RoomWork
  BY <1>1, BeginKeeps, CommitWriteKeeps, AcceptWriteKeeps DEF RoomWork
<1>2. CASE ExpiryFires \/ PresenceRetries \/ GameEnds \/ HourPasses \/ Restart
  BY <1>2, TimersKeep, GameEndsKeeps, HourPassesKeeps, RestartKeeps
<1>3. CASE \E u \in Human : \/ RoomJoin(u) \/ RoomSpectate(u) \/ RoomLeave(u) \/ RoomReady(u) \/ RoomReadyLate(u)
                           \/ RoomSettings(u) \/ RoomDecline(u) \/ BotJoin(u)
  BY <1>3, CommandsKeep
<1>4. CASE \E u \in Human : Disconnect(u) \/ Connect(u)
  BY <1>4, ComingAndGoingKeep
<1>5. CASE \E u, v \in Human : RoomKick(u, v) \/ RoomInvite(u, v)
  BY <1>5, CommandsKeep
<1>6. CASE UNCHANGED roomVars
  BY <1>6, StutterKeeps
<1> QED BY <1>1, <1>2, <1>3, <1>4, <1>5, <1>6 DEF RoomNext

THEOREM Invariance == RoomSpec => []IInv
<1>1. IInv /\ [RoomNext]_roomVars => IInv'
  BY StepInv
<1> QED BY InitInv, <1>1, PTL DEF RoomSpec

\* The record, its copy and the work that waits keep their types: members are people
\* who exist, deadlines lie on the clock, and tasks are tasks.  (normalizeRoomState)
THEOREM RoomTypes == RoomSpec => []TypeOK
<1>1. IInv => TypeOK
  BY DEF IInv
<1> QED BY Invariance, <1>1, PTL

\* Once the copy is the record and no work waits, the players of a waiting room and the
\* spectators of an open one are shown it, and nobody else is.  (applyRoomSessions)
THEOREM ScreensShowTheRoom == RoomSpec => []ScreensFollowMembership
<1>1. IInv => ScreensFollowMembership
  BY DEF IInv, PhasesFollow, ScreensFollowMembership
<1> QED BY Invariance, <1>1, PTL

\* A game begins only on terms that every one of its players agreed to, however the
\* host's changes, the readiness, the departures and the failures interleave.
\* (room:ready, room:settings, commitRoomRecord)
THEOREM NobodyPlaysOtherTerms == RoomSpec => ConsentIsToTheTerms
<1>1. ASSUME IInv, [RoomNext]_roomVars, room.status = "waiting", room'.status = "playing"
      PROVE  \A u \in room.players : agreed[u] = room.terms
  <2>1. CASE CommitWrite
    <3> DEFINE t == Head(jobs)
    <3>1. \E r \in Results(t) : Write(t, r)
      BY <1>1, <2>1 DEF CommitWrite, KeepData
    <3>2. jobs # << >> /\ MayGo(t, model) /\ t \in Task
      <4>1. point = "write" /\ jobs # << >> /\ jobs \in Seq(Task)
        BY <1>1, <2>1 DEF CommitWrite, Working, IInv, TypeOK
      <4> QED BY <1>1, <4>1, HeadIsTask DEF IInv, WorkIsSound
    <3> HIDE DEF t
    <3>3. PICK r \in Results(t) : Write(t, r)
      BY <3>1
    <3>4. model = room /\ Sound(t, room, r) /\ room' = r
      BY <1>1, <3>2, <3>3, ResultsAreSound DEF IInv, Write
    <3>5. CanStart(room)
      BY <1>1, <3>2, <3>4 DEF Sound, MayGo
    <3> QED BY <1>1, <3>5 DEF CanStart, IsReady, IInv, ReadyIsAgreed, Agreed
  <2>2. CASE room' = room
    BY <1>1, <2>2
  <2>3. CASE GameEnds
    BY <1>1, <2>3 DEF GameEnds
  <2>4. CASE Restart
    BY <1>1, <2>4 DEF Restart, IInv, TypeOK, Record
  <2>5. CASE Begin \/ AcceptWrite \/ ExpiryFires \/ PresenceRetries \/ HourPasses
    BY <2>2, <2>5 DEF Begin, AcceptWrite, KeepData, ExpiryFires, PresenceRetries, System, Still, HourPasses
  <2>6. CASE \E u \in Human : \/ RoomJoin(u) \/ RoomSpectate(u) \/ RoomLeave(u) \/ RoomReady(u) \/ RoomReadyLate(u)
                             \/ RoomSettings(u) \/ RoomDecline(u) \/ BotJoin(u)
    BY <2>2, <2>6 DEF RoomJoin, RoomSpectate, RoomLeave, RoomReady, RoomReadyLate, RoomSettings, RoomDecline, BotJoin, Order
  <2>7. CASE \E u \in Human : Disconnect(u) \/ Connect(u)
    BY <2>2, <2>7 DEF Disconnect, Connect, Still
  <2>8. CASE \E u, v \in Human : RoomKick(u, v) \/ RoomInvite(u, v)
    BY <2>2, <2>8 DEF RoomKick, RoomInvite, Order
  <2>9. CASE UNCHANGED roomVars
    BY <2>2, <2>9 DEF roomVars
  <2> QED BY <1>1, <2>1, <2>3, <2>4, <2>5, <2>6, <2>7, <2>8, <2>9 DEF RoomNext, RoomWork
<1>2. IInv /\ [RoomNext]_roomVars =>
        [(room.status = "waiting" /\ room'.status = "playing") => \A u \in room.players : agreed[u] = room.terms]_roomVars
  BY <1>1
<1> QED BY Invariance, <1>2, PTL DEF RoomSpec, ConsentIsToTheTerms
==============================================================================
