------------------------- MODULE GameLifecycleProofs -------------------------
(***************************************************************************)
(* What holds of one installed game in every reachable state, for any       *)
(* players, beginnings, commands and bounds.                                *)
(*                                                                         *)
(* The installed state, the stored state and the state being decided on     *)
(* follow one another: a game that is over stays over, one that has begun    *)
(* stays begun, and a pause is never entered again.  This is what ties the    *)
(* timers and the queue, which are read against the installed state, to      *)
(* commits whose response may show another one.                              *)
(***************************************************************************)
EXTENDS GameLifecycle, FiniteSetTheorems, SequenceTheorems, TLAPS

------------------------------------------------------------------------------
(* The inductive invariant *)

Begun(g) == g.started \/ g.paused \/ g.over
Pausing(g) == g.paused /\ ~g.over

\* What can become of a game: never un-ended, never un-begun, never paused again.
Follows(g, d) ==
    /\ g.over => d.over
    /\ Begun(g) => Begun(d)
    /\ d.paused => g.paused

\* Only a finished game has a winner or a reason.
Sober(g) == ~g.over => g.reason = "none" /\ g.winner = "none"

\* Commands and endings name a player, and no absence was queued under a pause.
Signed(t) ==
    /\ t.kind \notin {"begin", "recover", "clock"} => t.who \in Colour
    /\ t.kind \notin {"begin", "recover", "clock", "play"} => t.who \in Human

QueueIsSigned ==
    \A i \in 1..Len(queue) : Signed(queue[i]) /\ (queue[i].kind = "expire" => ~game.paused)

\* The three copies of the game.
CopiesFollow ==
    /\ ~behind => game = durable
    /\ decision.stage = "none" => decision = Undecided
    /\ decision.stage # "none" => ~behind /\ queue # << >>
    /\ Follows(game, durable) /\ Sober(game) /\ Sober(durable)
    /\ decision.stage = "write" => Follows(game, decision.game) /\ Sober(decision.game)

TimersAreSet ==
    /\ reveal = "off" => Begun(game)
    /\ recovery = "off" => ~Pausing(game)

EndingIsQueued ==
    /\ ending = {} => \A i \in 1..Len(queue) : ~IsEnding(queue[i])
    /\ ending # {} => \E i \in 1..Len(queue) :
                          /\ IsEnding(queue[i])
                          /\ \A j \in 1..Len(queue) : IsEnding(queue[j]) => j = i

IInv == TypeOK /\ QueueIsSigned /\ CopiesFollow /\ TimersAreSet /\ EndingIsQueued

------------------------------------------------------------------------------
(* Drafts *)

Reason == {"play", "resign", "disconnect", "timeout", "draw-agreement",
           "restart-disconnect", "restart-abandoned"}

Winner == Colour \cup {"none"}

\* An ending leaves a game state, and one that may follow the game it ends.
LEMMA EndInIsGame ==
    ASSUME NEW g \in Game, NEW w \in Winner, NEW d,
           NEW r, r \in Reason, d = EndIn(g, w, r)
    PROVE  /\ d \in Game /\ Follows(g, d) /\ Sober(d)
           /\ d.over /\ d.reason = r /\ d.winner = w /\ d.paused = g.paused
BY DEF Game, EndIn, Follows, Sober, Begun, Reason, Winner

LEMMA NobodyWins ==
    ASSUME NEW g \in Game, NEW d, NEW r, r \in Reason, d = EndIn(g, "none", r)
    PROVE  /\ d \in Game /\ Follows(g, d) /\ Sober(d)
           /\ d.over /\ d.reason = r /\ d.winner = "none" /\ d.paused = g.paused
BY DEF Game, EndIn, Follows, Sober, Begun, Reason

LEMMA FreshIsGame == Fresh \in Game
BY DEF Fresh, Game, Colour

LEMMA OtherIsColour == ASSUME NEW c PROVE Other(c) \in Colour
BY DEF Other, Colour

LEMMA TimeUpIsGame ==
    ASSUME NEW g \in Game, NEW d \in TimeUp(g)
    PROVE  /\ d \in Game /\ Follows(g, d) /\ Sober(d)
           /\ d.over /\ d.reason = "timeout" /\ ~g.paused /\ d.paused = g.paused
<1>1. PICK w \in Colour : d = EndIn(g, w, "timeout") /\ ~g.paused
  BY DEF TimeUp
<1>2. w \in Winner /\ "timeout" \in Reason
  BY DEF Reason, Winner
<1>3. /\ d \in Game /\ Follows(g, d) /\ Sober(d)
      /\ d.over /\ d.reason = "timeout" /\ d.paused = g.paused
  BY <1>1, <1>2, EndInIsGame
<1> QED BY <1>1, <1>3

\* What the restart decision makes of a paused game.
LEMMA EvaluatedIsGame ==
    ASSUME NEW g \in Game, ~g.over, Sober(g), NEW d \in Evaluated(g)
    PROVE  /\ d \in Game /\ Follows(g, d) /\ Sober(d)
           /\ g.paused /\ ~d.paused /\ d.ready = g.ready
           /\ ~d.over => Present(g) = Human /\ d.started
           /\ d.over => /\ due /\ Present(g) # Human
                        /\ d.reason \in {"restart-disconnect", "restart-abandoned"}
                        /\ d.winner = "none" <=> Cardinality(Present(g)) # 1
                        /\ d.winner # "none" => d.winner \in Present(g)
<1> DEFINE u == [g EXCEPT !.paused = FALSE]
<1>1. /\ u \in Game /\ ~u.paused /\ ~u.over /\ u.ready = g.ready
      /\ u.reason = g.reason /\ u.winner = g.winner
  BY DEF Game
<1>2. g.paused /\ ~(Present(g) # Human /\ ~due)
  BY DEF Evaluated
<1>3. CASE Present(g) = Human
  <2>1. d = [u EXCEPT !.started = TRUE]
    BY <1>2, <1>3 DEF Evaluated
  <2>2. /\ d \in Game /\ d.started /\ ~d.paused /\ ~d.over /\ d.ready = g.ready
        /\ d.reason = g.reason /\ d.winner = g.winner
    BY <2>1, <1>1 DEF Game
  <2> QED BY <2>2, <1>2, <1>3 DEF Follows, Sober, Begun
<1>4. CASE Present(g) # Human
  <2>1. due
    BY <1>2, <1>4
  <2>2. Present(g) \subseteq Human /\ Human \subseteq Colour
    BY HumanAssumption DEF Present
  <2>3. CASE Cardinality(Present(g)) = 1
    <3>1. PICK h \in Present(g) : d = EndIn(u, h, "restart-disconnect")
      BY <1>2, <1>4, <2>1, <2>3 DEF Evaluated
    <3>2. h \in Colour /\ h # "none"
      BY <2>2 DEF Colour
    <3>3. /\ d \in Game /\ d.over /\ d.reason = "restart-disconnect" /\ d.winner = h
          /\ d.paused = u.paused /\ Sober(d)
      <4>1. h \in Winner /\ "restart-disconnect" \in Reason
        BY <3>2 DEF Reason, Winner
      <4>2. u \in Game /\ d = EndIn(u, h, "restart-disconnect")
        BY <1>1, <3>1
      <4> HIDE DEF u
      <4> QED BY ONLY <4>1, <4>2, EndInIsGame
    <3>4. d.ready = g.ready
      BY <3>1, <1>1 DEF EndIn, Game
    <3> QED BY <3>2, <3>3, <3>4, <1>1, <1>2, <1>4, <2>1, <2>3 DEF Follows, Begun
  <2>4. CASE Cardinality(Present(g)) # 1
    <3>1. d = EndIn(u, "none", "restart-abandoned")
      BY <1>2, <1>4, <2>1, <2>4 DEF Evaluated
    <3>3. /\ d \in Game /\ d.over /\ d.reason = "restart-abandoned" /\ d.winner = "none"
          /\ d.paused = u.paused /\ Sober(d)
      <4>1. "restart-abandoned" \in Reason
        BY DEF Reason
      <4> HIDE DEF u
      <4> QED BY <3>1, <4>1, <1>1, NobodyWins
    <3>4. d.ready = g.ready
      BY <3>1, <1>1 DEF EndIn, Game
    <3> QED BY <3>3, <3>4, <1>1, <1>2, <1>4, <2>1, <2>4 DEF Follows, Begun
  <2> QED BY <2>3, <2>4
<1> QED BY <1>3, <1>4

\* A late readiness lets the deadline decide, an early one is entered.
LEMMA ReadiedIsGame ==
    ASSUME NEW t \in Task, t.who \in Human, game \in Game, ~game.over, Sober(game),
           NEW d \in Readied(game, t)
    PROVE  /\ d \in Game /\ Follows(game, d) /\ Sober(d)
           /\ ~d.over => d.paused = game.paused
                         \/ /\ d.started
                            /\ {h \in Human : conn[h] # 0 /\ d.ready[h] = conn[h]} = Human
           /\ d.over => d \in Evaluated(game)
<1> DEFINE r == [game EXCEPT !.ready[t.who] = t.conn]
<1>1. /\ r \in Game /\ r.paused = game.paused /\ ~r.over /\ r.reason = game.reason
      /\ r.winner = game.winner /\ r.started = game.started
  BY DEF Game, Task
<1>2. Sober(r) /\ Follows(game, r)
  BY <1>1 DEF Sober, Follows, Begun
<1>3. CASE ~game.paused \/ due
  <2>1. d \in Evaluated(game)
    BY <1>3 DEF Readied
  <2>2. ~d.over => {h \in Human : conn[h] # 0 /\ d.ready[h] = conn[h]} = Human
    BY <2>1, EvaluatedIsGame DEF Present
  <2> QED BY <2>1, <2>2, EvaluatedIsGame
<1>4. CASE ~(~game.paused \/ due) /\ Evaluated(r) = {}
  <2>1. d = r
    BY <1>4 DEF Readied
  <2> QED BY <2>1, <1>1, <1>2
<1>5. CASE ~(~game.paused \/ due) /\ Evaluated(r) # {}
  <2>1. d \in Evaluated(r)
    BY <1>5 DEF Readied
  <2> HIDE DEF r
  <2>2. d \in Game /\ Follows(r, d) /\ Sober(d) /\ d.ready = r.ready /\ (d.over => due)
    BY <2>1, <1>1, <1>2, EvaluatedIsGame
  <2>3. ~d.over /\ d.started /\ Present(r) = Human
    BY <2>1, <2>2, <1>1, <1>2, <1>5, EvaluatedIsGame
  <2>4. {h \in Human : conn[h] # 0 /\ d.ready[h] = conn[h]} = Human
    BY <2>2, <2>3 DEF Present
  <2>5. Follows(game, d)
    BY <2>2, <2>3, <1>2 DEF Follows, Begun
  <2> QED BY <2>2, <2>3, <2>4, <2>5
<1> QED BY <1>3, <1>4, <1>5

\* A draft of any commit is a game that may follow the installed one.
LEMMA DraftFollows ==
    ASSUME NEW t \in Task, Signed(t), game \in Game, ~game.over, Sober(game), NEW d \in Drafts(t)
    PROVE  d \in Game /\ Follows(game, d) /\ Sober(d)
<1> USE HumanAssumption DEF Signed
<1>0. Follows(game, game)
  BY DEF Follows
<1>1. CASE t.kind = "acknowledge"
  <2>1. d = [game EXCEPT !.acks = @ \cup {t.who}, !.started = (game.acks \cup {t.who} = Colour)]
        /\ ~game.started
    BY <1>1 DEF Drafts, Acknowledged
  <2>2. /\ d \in Game /\ d.paused = game.paused /\ d.over = game.over
        /\ d.reason = game.reason /\ d.winner = game.winner
    BY <1>1, <2>1 DEF Game
  <2> QED BY <2>1, <2>2 DEF Follows, Sober, Begun
<1>2. CASE t.kind = "begin"
  <2>1. d = [game EXCEPT !.started = TRUE]
    BY <1>2 DEF Drafts
  <2>2. /\ d \in Game /\ d.paused = game.paused /\ d.over = game.over /\ d.started
        /\ d.reason = game.reason /\ d.winner = game.winner
    BY <2>1 DEF Game
  <2> QED BY <2>2 DEF Follows, Sober, Begun
<1>3. CASE t.kind = "ready"
  BY <1>3, ReadiedIsGame DEF Drafts
<1>4. CASE t.kind = "recover"
  BY <1>4, EvaluatedIsGame DEF Drafts
<1>5. CASE t.kind = "clock"
  <2>1. d = game \/ d \in TimeUp(game)
    BY <1>5 DEF Drafts
  <2> QED BY <2>1, <1>0, TimeUpIsGame
<1>6. CASE t.kind = "resign"
  <2>1. d = EndIn(game, Other(t.who), "resign") \/ d \in TimeUp(game)
    BY <1>6 DEF Drafts
  <2>2. Other(t.who) \in Winner /\ "resign" \in Reason
    BY OtherIsColour DEF Reason, Winner
  <2> QED BY <2>1, <2>2, EndInIsGame, TimeUpIsGame
<1>7. CASE t.kind = "expire"
  <2>1. d = EndIn(game, Other(t.who), "disconnect") \/ d \in TimeUp(game)
    BY <1>7 DEF Drafts
  <2>2. Other(t.who) \in Winner /\ "disconnect" \in Reason
    BY OtherIsColour DEF Reason, Winner
  <2> QED BY <2>1, <2>2, EndInIsGame, TimeUpIsGame
<1>8. CASE t.kind = "offer"
  <2>1. d = [game EXCEPT !.offer = t.who] \/ d \in TimeUp(game)
    BY <1>8 DEF Drafts
  <2>2. CASE d = [game EXCEPT !.offer = t.who]
    <3>1. /\ d \in Game /\ d.paused = game.paused /\ d.over = game.over
          /\ d.started = game.started /\ d.reason = game.reason /\ d.winner = game.winner
      BY <1>8, <2>2 DEF Game
    <3> QED BY <3>1 DEF Follows, Sober, Begun
  <2> QED BY <2>1, <2>2, TimeUpIsGame
<1>9. CASE t.kind \in {"accept", "decline"}
  <2>1. \/ d = EndIn(game, "none", "draw-agreement") \/ d = [game EXCEPT !.offer = "none"]
        \/ d \in TimeUp(game)
    BY <1>9 DEF Drafts, Answered
  <2>2. CASE d = [game EXCEPT !.offer = "none"]
    <3>1. /\ d \in Game /\ d.paused = game.paused /\ d.over = game.over
          /\ d.started = game.started /\ d.reason = game.reason /\ d.winner = game.winner
      BY <2>2 DEF Game
    <3> QED BY <3>1 DEF Follows, Sober, Begun
  <2>3. "draw-agreement" \in Reason
    BY DEF Reason
  <2> QED BY <2>1, <2>2, <2>3, NobodyWins, TimeUpIsGame
<1>10. CASE t.kind = "play"
  <2>1. \/ d = game \/ d = EndIn(game, t.who, "play") \/ d = EndIn(game, "none", "play")
        \/ d \in TimeUp(game)
    BY <1>10 DEF Drafts
  <2>2. t.who \in Winner /\ "play" \in Reason
    BY <1>10 DEF Reason, Winner
  <2> QED BY <2>1, <2>2, <1>0, EndInIsGame, NobodyWins, TimeUpIsGame
<1> QED BY <1>1, <1>2, <1>3, <1>4, <1>5, <1>6, <1>7, <1>8, <1>9, <1>10 DEF Task, GameCommand

------------------------------------------------------------------------------
(* The queue *)

LEMMA TailFacts ==
    ASSUME NEW q \in Seq(Task), q # << >>
    PROVE  /\ Tail(q) \in Seq(Task) /\ Head(q) \in Task /\ Head(q) = q[1]
           /\ Len(q) \in Nat /\ Len(q) >= 1 /\ Len(Tail(q)) = Len(q) - 1
           /\ \A i \in 1..Len(Tail(q)) : Tail(q)[i] = q[i + 1]
BY HeadTailProperties

LEMMA AppendFacts ==
    ASSUME NEW q \in Seq(Task), NEW t \in Task
    PROVE  /\ Append(q, t) \in Seq(Task) /\ Append(q, t) # << >>
           /\ Len(q) \in Nat /\ Len(Append(q, t)) = Len(q) + 1
           /\ \A i \in 1..Len(q) : Append(q, t)[i] = q[i]
           /\ Append(q, t)[Len(q) + 1] = t
BY AppendProperties

\* One more task, of a signed kind, at the end of the queue.
LEMMA AppendIsSigned ==
    ASSUME TypeOK, QueueIsSigned, NEW t \in Task, Signed(t), t.kind = "expire" => ~game.paused,
           queue' = Append(queue, t), game' = game
    PROVE  QueueIsSigned'
<1> DEFINE q == queue'
<1>1. queue \in Seq(Task)
  BY DEF TypeOK
<1>2. Len(queue) \in Nat /\ Len(queue') = Len(queue) + 1
  BY <1>1, AppendFacts
<1>3. ASSUME NEW i \in 1..Len(queue')
      PROVE  Signed(queue'[i]) /\ (queue'[i].kind = "expire" => ~game.paused)
  <2>1. CASE i \in 1..Len(queue)
    <3>1. queue'[i] = queue[i]
      BY <2>1, <1>1, AppendFacts
    <3> QED BY <3>1, <2>1 DEF QueueIsSigned
  <2>2. CASE i = Len(queue) + 1
    <3>1. queue'[i] = t
      BY <2>2, <1>1, AppendFacts
    <3> QED BY <3>1
  <2> QED BY <2>1, <2>2, <1>2
<1> QED BY <1>3 DEF QueueIsSigned, Signed

LEMMA QuietPush ==
    ASSUME TypeOK, EndingIsQueued, NEW t \in Task, ~IsEnding(t),
           queue' = Append(queue, t), ending' = ending
    PROVE  EndingIsQueued'
<1>1. queue \in Seq(Task)
  BY DEF TypeOK
<1>2. /\ Len(queue) \in Nat /\ Len(queue') = Len(queue) + 1
      /\ \A i \in 1..Len(queue) : queue'[i] = queue[i]
      /\ queue'[Len(queue) + 1] = t
  BY <1>1, AppendFacts
<1>3. \A i \in 1..Len(queue') : IsEnding(queue'[i]) => i \in 1..Len(queue)
  BY <1>2
<1>4. \A i \in 1..Len(queue) : i \in 1..Len(queue')
  BY <1>2
<1>5. CASE ending = {}
  BY <1>2, <1>3, <1>5 DEF EndingIsQueued
<1>6. CASE ending # {}
  <2>1. PICK i \in 1..Len(queue) :
           IsEnding(queue[i]) /\ \A j \in 1..Len(queue) : IsEnding(queue[j]) => j = i
    BY <1>6 DEF EndingIsQueued
  <2>2. IsEnding(queue'[i]) /\ \A j \in 1..Len(queue') : IsEnding(queue'[j]) => j = i
    BY <1>2, <1>3, <2>1
  <2> QED BY <1>4, <1>6, <2>1, <2>2 DEF EndingIsQueued
<1> QED BY <1>5, <1>6

\* The first to end the game is queued, the others only wait.
LEMMA JoinKeepsEnding ==
    ASSUME TypeOK, EndingIsQueued, NEW t \in Task, IsEnding(t), JoinEnding(t)
    PROVE  EndingIsQueued'
<1>1. queue \in Seq(Task) /\ ending' # {}
  BY DEF TypeOK, JoinEnding
<1>2. CASE ending = {}
  <2>1. /\ Len(queue) \in Nat /\ Len(queue') = Len(queue) + 1
        /\ \A i \in 1..Len(queue) : queue'[i] = queue[i]
        /\ queue'[Len(queue) + 1] = t
    BY <1>1, <1>2, AppendFacts DEF JoinEnding
  <2>2. \A j \in 1..Len(queue') : IsEnding(queue'[j]) => j = Len(queue) + 1
    BY <2>1, <1>2 DEF EndingIsQueued
  <2>3. Len(queue) + 1 \in 1..Len(queue') /\ IsEnding(queue'[Len(queue) + 1])
    BY <2>1
  <2> QED BY <1>1, <2>2, <2>3 DEF EndingIsQueued
<1>3. CASE ending # {}
  <2>1. queue' = queue
    BY <1>3 DEF JoinEnding
  <2> QED BY <1>1, <1>3, <2>1 DEF EndingIsQueued
<1> QED BY <1>2, <1>3

LEMMA JoinFacts ==
    ASSUME TypeOK, QueueIsSigned, NEW t \in Task, IsEnding(t), Signed(t),
           t.kind = "expire" => ~game.paused, JoinEnding(t), game' = game
    PROVE  /\ QueueIsSigned' /\ queue' \in Seq(Task)
           /\ queue # << >> => queue' # << >>
           /\ ending' \subseteq [kind : {"resign", "expire"}, who : Human]
<1>1. queue \in Seq(Task)
  BY DEF TypeOK
<1>2. ending' \subseteq [kind : {"resign", "expire"}, who : Human]
  BY DEF TypeOK, JoinEnding, IsEnding, Signed, Task
<1>3. CASE ending = {}
  <2>1. queue' = Append(queue, t)
    BY <1>3 DEF JoinEnding
  <2> QED BY <1>1, <1>2, <2>1, AppendFacts, AppendIsSigned
<1>4. CASE ending # {}
  <2>1. queue' = queue
    BY <1>4 DEF JoinEnding
  <2> QED BY <1>1, <1>2, <2>1 DEF QueueIsSigned
<1> QED BY <1>3, <1>4

------------------------------------------------------------------------------
(* The promise of a commit settles *)

\* What every such step has in common, whatever it installs.
Delivered(ok, g) ==
    /\ queue # << >> /\ Done(Head1, ok, g)
    /\ g \in Game /\ Follows(game, g) /\ Sober(g)
    /\ durable' \in Game /\ Follows(g, durable') /\ Sober(durable')
    /\ behind' \in BOOLEAN /\ (~behind' => g = durable')
    /\ faults' \in Nat

LEMMA FollowsIsReflexive == ASSUME NEW g PROVE Follows(g, g)
BY DEF Follows

LEMMA WrittenFollows ==
    ASSUME TypeOK, CopiesFollow, Decided
    PROVE  /\ ~behind /\ queue # << >> /\ game = durable /\ decision.stage # "none"
           /\ Written \in Game /\ Follows(game, Written) /\ Sober(Written)
<1>1. decision.stage # "none"
  BY DEF Decided, CopiesFollow
<1>2. ~behind /\ queue # << >> /\ game = durable
  BY <1>1 DEF CopiesFollow
<1>3. CASE decision.stage = "write"
  BY <1>1, <1>2, <1>3 DEF Written, CopiesFollow, TypeOK
<1>4. CASE decision.stage # "write"
  BY <1>1, <1>2, <1>4 DEF Written, CopiesFollow, TypeOK
<1> QED BY <1>1, <1>2, <1>3, <1>4

LEMMA ServeDelivers ==
    ASSUME TypeOK, CopiesFollow, Refuse \/ Conflict \/ Land \/ LandUnheard \/ Fail
    PROVE  \E ok, g : Delivered(ok, g)
<1>1. game \in Game /\ durable \in Game /\ faults \in Nat /\ behind \in BOOLEAN
      /\ Follows(game, durable) /\ Sober(game) /\ Sober(durable)
  BY DEF TypeOK, CopiesFollow
<1> USE FollowsIsReflexive
<1>2. CASE Refuse
  <2>1. /\ queue # << >> /\ Done(Head1, FALSE, game) /\ ~behind
        /\ durable' = durable /\ behind' = behind /\ faults' = faults
    BY <1>2 DEF Refuse, Open, AtHead
  <2>2. game = durable
    BY <2>1 DEF CopiesFollow
  <2>3. Delivered(FALSE, game)
    BY <1>1, <2>1, <2>2 DEF Delivered
  <2> QED BY <2>3
<1>3. CASE Conflict
  <2>1. queue # << >> /\ durable' = durable
    BY <1>3 DEF Conflict, AtHead
  <2>2. CASE behind' = FALSE /\ faults' = faults /\ Done(Head1, FALSE, durable)
    <3>1. Delivered(FALSE, durable)
      BY <1>1, <2>1, <2>2 DEF Delivered
    <3> QED BY <3>1
  <2>3. CASE behind' = behind /\ Fault /\ Done(Head1, FALSE, game)
    <3>1. faults' \in Nat /\ (~behind' => game = durable)
      BY <1>1, <2>3 DEF Fault, CopiesFollow
    <3>2. Delivered(FALSE, game)
      BY <1>1, <2>1, <2>3, <3>1 DEF Delivered
    <3> QED BY <3>2
  <2> QED BY <1>3, <2>2, <2>3 DEF Conflict
<1>4. CASE Land
  <2>1. /\ Decided /\ Done(Head1, TRUE, Written)
        /\ durable' = Written /\ behind' = behind /\ faults' = faults
    BY <1>4 DEF Land
  <2>2. Delivered(TRUE, Written)
    BY <1>1, <2>1, WrittenFollows DEF Delivered
  <2> QED BY <2>2
<1>5. CASE LandUnheard
  <2>1. Decided /\ durable' = Written /\ faults' \in Nat
    BY <1>1, <1>5 DEF LandUnheard, Fault
  <2>2. CASE Done(Head1, IsCommand(Head1), Written) /\ behind' = behind
    <3>1. Delivered(IsCommand(Head1), Written)
      BY <1>1, <2>1, <2>2, WrittenFollows DEF Delivered
    <3> QED BY <3>1
  <2>3. CASE Done(Head1, FALSE, Written) /\ behind' = behind
    <3>1. Delivered(FALSE, Written)
      BY <1>1, <2>1, <2>3, WrittenFollows DEF Delivered
    <3> QED BY <3>1
  <2>4. CASE Done(Head1, FALSE, game) /\ behind' = (decision.stage = "write")
    <3>1. ~behind' => Written = game
      BY <2>1, <2>4, WrittenFollows DEF Written
    <3>2. behind' \in BOOLEAN
      BY <2>4
    <3>3. Delivered(FALSE, game)
      BY <1>1, <2>1, <2>4, <3>1, <3>2, WrittenFollows DEF Delivered
    <3> QED BY <3>3
  <2> QED BY <1>5, <2>2, <2>3, <2>4 DEF LandUnheard
<1>6. CASE Fail
  <2>1. Decided /\ Done(Head1, FALSE, game) /\ durable' = durable /\ behind' = behind
    BY <1>6 DEF Fail
  <2>2. faults' \in Nat
    BY <1>1, <1>6 DEF Fail, Fault
  <2>3. Delivered(FALSE, game)
    BY <1>1, <2>1, <2>2, WrittenFollows DEF Delivered
  <2> QED BY <2>3
<1> QED BY <1>2, <1>3, <1>4, <1>5, <1>6

LEMMA DeliveryIsTyped ==
    ASSUME TypeOK, NEW ok, NEW g, Delivered(ok, g)
    PROVE  TypeOK'
<1>1. queue \in Seq(Task) /\ queue # << >> /\ Done(Head1, ok, g) /\ g \in Game
  BY DEF Delivered, TypeOK
<1>2. Head1 \in Task /\ queue' \in Seq(Task)
  BY <1>1, TailFacts DEF Done, Head1
<1>3. game' \in Game /\ durable' \in Game /\ behind' \in BOOLEAN /\ faults' \in Nat
      /\ due' = due /\ conn' = conn /\ last' = last
  BY DEF Delivered, Done, sessionVars
<1>4. decision' \in [stage : {"none", "pass", "write"}, game : Game]
  BY <1>1, FreshIsGame DEF Done, Undecided
<1>5. reveal' \in {"off", "armed", "waiting"} /\ recovery' \in {"off", "armed", "waiting"}
  BY <1>1 DEF Done, TypeOK, RevealAfter, RecoveryAfter
<1>6. clock' \in BOOLEAN
  BY <1>1 DEF Done
<1>7. ending' \subseteq [kind : {"resign", "expire"}, who : Human]
  BY <1>1 DEF Done, EndingAfter, TypeOK
<1>8. expiry' \in [Human -> {"none", "grace", "retry"}]
  BY <1>1 DEF Done, ExpiryAfter, TypeOK
<1>9. busy' \in [Colour -> GameCommand \cup {"resign", "none"}]
  BY <1>1 DEF Done, TypeOK
<1> QED BY <1>2, <1>3, <1>4, <1>5, <1>6, <1>7, <1>8, <1>9 DEF TypeOK

LEMMA DeliveryKeepsTheQueue ==
    ASSUME TypeOK, QueueIsSigned, EndingIsQueued, NEW ok, NEW g, Delivered(ok, g)
    PROVE  QueueIsSigned' /\ EndingIsQueued'
<1>1. /\ queue \in Seq(Task) /\ queue # << >> /\ queue' = Tail(queue)
      /\ game' = g /\ (g.paused => game.paused) /\ ending' = EndingAfter(Head1, ok)
  BY DEF Delivered, TypeOK, Done, Follows
<1>2. /\ Head1 = queue[1] /\ Len(queue) \in Nat /\ Len(queue) >= 1
      /\ Len(queue') = Len(queue) - 1
      /\ \A i \in 1..Len(queue') : queue'[i] = queue[i + 1]
  BY <1>1, TailFacts DEF Head1
<1>3. \A i \in 1..Len(queue') : i + 1 \in 1..Len(queue)
  BY <1>2
<1>4. QueueIsSigned'
  <2>1. ASSUME NEW i \in 1..Len(queue')
        PROVE  Signed(queue'[i]) /\ (queue'[i].kind = "expire" => ~game'.paused)
    BY <1>1, <1>2, <1>3 DEF QueueIsSigned
  <2> QED BY <2>1 DEF QueueIsSigned, Signed
<1>5. EndingIsQueued'
  <2>1. CASE IsEnding(Head1)
    <3>1. ending # {} /\ ending' = {}
      BY <1>1, <1>2, <2>1 DEF EndingIsQueued, EndingAfter
    <3>2. PICK i \in 1..Len(queue) : \A j \in 1..Len(queue) : IsEnding(queue[j]) => j = i
      BY <3>1 DEF EndingIsQueued
    <3>3. i = 1
      BY <1>2, <2>1, <3>2
    <3>4. \A j \in 1..Len(queue') : ~IsEnding(queue'[j])
      BY <1>2, <1>3, <3>2, <3>3
    <3> QED BY <3>1, <3>4 DEF EndingIsQueued
  <2>2. CASE ~IsEnding(Head1)
    <3>1. ending' = ending
      BY <1>1, <2>2 DEF EndingAfter
    <3>2. CASE ending = {}
      BY <1>2, <1>3, <3>1, <3>2 DEF EndingIsQueued
    <3>3. CASE ending # {}
      <4>1. PICK i \in 1..Len(queue) :
               IsEnding(queue[i]) /\ \A j \in 1..Len(queue) : IsEnding(queue[j]) => j = i
        BY <3>3 DEF EndingIsQueued
      <4>2. i # 1
        BY <1>2, <2>2, <4>1
      <4>3. i - 1 \in 1..Len(queue') /\ queue'[i - 1] = queue[i]
        BY <1>2, <4>1, <4>2
      <4>4. \A j \in 1..Len(queue') : IsEnding(queue'[j]) => j = i - 1
        BY <1>2, <1>3, <4>1
      <4> QED BY <3>1, <3>3, <4>1, <4>3, <4>4 DEF EndingIsQueued
    <3> QED BY <3>2, <3>3
  <2> QED BY <2>1, <2>2
<1> QED BY <1>4, <1>5

LEMMA DeliveryKeepsTheCopies ==
    ASSUME TypeOK, CopiesFollow, TimersAreSet, NEW ok, NEW g, Delivered(ok, g)
    PROVE  CopiesFollow' /\ TimersAreSet'
<1>1. /\ game' = g /\ decision' = Undecided /\ Follows(game, g)
      /\ reveal' = RevealAfter(Head1, g) /\ recovery' = RecoveryAfter(Head1, g)
  BY DEF Delivered, Done
<1>2. CopiesFollow'
  <2>1. decision'.stage = "none"
    BY <1>1 DEF Undecided
  <2>2. /\ ~behind' => game' = durable'
        /\ Follows(game', durable') /\ Sober(game') /\ Sober(durable')
    BY <1>1 DEF Delivered
  <2>3. (decision.stage = "none" => decision = Undecided)'
    BY <1>1
  <2> QED BY <2>1, <2>2, <2>3 DEF CopiesFollow, Follows, Sober, Begun
<1>3. reveal' = "off" => Begun(g)
  BY <1>1 DEF RevealAfter, Begun, TimersAreSet, Follows
<1>4. recovery' = "off" => ~Pausing(g)
  BY <1>1 DEF RecoveryAfter, Pausing, TimersAreSet, Follows
<1> QED BY <1>1, <1>2, <1>3, <1>4 DEF TimersAreSet

LEMMA DeliveryKeepsIInv ==
    ASSUME IInv, NEW ok, NEW g, Delivered(ok, g)
    PROVE  IInv'
BY DeliveryIsTyped, DeliveryKeepsTheQueue, DeliveryKeepsTheCopies DEF IInv

------------------------------------------------------------------------------
(* Deciding *)

LEMMA HeadIsSigned ==
    ASSUME TypeOK, QueueIsSigned, queue # << >>
    PROVE  Head1 \in Task /\ Signed(Head1) /\ (Head1.kind = "expire" => ~game.paused)
<1>1. queue \in Seq(Task)
  BY DEF TypeOK
<1>2. Head1 \in Task /\ Head1 = queue[1] /\ 1 \in 1..Len(queue)
  BY <1>1, TailFacts DEF Head1
<1> QED BY <1>2 DEF QueueIsSigned

LEMMA DecisionKeepsIInv ==
    ASSUME IInv, Decide \/ Pass
    PROVE  IInv'
<1>1. /\ queue # << >> /\ ~behind /\ ~game.over
      /\ game' = game /\ durable' = durable /\ behind' = behind /\ due' = due
      /\ conn' = conn /\ last' = last /\ ending' = ending /\ expiry' = expiry
      /\ queue' = queue /\ reveal' = reveal /\ recovery' = recovery /\ clock' = clock
      /\ busy' = busy /\ faults' = faults
  BY DEF Decide, Pass, Open, AtHead, roomVars, sessionVars, endVars, timerVars
<1>2. /\ decision' = [stage |-> decision'.stage, game |-> decision'.game]
      /\ decision'.stage \in {"pass", "write"} /\ decision'.game \in Game
      /\ decision'.stage = "write" => Follows(game, decision'.game) /\ Sober(decision'.game)
  <2>1. CASE Decide
    <3>1. PICK d \in Drafts(Head1) : decision' = [stage |-> "write", game |-> d]
      BY <2>1 DEF Decide
    <3>2. Head1 \in Task /\ Signed(Head1) /\ game \in Game /\ Sober(game)
      BY <1>1, HeadIsSigned DEF IInv, TypeOK, CopiesFollow
    <3>3. d \in Game /\ Follows(game, d) /\ Sober(d)
      BY <1>1, <3>2, DraftFollows
    <3> QED BY <3>1, <3>3
  <2>2. CASE Pass
    BY <2>2 DEF Pass, IInv, TypeOK
  <2> QED BY <2>1, <2>2
<1>3. TypeOK'
  <2>1. decision' \in [stage : {"none", "pass", "write"}, game : Game]
    BY <1>2
  <2> QED BY <1>1, <2>1 DEF IInv, TypeOK
<1>4. CopiesFollow'
  BY <1>1, <1>2 DEF IInv, CopiesFollow, Follows, Sober, Begun
<1>5. QueueIsSigned' /\ TimersAreSet' /\ EndingIsQueued'
  BY <1>1 DEF IInv, QueueIsSigned, TimersAreSet, EndingIsQueued, Begun, Pausing
<1> QED BY <1>3, <1>4, <1>5 DEF IInv

------------------------------------------------------------------------------
(* Players and timers *)

\* They leave the three copies alone.
LEMMA RoomStays ==
    ASSUME CopiesFollow, game' = game, durable' = durable, behind' = behind,
           decision' = decision, queue # << >> => queue' # << >>
    PROVE  CopiesFollow'
BY DEF CopiesFollow, Follows, Sober, Begun

\* A step that queues a task which is no ending.
LEMMA TaskQueued ==
    ASSUME IInv, NEW t \in Task, Signed(t), ~IsEnding(t), Enqueue(t),
           UNCHANGED <<roomVars, due, sessionVars, endVars, decision, faults>>,
           reveal' \in {"armed", "waiting"} \/ reveal' = reveal,
           recovery' \in {"armed", "waiting"} \/ recovery' = recovery,
           clock' \in BOOLEAN,
           busy' \in [Colour -> GameCommand \cup {"resign", "none"}]
    PROVE  IInv'
<1>1. /\ queue' = Append(queue, t) /\ game' = game /\ durable' = durable /\ behind' = behind
      /\ due' = due /\ conn' = conn /\ last' = last /\ ending' = ending /\ expiry' = expiry
      /\ decision' = decision /\ faults' = faults
  BY DEF Enqueue, roomVars, sessionVars, endVars
<1>2. queue \in Seq(Task) /\ t.kind # "expire"
  BY DEF IInv, TypeOK, IsEnding
<1>3. queue' \in Seq(Task) /\ queue' # << >>
  BY <1>1, <1>2, AppendFacts
<1>4. TypeOK'
  <2>1. reveal' \in {"off", "armed", "waiting"} /\ recovery' \in {"off", "armed", "waiting"}
    BY DEF IInv, TypeOK
  <2> QED BY <1>1, <1>3, <2>1 DEF IInv, TypeOK
<1>5. QueueIsSigned' /\ EndingIsQueued'
  BY <1>1, <1>2, AppendIsSigned, QuietPush DEF IInv
<1>6. CopiesFollow'
  BY <1>1, <1>3, RoomStays DEF IInv
<1>7. TimersAreSet'
  BY <1>1 DEF IInv, TimersAreSet, Begun, Pausing
<1> QED BY <1>4, <1>5, <1>6, <1>7 DEF IInv

LEMMA ServerTaskIsTask ==
    ASSUME NEW k \in {"begin", "recover", "clock"}
    PROVE  ServerTask(k) \in Task /\ Signed(ServerTask(k)) /\ ~IsEnding(ServerTask(k))
BY DEF ServerTask, Task, Signed, IsEnding

\* A step that joins the ending of the game, or starts it.
LEMMA EndingJoined ==
    ASSUME IInv, NEW t \in Task, Signed(t), IsEnding(t), t.kind = "expire" => ~game.paused,
           JoinEnding(t), UNCHANGED <<roomVars, due, conn, last, decision, timerVars, faults>>,
           expiry' \in [Human -> {"none", "grace", "retry"}],
           busy' \in [Colour -> GameCommand \cup {"resign", "none"}]
    PROVE  IInv'
<1>1. /\ game' = game /\ durable' = durable /\ behind' = behind
      /\ due' = due /\ conn' = conn /\ last' = last /\ decision' = decision /\ faults' = faults
      /\ reveal' = reveal /\ recovery' = recovery /\ clock' = clock
  BY DEF roomVars, timerVars
<1>2. /\ QueueIsSigned' /\ queue' \in Seq(Task)
      /\ queue # << >> => queue' # << >>
      /\ ending' \subseteq [kind : {"resign", "expire"}, who : Human]
  BY <1>1, JoinFacts DEF IInv
<1>3. TypeOK'
  BY <1>1, <1>2 DEF IInv, TypeOK
<1>4. EndingIsQueued'
  BY JoinKeepsEnding DEF IInv
<1>5. CopiesFollow'
  BY <1>1, <1>2, RoomStays DEF IInv
<1>6. TimersAreSet'
  BY <1>1 DEF IInv, TimersAreSet, Begun, Pausing
<1> QED BY <1>2, <1>3, <1>4, <1>5, <1>6 DEF IInv

\* A step of a connection or a timer that queues nothing.
LEMMA NothingQueued ==
    ASSUME IInv, UNCHANGED <<roomVars, queue, decision, ending, timerVars, faults>>,
           due' \in BOOLEAN, conn' \in [Human -> Nat], last' \in [Human -> Nat],
           expiry' \in [Human -> {"none", "grace", "retry"}],
           busy' \in [Colour -> GameCommand \cup {"resign", "none"}]
    PROVE  IInv'
<1>1. /\ game' = game /\ durable' = durable /\ behind' = behind
      /\ queue' = queue /\ decision' = decision /\ ending' = ending /\ faults' = faults
      /\ reveal' = reveal /\ recovery' = recovery /\ clock' = clock
  BY DEF roomVars, timerVars
<1>2. TypeOK'
  BY <1>1 DEF IInv, TypeOK
<1>3. CopiesFollow'
  BY <1>1, RoomStays DEF IInv
<1>4. QueueIsSigned' /\ TimersAreSet' /\ EndingIsQueued'
  BY <1>1 DEF IInv, QueueIsSigned, TimersAreSet, EndingIsQueued, Begun, Pausing
<1> QED BY <1>2, <1>3, <1>4 DEF IInv

LEMMA PlayerKeepsIInv ==
    ASSUME IInv, NEW h \in Human, HumanStep(h)
    PROVE  IInv'
<1>0. /\ conn \in [Human -> Nat] /\ last \in [Human -> Nat] /\ due \in BOOLEAN
      /\ expiry \in [Human -> {"none", "grace", "retry"}] /\ clock \in BOOLEAN
      /\ busy \in [Colour -> GameCommand \cup {"resign", "none"}]
      /\ h \in Colour
  BY HumanAssumption DEF IInv, TypeOK
<1>1. CASE Resign(h)
  <2> DEFINE t == [kind |-> "resign", who |-> h, conn |-> conn[h]]
  <2>1. t \in Task /\ Signed(t) /\ IsEnding(t) /\ t.kind # "expire"
    BY <1>0 DEF Task, Signed, IsEnding
  <2>2. /\ JoinEnding(t) /\ busy' = [busy EXCEPT ![h] = "resign"] /\ expiry' = expiry
        /\ UNCHANGED <<roomVars, due, conn, last, decision, timerVars, faults>>
    BY <1>1 DEF Resign, sessionVars
  <2>3. busy' \in [Colour -> GameCommand \cup {"resign", "none"}]
    BY <1>0, <2>2
  <2> HIDE DEF t
  <2> QED BY <1>0, <2>1, <2>2, <2>3, EndingJoined
<1>2. CASE ExpiryFires(h)
  <2>1. /\ expiry' \in [Human -> {"none", "grace", "retry"}] /\ busy' = busy
        /\ due' = due /\ conn' = conn /\ last' = last
        /\ UNCHANGED <<roomVars, due, conn, last, decision, timerVars, faults>>
    BY <1>0, <1>2 DEF ExpiryFires
  <2>2. CASE game.paused \/ game.over
    <3>1. UNCHANGED <<ending, queue>>
      BY <1>2, <2>2 DEF ExpiryFires
    <3> QED BY <1>0, <2>1, <3>1, NothingQueued
  <2>3. CASE ~(game.paused \/ game.over)
    <3> DEFINE t == [kind |-> "expire", who |-> h, conn |-> 0]
    <3>1. t \in Task /\ Signed(t) /\ IsEnding(t)
      BY <1>0 DEF Task, Signed, IsEnding
    <3>2. JoinEnding(t) /\ ~game.paused
      BY <1>2, <2>3 DEF ExpiryFires
    <3> HIDE DEF t
    <3> QED BY <1>0, <2>1, <3>1, <3>2, EndingJoined
  <2> QED BY <2>2, <2>3
<1>3. CASE Connect(h)
  <2>1. /\ last' = [last EXCEPT ![h] = @ + 1] /\ conn' = [conn EXCEPT ![h] = last[h] + 1]
        /\ expiry' = [expiry EXCEPT ![h] = "none"] /\ due' = due /\ busy' = busy
        /\ UNCHANGED <<roomVars, queue, decision, ending, timerVars, faults>>
    BY <1>3 DEF Connect
  <2>2. /\ last' \in [Human -> Nat] /\ conn' \in [Human -> Nat]
        /\ expiry' \in [Human -> {"none", "grace", "retry"}]
    BY <1>0, <2>1
  <2> QED BY <1>0, <2>1, <2>2, NothingQueued
<1>4. CASE Disconnect(h)
  <2>1. /\ last' = last /\ conn' = [conn EXCEPT ![h] = 0]
        /\ expiry' = [expiry EXCEPT ![h] = "grace"] /\ due' = due /\ busy' = busy
        /\ UNCHANGED <<roomVars, queue, decision, ending, timerVars, faults>>
    BY <1>4 DEF Disconnect
  <2>2. /\ last' \in [Human -> Nat] /\ conn' \in [Human -> Nat]
        /\ expiry' \in [Human -> {"none", "grace", "retry"}]
    BY <1>0, <2>1
  <2> QED BY <1>0, <2>1, <2>2, NothingQueued
<1>5. ASSUME NEW k \in Commands, Command(h, k) PROVE IInv'
  <2> DEFINE t == [kind |-> k, who |-> h, conn |-> conn[h]]
  <2>1. t \in Task /\ Signed(t) /\ ~IsEnding(t)
    BY <1>0, CommandsAssumption DEF Task, Signed, IsEnding, GameCommand
  <2>2. /\ Enqueue(t) /\ busy' = [busy EXCEPT ![h] = k]
        /\ reveal' = reveal /\ recovery' = recovery /\ clock' = clock
        /\ UNCHANGED <<roomVars, due, sessionVars, endVars, decision, faults>>
    BY <1>5 DEF Command, timerVars
  <2>3. busy' \in [Colour -> GameCommand \cup {"resign", "none"}]
    BY <1>0, <2>2, CommandsAssumption
  <2> HIDE DEF t
  <2> QED BY <1>0, <2>1, <2>2, <2>3, TaskQueued
<1> QED BY <1>1, <1>2, <1>3, <1>4, <1>5 DEF HumanStep

LEMMA ServerKeepsIInv ==
    ASSUME IInv, Timer \/ \E c \in Colour \ Human : BotMove(c)
    PROVE  IInv'
<1>0. /\ conn \in [Human -> Nat] /\ last \in [Human -> Nat] /\ due \in BOOLEAN
      /\ expiry \in [Human -> {"none", "grace", "retry"}] /\ clock \in BOOLEAN
      /\ busy \in [Colour -> GameCommand \cup {"resign", "none"}]
  BY DEF IInv, TypeOK
<1>1. CASE Tick
  <2>1. /\ Enqueue(ServerTask("clock")) /\ clock' = TRUE /\ busy' = busy
        /\ reveal' = reveal /\ recovery' = recovery
        /\ UNCHANGED <<roomVars, due, sessionVars, endVars, decision, faults>>
    BY <1>1 DEF Tick
  <2>2. /\ ServerTask("clock") \in Task /\ Signed(ServerTask("clock"))
        /\ ~IsEnding(ServerTask("clock"))
    BY ServerTaskIsTask
  <2>3. clock' \in BOOLEAN
    BY <2>1
  <2> QED BY <1>0, <2>1, <2>2, <2>3, TaskQueued
<1>2. CASE RevealFires
  <2>1. /\ Enqueue(ServerTask("begin")) /\ clock' = clock /\ busy' = busy
        /\ reveal' = "waiting" /\ recovery' = recovery
        /\ UNCHANGED <<roomVars, due, sessionVars, endVars, decision, faults>>
    BY <1>2 DEF RevealFires
  <2>2. /\ ServerTask("begin") \in Task /\ Signed(ServerTask("begin"))
        /\ ~IsEnding(ServerTask("begin"))
    BY ServerTaskIsTask
  <2> QED BY <1>0, <2>1, <2>2, TaskQueued
<1>3. CASE RecoveryFires
  <2>1. /\ Enqueue(ServerTask("recover")) /\ clock' = clock /\ busy' = busy
        /\ reveal' = reveal /\ recovery' = "waiting"
        /\ UNCHANGED <<roomVars, due, sessionVars, endVars, decision, faults>>
    BY <1>3 DEF RecoveryFires
  <2>2. /\ ServerTask("recover") \in Task /\ Signed(ServerTask("recover"))
        /\ ~IsEnding(ServerTask("recover"))
    BY ServerTaskIsTask
  <2> QED BY <1>0, <2>1, <2>2, TaskQueued
<1>4. CASE DeadlinePasses
  <2>1. /\ due' = TRUE /\ conn' = conn /\ last' = last /\ expiry' = expiry /\ busy' = busy
        /\ UNCHANGED <<roomVars, queue, decision, ending, timerVars, faults>>
    BY <1>4 DEF DeadlinePasses, sessionVars, endVars
  <2>2. due' \in BOOLEAN
    BY <2>1
  <2> QED BY <1>0, <2>1, <2>2, NothingQueued
<1>5. ASSUME NEW c \in Colour \ Human, BotMove(c) PROVE IInv'
  <2> DEFINE t == [kind |-> "play", who |-> c, conn |-> 0]
  <2>1. t \in Task /\ Signed(t) /\ ~IsEnding(t)
    BY DEF Task, Signed, IsEnding, GameCommand
  <2>2. /\ Enqueue(t) /\ busy' = [busy EXCEPT ![c] = "play"]
        /\ reveal' = reveal /\ recovery' = recovery /\ clock' = clock
        /\ UNCHANGED <<roomVars, due, sessionVars, endVars, decision, faults>>
    BY <1>5 DEF BotMove, timerVars
  <2>3. busy' \in [Colour -> GameCommand \cup {"resign", "none"}]
    BY <1>0, <2>2 DEF GameCommand
  <2> HIDE DEF t
  <2> QED BY <1>0, <2>1, <2>2, <2>3, TaskQueued
<1> QED BY <1>1, <1>2, <1>3, <1>4, <1>5 DEF Timer

------------------------------------------------------------------------------
(* Every reachable state *)

LEMMA InitIsInvariant == ASSUME Init PROVE IInv
<1>1. PICK b \in Beginnings, here \in SUBSET Human, started \in BOOLEAN, offer \in Human \cup {"none"} :
         /\ b = "restored" => here = {}
         /\ b = "fresh" => ~started
         /\ ~started => offer = "none"
         /\ game = [Fresh EXCEPT !.paused = (b = "restored"), !.started = started, !.offer = offer]
         /\ conn = [h \in Human |-> IF h \in here THEN 1 ELSE 0]
         /\ expiry = [h \in Human |-> IF b = "fresh" /\ h \notin here THEN "grace" ELSE "none"]
         /\ reveal = IF b = "fresh" THEN "armed" ELSE "off"
         /\ recovery = IF b = "fresh" THEN "off" ELSE "armed"
  BY DEF Init
<1>2. b \in {"fresh", "restored"} /\ offer \in Colour \cup {"none"}
  BY BeginningsAssumption, HumanAssumption
<1>3. /\ game \in Game /\ game.paused = (b = "restored") /\ ~game.over
      /\ game.reason = "none" /\ game.winner = "none"
  <2>1. Fresh \in Game /\ ~Fresh.over /\ Fresh.reason = "none" /\ Fresh.winner = "none"
    BY FreshIsGame DEF Fresh
  <2> QED BY <1>1, <1>2, <2>1 DEF Game
<1>4. /\ last = conn /\ durable = game /\ behind = FALSE /\ due = FALSE /\ queue = << >>
      /\ decision = Undecided /\ ending = {} /\ clock = FALSE
      /\ busy = [c \in Colour |-> "none"] /\ faults = 0
  BY DEF Init
<1>5. TypeOK
  <2>1. decision \in [stage : {"none", "pass", "write"}, game : Game]
    BY <1>4, FreshIsGame DEF Undecided
  <2>2. /\ conn \in [Human -> Nat] /\ expiry \in [Human -> {"none", "grace", "retry"}]
        /\ reveal \in {"off", "armed", "waiting"} /\ recovery \in {"off", "armed", "waiting"}
    BY <1>1
  <2>3. queue \in Seq(Task) /\ busy \in [Colour -> GameCommand \cup {"resign", "none"}]
    BY <1>4
  <2> QED BY <1>3, <1>4, <2>1, <2>2, <2>3 DEF TypeOK
<1>6. Len(queue) = 0
  BY <1>4
<1>7. QueueIsSigned /\ EndingIsQueued
  BY <1>4, <1>6 DEF QueueIsSigned, EndingIsQueued
<1>8. CopiesFollow
  BY <1>3, <1>4, FollowsIsReflexive DEF CopiesFollow, Sober, Undecided
<1>9. TimersAreSet
  BY <1>1, <1>2, <1>3 DEF TimersAreSet, Begun, Pausing
<1> QED BY <1>5, <1>7, <1>8, <1>9 DEF IInv

LEMMA NextKeepsIInv == ASSUME IInv, [Next]_vars PROVE IInv'
<1>1. CASE Decide \/ Pass
  BY <1>1, DecisionKeepsIInv
<1>2. CASE Refuse \/ Conflict \/ Land \/ LandUnheard \/ Fail
  BY <1>2, ServeDelivers, DeliveryKeepsIInv DEF IInv
<1>3. CASE Timer \/ \E c \in Colour \ Human : BotMove(c)
  BY <1>3, ServerKeepsIInv
<1>4. ASSUME NEW h \in Human, HumanStep(h) PROVE IInv'
  BY <1>4, PlayerKeepsIInv
<1>5. CASE UNCHANGED vars
  <2>1. /\ UNCHANGED <<roomVars, queue, decision, ending, timerVars, faults>>
        /\ due' = due /\ conn' = conn /\ last' = last /\ expiry' = expiry /\ busy' = busy
    BY <1>5 DEF vars, roomVars, timerVars
  <2> QED BY <2>1, NothingQueued DEF IInv, TypeOK
<1> QED BY <1>1, <1>2, <1>3, <1>4, <1>5 DEF Next, Serve

LEMMA Invariance == Spec => []IInv
BY InitIsInvariant, NextKeepsIInv, PTL DEF Spec

\* Every reachable state is well typed.
THEOREM LifecycleTypes == Spec => []TypeOK
<1>1. IInv => TypeOK
  BY DEF IInv
<1> QED BY <1>1, Invariance, PTL

\* No failed, lost or overtaken commit leaves a game that has not begun without its
\* reveal timer, or a paused one without its recovery timer.  (RevealAfter, RecoveryAfter)
THEOREM NoGameIsLeftWaiting == Spec => []NothingIsLeftWaiting
<1>1. IInv => NothingIsLeftWaiting
  BY DEF IInv, TimersAreSet, NothingIsLeftWaiting, Begun, Pausing
<1> QED BY <1>1, Invariance, PTL

\* An ending is promised exactly while one commit of the queue will settle it.
\* (GameRoom.endGame)
THEOREM EndingsAreQueued == Spec => []OneEndingAtATime
<1>1. ASSUME IInv PROVE OneEndingAtATime
  <2>1. queue \in Seq(Task)
    BY <1>1 DEF IInv, TypeOK
  <2>2. DOMAIN queue = 1..Len(queue)
    BY <2>1
  <2>3. CASE ending = {}
    BY <1>1, <2>2, <2>3 DEF IInv, EndingIsQueued, OneEndingAtATime
  <2>4. CASE ending # {}
    <3>1. PICK i \in 1..Len(queue) :
             IsEnding(queue[i]) /\ \A j \in 1..Len(queue) : IsEnding(queue[j]) => j = i
      BY <1>1, <2>4 DEF IInv, EndingIsQueued
    <3>2. {j \in DOMAIN queue : IsEnding(queue[j])} = {i}
      BY <2>2, <3>1
    <3>3. Cardinality({i}) = 1
      BY FS_Singleton
    <3> QED BY <2>4, <3>2, <3>3 DEF OneEndingAtATime
  <2> QED BY <2>3, <2>4
<1> QED BY <1>1, Invariance, PTL

------------------------------------------------------------------------------
(* What the head of the queue may decide *)

LEMMA DecidingIsDecide ==
    ASSUME IInv, [Next]_vars, Deciding
    PROVE  /\ ~game.over /\ ~MustRefuse(Head1) /\ Head1 \in Task /\ Signed(Head1)
           /\ Head1.kind = "expire" => ~game.paused
           /\ Drawn \in Drafts(Head1)
<1>1. decision'.stage = "write" /\ decision' # decision
  BY DEF Deciding
<1>2. CASE Decide
  <2>1. PICK d \in Drafts(Head1) : decision' = [stage |-> "write", game |-> d]
    BY <1>2 DEF Decide
  <2>2. Drawn \in Drafts(Head1)
    BY <2>1 DEF Drawn
  <2>3. queue # << >> /\ ~game.over /\ ~MustRefuse(Head1)
    BY <1>2 DEF Decide, Open, AtHead
  <2> QED BY <2>2, <2>3, HeadIsSigned DEF IInv
<1>3. CASE Pass
  BY <1>1, <1>3 DEF Pass
<1>4. CASE Refuse \/ Conflict \/ Land \/ LandUnheard \/ Fail
  <2>1. PICK ok, g : Delivered(ok, g)
    BY <1>4, ServeDelivers DEF IInv
  <2>2. decision' = Undecided
    BY <2>1 DEF Delivered, Done
  <2> QED BY <1>1, <2>2 DEF Undecided
<1>5. CASE Timer
  BY <1>1, <1>5 DEF Timer, Tick, RevealFires, DeadlinePasses, RecoveryFires
<1>6. ASSUME NEW h \in Human, HumanStep(h) PROVE FALSE
  BY <1>1, <1>6 DEF HumanStep, Resign, ExpiryFires, Connect, Disconnect, Command
<1>7. ASSUME NEW c \in Colour \ Human, BotMove(c) PROVE FALSE
  BY <1>1, <1>7 DEF BotMove
<1>8. CASE UNCHANGED vars
  BY <1>1, <1>8 DEF vars
<1> QED BY <1>2, <1>3, <1>4, <1>5, <1>6, <1>7, <1>8 DEF Next, Serve

\* During the pause a game can be resigned, or the restart decision taken.
LEMMA PausedDraft ==
    ASSUME NEW t \in Task, Signed(t), game \in Game, ~game.over, Sober(game), game.paused,
           t.kind # "expire", ~MustRefuse(t), NEW d \in Drafts(t)
    PROVE  \/ d.paused /\ (d.over => d.reason = "resign")
           \/ d.over /\ d \in Evaluated(game)
           \/ /\ ~d.over /\ d.started
              /\ {h \in Human : conn[h] # 0 /\ d.ready[h] = conn[h]} = Human
<1>0. t.kind \notin {"offer", "accept", "decline", "play"}
  BY DEF MustRefuse
<1>1. CASE t.kind \in {"acknowledge", "begin"}
  BY <1>1 DEF Drafts, Acknowledged
<1>2. CASE t.kind = "ready"
  <2>1. t.who \in Human /\ d \in Readied(game, t)
    BY <1>2 DEF Drafts, Signed
  <2> QED BY <2>1, ReadiedIsGame
<1>3. CASE t.kind = "recover"
  <2>1. d \in Evaluated(game)
    BY <1>3 DEF Drafts
  <2>2. ~d.over => Present(game) = Human /\ d.started /\ d.ready = game.ready
    BY <2>1, EvaluatedIsGame
  <2> QED BY <2>1, <2>2 DEF Present
<1>4. CASE t.kind = "clock"
  <2>1. d = game \/ d \in TimeUp(game)
    BY <1>4 DEF Drafts
  <2> QED BY <2>1 DEF TimeUp
<1>5. CASE t.kind = "resign"
  <2>1. d = EndIn(game, Other(t.who), "resign") \/ d \in TimeUp(game)
    BY <1>5 DEF Drafts
  <2>2. d = EndIn(game, Other(t.who), "resign")
    BY <2>1 DEF TimeUp
  <2>3. Other(t.who) \in Winner /\ "resign" \in Reason
    BY OtherIsColour DEF Reason, Winner
  <2> QED BY <2>2, <2>3, EndInIsGame
<1> QED BY <1>0, <1>1, <1>2, <1>3, <1>4, <1>5 DEF Task, GameCommand

\* Only an expiry forfeits a game, and only for a player without a connection.
LEMMA ForfeitDraft ==
    ASSUME NEW t \in Task, Signed(t), game \in Game, ~game.over, Sober(game),
           NEW d \in Drafts(t), d.reason = "disconnect"
    PROVE  t.kind = "expire" /\ d.winner = Other(t.who) /\ conn[t.who] = 0
<1>0. game.reason = "none" /\ d.over
  BY DraftFollows DEF Sober
<1>1. CASE t.kind = "acknowledge"
  <2>1. d = [game EXCEPT !.acks = @ \cup {t.who}, !.started = (game.acks \cup {t.who} = Colour)]
    BY <1>1 DEF Drafts, Acknowledged
  <2>2. d.over = game.over
    BY <2>1 DEF Game
  <2> QED BY <1>0, <2>2
<1>2. CASE t.kind = "begin"
  <2>1. d = [game EXCEPT !.started = TRUE]
    BY <1>2 DEF Drafts
  <2>2. d.over = game.over
    BY <2>1 DEF Game
  <2> QED BY <1>0, <2>2
<1>3. CASE t.kind \in {"ready", "recover"}
  <2>1. d \in Evaluated(game)
    BY <1>0, <1>3, ReadiedIsGame DEF Drafts, Signed
  <2> QED BY <1>0, <2>1, EvaluatedIsGame
<1>4. CASE t.kind = "clock"
  <2>1. d = game \/ d \in TimeUp(game)
    BY <1>4 DEF Drafts
  <2> QED BY <1>0, <2>1, TimeUpIsGame
<1>5. CASE t.kind = "resign"
  <2>1. d = EndIn(game, Other(t.who), "resign") \/ d \in TimeUp(game)
    BY <1>5 DEF Drafts
  <2>2. Other(t.who) \in Winner /\ "resign" \in Reason
    BY OtherIsColour DEF Reason, Winner
  <2> QED BY <2>1, <2>2, EndInIsGame, TimeUpIsGame
<1>6. CASE t.kind = "expire"
  <2>1. d = EndIn(game, Other(t.who), "disconnect") \/ d \in TimeUp(game)
    BY <1>6 DEF Drafts
  <2>2. conn[t.who] = 0
    BY <1>6 DEF Drafts, StillDisconnected
  <2>3. Other(t.who) \in Winner /\ "disconnect" \in Reason
    BY OtherIsColour DEF Reason, Winner
  <2> QED BY <1>6, <2>1, <2>2, <2>3, EndInIsGame, TimeUpIsGame
<1>7. CASE t.kind = "offer"
  <2>1. d = [game EXCEPT !.offer = t.who] \/ d \in TimeUp(game)
    BY <1>7 DEF Drafts
  <2>2. CASE d = [game EXCEPT !.offer = t.who]
    BY <1>0, <2>2 DEF Game
  <2> QED BY <2>1, <2>2, TimeUpIsGame
<1>8. CASE t.kind \in {"accept", "decline"}
  <2>1. \/ d = EndIn(game, "none", "draw-agreement") \/ d = [game EXCEPT !.offer = "none"]
        \/ d \in TimeUp(game)
    BY <1>8 DEF Drafts, Answered
  <2>2. CASE d = [game EXCEPT !.offer = "none"]
    BY <1>0, <2>2 DEF Game
  <2>3. "draw-agreement" \in Reason
    BY DEF Reason
  <2> QED BY <2>1, <2>2, <2>3, NobodyWins, TimeUpIsGame
<1>9. CASE t.kind = "play"
  <2>1. \/ d = game \/ d = EndIn(game, t.who, "play") \/ d = EndIn(game, "none", "play")
        \/ d \in TimeUp(game)
    BY <1>9 DEF Drafts
  <2>2. t.who \in Winner /\ "play" \in Reason
    BY <1>9 DEF Reason, Winner, Signed
  <2> QED BY <1>0, <2>1, <2>2, EndInIsGame, NobodyWins, TimeUpIsGame
<1> QED BY <1>1, <1>2, <1>3, <1>4, <1>5, <1>6, <1>7, <1>8, <1>9 DEF Task, GameCommand

------------------------------------------------------------------------------
(* The theorems about decisions *)

\* Neither the clock nor a move nor a draw ends a paused game.  (requireActivePlay,
\* recoveryDecision)
THEOREM PausedGamesStandStill == Spec => PausedGameStandsStill
<1> DEFINE A == Deciding /\ game.paused /\ Drawn.over =>
                   Drawn.reason \in {"resign", "restart-disconnect", "restart-abandoned"}
<1>1. ASSUME IInv, [Next]_vars PROVE A
  <2> SUFFICES ASSUME Deciding, game.paused, Drawn.over
               PROVE  Drawn.reason \in {"resign", "restart-disconnect", "restart-abandoned"}
    OBVIOUS
  <2>1. /\ ~game.over /\ ~MustRefuse(Head1) /\ Head1 \in Task /\ Signed(Head1)
        /\ Head1.kind # "expire" /\ Drawn \in Drafts(Head1) /\ game \in Game /\ Sober(game)
    BY <1>1, DecidingIsDecide DEF IInv, TypeOK, CopiesFollow
  <2>2. Drawn.reason = "resign" \/ Drawn \in Evaluated(game)
    BY <2>1, PausedDraft
  <2> QED BY <2>1, <2>2, EvaluatedIsGame
<1>2. ASSUME IInv, [Next]_vars PROVE [A]_vars
  BY <1>1, <1>2
<1> HIDE DEF A
<1>3. Spec => [][A]_vars
  BY <1>2, Invariance, PTL DEF Spec
<1> QED BY <1>3 DEF PausedGameStandsStill, A

\* A forfeit finds its player without a connection, and the game not paused.
\* (expireDisconnectedGame)
THEOREM OnlyAbsentPlayersForfeit == Spec => OnlyTheAbsentForfeit
<1> DEFINE A == \A h \in Human : Forfeits(h) => conn[h] = 0 /\ ~game.paused
<1>1. ASSUME IInv, [Next]_vars PROVE A
  <2> SUFFICES ASSUME NEW h \in Human, Deciding, Drawn.reason = "disconnect", Drawn.winner = Other(h)
               PROVE  conn[h] = 0 /\ ~game.paused
    BY DEF Forfeits
  <2>1. /\ ~game.over /\ Head1 \in Task /\ Signed(Head1)
        /\ Head1.kind = "expire" => ~game.paused
        /\ Drawn \in Drafts(Head1) /\ game \in Game /\ Sober(game)
    BY <1>1, DecidingIsDecide DEF IInv, TypeOK, CopiesFollow
  <2>2. Head1.kind = "expire" /\ Other(h) = Other(Head1.who) /\ conn[Head1.who] = 0
    BY <2>1, ForfeitDraft
  <2>3. h \in Colour /\ Head1.who \in Colour
    BY <2>1, <2>2, HumanAssumption DEF Signed
  <2>4. h = Head1.who
    BY <2>2, <2>3 DEF Other, Colour
  <2> QED BY <2>1, <2>2, <2>4
<1>2. ASSUME IInv, [Next]_vars PROVE [A]_vars
  BY <1>1, <1>2
<1> HIDE DEF A
<1>3. Spec => [][A]_vars
  BY <1>2, Invariance, PTL DEF Spec
<1> QED BY <1>3 DEF OnlyTheAbsentForfeit, A

\* The pause becomes a running game only with everybody's answer on the connection
\* they hold, and an outcome only after the deadline.  (recoveryDecision, readyRecovery)
THEOREM PausesEndFairly == Spec => PauseEndsFairly
<1> DEFINE A == Deciding /\ game.paused /\ ~Drawn.paused => FairEnd
<1>1. ASSUME IInv, [Next]_vars PROVE A
  <2> SUFFICES ASSUME Deciding, game.paused, ~Drawn.paused PROVE FairEnd
    OBVIOUS
  <2>1. /\ ~game.over /\ ~MustRefuse(Head1) /\ Head1 \in Task /\ Signed(Head1)
        /\ Head1.kind # "expire" /\ Drawn \in Drafts(Head1) /\ game \in Game /\ Sober(game)
    BY <1>1, DecidingIsDecide DEF IInv, TypeOK, CopiesFollow
  <2>2. CASE Drawn.over
    <3>1. Drawn \in Evaluated(game)
      BY <2>1, <2>2, PausedDraft
    <3>2. Answering(game) = Present(game)
      BY DEF Answering, Present
    <3> QED BY <2>1, <2>2, <3>1, <3>2, EvaluatedIsGame DEF FairEnd
  <2>3. CASE ~Drawn.over
    <3>1. Drawn.started /\ {h \in Human : conn[h] # 0 /\ Drawn.ready[h] = conn[h]} = Human
      BY <2>1, <2>3, PausedDraft
    <3> QED BY <2>3, <3>1 DEF FairEnd, Answering
  <2> QED BY <2>2, <2>3
<1>2. ASSUME IInv, [Next]_vars PROVE [A]_vars
  BY <1>1, <1>2
<1> HIDE DEF A
<1>3. Spec => [][A]_vars
  BY <1>2, Invariance, PTL DEF Spec
<1> QED BY <1>3 DEF PauseEndsFairly, A

\* Both together: whoever forfeits is away, and whoever a pause is decided for has
\* answered on the connection held now.  (expireDisconnectedGame, recoveryDecision)
THEOREM GamesEndFairly == Spec => EndingsAreFair
BY OnlyAbsentPlayersForfeit, PausesEndFairly DEF EndingsAreFair
==============================================================================
