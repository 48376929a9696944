------------------------------- MODULE PageProofs -------------------------------
(***************************************************************************)
(* What holds of one page of the browser in every reachable state, for any *)
(* accounts, links and bounds: of the puzzle's progress it keeps, of where *)
(* it is, of what it reads, of whose it is and of its chat.                *)
(***************************************************************************)
EXTENDS Navigation, PuzzleProgress, BrowserReads, Accounts, Chat, FiniteSetTheorems, SequenceTheorems, WellFoundedInduction, TLAPS

------------------------------------------------------------------------------
(* Puzzle progress: the inductive invariant *)

Progress == [solved: BOOLEAN, revealed: BOOLEAN, attempts: Nat, rewarded: BOOLEAN]
Row == [progress: Progress, confirmed: Progress, payload: Progress, synced: Progress]
Await == [scope: Scope, body: Progress, sent: BOOLEAN, answered: BOOLEAN, answer: Progress]
Stray == [scope: Scope, body: Progress]

ProgressTypes ==
    /\ visitor \in Scope /\ rows \in [Scope -> Row]
    /\ board \in [attempts: Nat, revealed: BOOLEAN, scope: Scope]
    /\ awaited \in Await /\ late \subseteq Stray
    /\ stored \in [Scope -> Progress] /\ puzzleCoins \in [Member -> Nat] /\ today \in BOOLEAN
    /\ claimed \subseteq Scope /\ elsewhere \subseteq Member

\* The server's record covers what was reported: it has it, or had been shown the solution.
Covers(r, p) ==
    /\ r.attempts >= p.attempts
    /\ p.solved => r.solved
    /\ p.revealed => r.revealed \/ r.solved

\* A record that has grown.
Grown(old, new) ==
    /\ new.attempts >= old.attempts
    /\ old.solved => new.solved
    /\ old.revealed => new.revealed

\* A record that answers a report: a solve may be refused because the solution was shown.
Answers(r, p) ==
    /\ r.attempts >= p.attempts
    /\ p.solved => r.solved \/ r.revealed
    /\ p.revealed => r.revealed \/ r.solved

Plain(p) == ~(p.solved /\ p.revealed)

RowsArePlain == \A s \in Scope : Plain(rows[s].payload) /\ Plain(stored[s])

SyncedIsCovered == \A s \in Scope : Covers(stored[s], rows[s].synced)

\* An answer is an earlier state of the record it is about, and takes the report in.
AnswersAreTrue ==
    /\ awaited.sent => awaited.scope = visitor
    /\ awaited.sent /\ visitor = Visitor => awaited.body # NoProgress
    /\ awaited.answered => awaited.sent
    /\ awaited.answered => Plain(awaited.answer)
    /\ awaited.answered => Grown(awaited.answer, stored[awaited.scope])
    /\ awaited.answered => Answers(awaited.answer, awaited.body)

\* A solve waits in the row until the server knows better; a visitor's row is kept.
ClaimsAreKept ==
    /\ \A s \in claimed : stored[s].revealed \/ rows[s].payload.solved \/ (s # Visitor /\ stored[s].solved)
    /\ Visitor \in claimed => visitor = Visitor

\* Solves come from those who solved.
SolvesHaveSolvers ==
    /\ \A s \in Scope : rows[s].payload.solved => s \in claimed
    /\ awaited.sent /\ awaited.body.solved /\ awaited.scope \in Member => awaited.scope \in claimed
    /\ \A q \in late : q.body.solved /\ q.scope \in Member => q.scope \in claimed

\* A confirmed reveal shows.
RevealsShow == \A s \in Scope : rows[s].confirmed.revealed => rows[s].progress.revealed /\ ~rows[s].progress.solved

CoinsPaid ==
    \A u \in Member :
        puzzleCoins[u] = (IF stored[u].rewarded THEN 1 ELSE 0) /\ (stored[u].rewarded => stored[u].solved /\ ~stored[u].revealed)

ProgressInv ==
    /\ ProgressTypes /\ RowsArePlain /\ SyncedIsCovered /\ AnswersAreTrue /\ ClaimsAreKept /\ SolvesHaveSolvers
    /\ RevealsShow /\ SolvesAreOwn /\ CoinsPaid

------------------------------------------------------------------------------
(* Puzzle progress: what merging, confirming and recording do *)

LEMMA ProgressFields ==
    ASSUME NEW p \in Progress
    PROVE  p.solved \in BOOLEAN /\ p.revealed \in BOOLEAN /\ p.attempts \in Nat /\ p.rewarded \in BOOLEAN
BY DEF Progress

LEMMA NothingDone ==
    /\ NoProgress \in Progress /\ NoRow \in Row /\ Plain(NoProgress)
    /\ ~NoProgress.solved /\ ~NoProgress.revealed /\ NoProgress.attempts = 0
    /\ NoRow.payload = NoProgress /\ NoRow.synced = NoProgress /\ NoRow.confirmed = NoProgress /\ NoRow.progress = NoProgress
    /\ NoRequest \in Await /\ ~NoRequest.sent /\ ~NoRequest.answered
<1>1. NoProgress \in Progress /\ ~NoProgress.solved /\ ~NoProgress.revealed /\ NoProgress.attempts = 0
  BY DEF NoProgress, Progress
<1> QED BY <1>1 DEF NoRow, Row, NoRequest, Await, Plain, Scope

LEMMA MoreIsMost ==
    ASSUME NEW x \in Nat, NEW y \in Nat
    PROVE  More(x, y) \in Nat /\ More(x, y) >= x /\ More(x, y) >= y
BY DEF More

LEMMA MergedMeans ==
    ASSUME NEW old \in Progress, NEW next \in Progress
    PROVE  /\ Merged(old, next) \in Progress /\ Plain(Merged(old, next))
           /\ Merged(old, next).revealed = (IF old.solved THEN old.revealed ELSE old.revealed \/ next.revealed)
           /\ Merged(old, next).solved = (~Merged(old, next).revealed /\ (old.solved \/ next.solved))
<1> DEFINE revealed == IF old.solved THEN old.revealed ELSE old.revealed \/ next.revealed
           solved == ~revealed /\ (old.solved \/ next.solved)
           most == More(old.attempts, next.attempts)
<1>1. revealed \in BOOLEAN /\ solved \in BOOLEAN /\ most \in Nat /\ old.rewarded \in BOOLEAN /\ ~(solved /\ revealed)
  BY ProgressFields, MoreIsMost
<1>2. Merged(old, next) = [solved |-> solved, revealed |-> revealed, attempts |-> most, rewarded |-> old.rewarded]
  BY DEF Merged
<1>3. revealed = (IF old.solved THEN old.revealed ELSE old.revealed \/ next.revealed) /\ solved = (~revealed /\ (old.solved \/ next.solved))
  OBVIOUS
<1> HIDE DEF revealed, solved, most
<1>4. Merged(old, next) \in Progress /\ Merged(old, next).revealed = revealed /\ Merged(old, next).solved = solved
  BY <1>1, <1>2 DEF Progress
<1> QED BY <1>1, <1>3, <1>4 DEF Plain

LEMMA PayloadsMerge ==
    ASSUME NEW old \in Progress, NEW next \in Progress, Plain(old), Plain(next)
    PROVE  /\ MergedPayload(old, next) \in Progress /\ Plain(MergedPayload(old, next))
           /\ MergedPayload(old, next).solved <=> old.solved \/ next.solved
BY MergedMeans, ProgressFields DEF MergedPayload, Plain

LEMMA RowFields ==
    ASSUME NEW r \in Row
    PROVE  r.progress \in Progress /\ r.confirmed \in Progress /\ r.payload \in Progress /\ r.synced \in Progress
BY DEF Row

\* What an answer makes of a row.
Settles(r, c, sent, new) ==
    /\ new \in Row /\ Plain(new.payload)
    /\ new.payload.solved => r.payload.solved
    /\ r.payload.solved /\ ~c.revealed => new.payload.solved
    /\ new.confirmed.revealed => new.progress.revealed /\ ~new.progress.solved
    /\ new.synced = (IF Overtaken(r, sent) THEN r.synced ELSE new.payload)
    /\ \/ new.payload = r.payload /\ (r.payload = NoProgress \/ ~c.revealed)
       \/ c.revealed /\ new.payload.attempts = r.payload.attempts /\ ~new.payload.solved

LEMMA ConfirmedMeans ==
    ASSUME NEW r \in Row, NEW c \in Progress, NEW sent, Plain(r.payload), Plain(c)
    PROVE  Settles(r, c, sent, Confirmed(r, c, sent))
<1> DEFINE payload == IF r.payload # NoProgress /\ c.revealed
                      THEN [r.payload EXCEPT !.solved = FALSE, !.revealed = TRUE] ELSE r.payload
           synced == IF Overtaken(r, sent) THEN r.synced ELSE payload
           progress == IF payload # NoProgress /\ synced # payload THEN Merged(c, payload) ELSE c
           new == Confirmed(r, c, sent)
<1>1. payload \in Progress /\ Plain(payload) /\ (payload.solved => r.payload.solved)
      /\ (r.payload.solved /\ ~c.revealed => payload.solved)
      /\ \/ payload = r.payload /\ (r.payload = NoProgress \/ ~c.revealed)
         \/ c.revealed /\ payload.attempts = r.payload.attempts /\ ~payload.solved
  <2>1. CASE r.payload # NoProgress /\ c.revealed
    BY <2>1, RowFields DEF Progress, Plain
  <2>2. CASE ~(r.payload # NoProgress /\ c.revealed)
    BY <2>2, RowFields
  <2> QED BY <2>1, <2>2
<1>2. synced \in Progress /\ synced = (IF Overtaken(r, sent) THEN r.synced ELSE payload)
  BY <1>1, RowFields
<1> HIDE DEF payload, synced
<1>3. progress \in Progress /\ (c.revealed => progress.revealed /\ ~progress.solved)
  <2>1. CASE payload # NoProgress /\ synced # payload
    BY <1>1, <2>1, MergedMeans, ProgressFields DEF Plain
  <2>2. CASE ~(payload # NoProgress /\ synced # payload)
    BY <2>2 DEF Plain
  <2> QED BY <2>1, <2>2
<1>4. new = [progress |-> progress, confirmed |-> c, payload |-> payload, synced |-> synced]
  BY DEF Confirmed, payload, synced
<1> HIDE DEF new, progress
<1>5. /\ new \in Row /\ new.progress = progress /\ new.confirmed = c /\ new.payload = payload /\ new.synced = synced
  BY <1>1, <1>2, <1>3, <1>4 DEF Row
<1>6. Settles(r, c, sent, new)
  BY <1>1, <1>2, <1>3, <1>5 DEF Settles
<1> QED BY <1>6 DEF new

\* What an answer leaves in a row is covered, if the row was covered or the answer is to it.
LEMMA AnswerCovers ==
    ASSUME NEW c \in Progress, NEW st \in Progress, NEW r \in Row, NEW sent, NEW new, Settles(r, c, sent, new),
           Grown(c, st), Answers(c, r.payload) \/ Covers(st, r.payload)
    PROVE  Covers(st, new.payload)
<1> DEFINE p == r.payload
           q == new.payload
<1>1. p \in Progress /\ q \in Progress
  BY RowFields DEF Settles
<1>2. Plain(q) /\ (q = p \/ (c.revealed /\ q.attempts = p.attempts /\ ~q.solved)) /\ (q = p => p = NoProgress \/ ~c.revealed \/ ~q.solved)
  BY DEF Settles
<1> HIDE DEF p, q
<1>3. Answers(c, p) \/ Covers(st, p)
  BY DEF p
<1>4. st.attempts >= q.attempts
  BY <1>1, <1>2, <1>3, ProgressFields DEF Grown, Answers, Covers
<1>5. (q.solved => st.solved) /\ (q.revealed => st.revealed \/ st.solved)
  BY <1>1, <1>2, <1>3, ProgressFields, NothingDone DEF Grown, Answers, Covers
<1> QED BY <1>4, <1>5 DEF Covers, q

LEMMA RecordMeans ==
    ASSUME ProgressInv, NEW s \in Scope, NEW body \in Progress, Record(s, body)
    PROVE  /\ stored' \in [Scope -> Progress] /\ puzzleCoins' \in [Member -> Nat]
           /\ \A x \in Scope : Grown(stored[x], stored'[x]) /\ Plain(stored'[x])
           /\ Answers(stored'[s], body)
           /\ \A x \in Scope : stored'[x].solved => stored[x].solved \/ (x = s /\ body.solved)
           /\ CoinsPaid'
<1> DEFINE old == stored[s]
           revealed == IF old.solved THEN old.revealed ELSE old.revealed \/ body.revealed
           solved == old.solved \/ (body.solved /\ ~revealed)
           pays == s \in Member /\ solved /\ ~revealed /\ ~old.rewarded /\ today
           most == More(old.attempts, body.attempts)
           rewarded == old.rewarded \/ pays
           new == [solved |-> solved, revealed |-> revealed, attempts |-> most, rewarded |-> rewarded]
<1>1. old \in Progress /\ Plain(old) /\ stored \in [Scope -> Progress] /\ puzzleCoins \in [Member -> Nat] /\ Member \subseteq Scope
  BY DEF ProgressInv, ProgressTypes, RowsArePlain, Scope
<1>2. stored' = [stored EXCEPT ![s] = new] /\ puzzleCoins' = [u \in Member |-> IF u = s /\ pays THEN puzzleCoins[u] + 1 ELSE puzzleCoins[u]]
  BY DEF Record
<1>3. /\ old.solved \in BOOLEAN /\ old.revealed \in BOOLEAN /\ old.rewarded \in BOOLEAN /\ old.attempts \in Nat
      /\ body.solved \in BOOLEAN /\ body.revealed \in BOOLEAN /\ body.attempts \in Nat
      /\ ~(old.solved /\ old.revealed)
  BY <1>1, ProgressFields DEF Plain
<1> HIDE DEF old
<1>4. revealed \in BOOLEAN /\ solved \in BOOLEAN /\ rewarded \in BOOLEAN /\ pays \in BOOLEAN /\ most \in Nat /\ most >= old.attempts /\ most >= body.attempts
  BY <1>3, MoreIsMost
<1>5. /\ ~(solved /\ revealed) /\ (old.solved => solved) /\ (old.revealed => revealed)
      /\ body.solved => solved \/ revealed
      /\ body.revealed => revealed \/ solved
      /\ solved => old.solved \/ body.solved
      /\ pays => solved /\ ~revealed /\ ~old.rewarded /\ rewarded /\ s \in Member
      /\ ~pays => rewarded = old.rewarded
      /\ old.solved => revealed = old.revealed
  BY <1>3
<1> HIDE DEF revealed, solved, pays, most, rewarded
<1>6. new \in Progress /\ new.solved = solved /\ new.revealed = revealed /\ new.attempts = most /\ new.rewarded = rewarded
  BY <1>4 DEF Progress
<1> HIDE DEF new
<1>7. stored'[s] = new /\ (\A x \in Scope : x # s => stored'[x] = stored[x]) /\ stored' \in [Scope -> Progress]
  BY <1>1, <1>2, <1>6
<1>8. Grown(old, new) /\ Plain(new) /\ Answers(new, body)
  BY <1>3, <1>4, <1>5, <1>6 DEF Grown, Plain, Answers
<1>9. ASSUME NEW x \in Scope
      PROVE  /\ Grown(stored[x], stored'[x]) /\ Plain(stored'[x])
             /\ stored'[x].solved => stored[x].solved \/ (x = s /\ body.solved)
  <2>1. CASE x = s
    BY <1>5, <1>6, <1>7, <1>8, <2>1 DEF old
  <2>2. CASE x # s
    <3>1. stored[x].attempts \in Nat /\ Plain(stored[x])
      BY <1>1, ProgressFields DEF ProgressInv, RowsArePlain
    <3> QED BY <1>7, <2>2, <3>1 DEF Grown
  <2> QED BY <2>1, <2>2
<1>10. puzzleCoins' \in [Member -> Nat]
  BY <1>1, <1>2
<1>11. CoinsPaid'
  <2> SUFFICES ASSUME NEW u \in Member
               PROVE  /\ puzzleCoins'[u] = (IF stored'[u].rewarded THEN 1 ELSE 0)
                      /\ stored'[u].rewarded => stored'[u].solved /\ ~stored'[u].revealed
    BY DEF CoinsPaid
  <2>1. puzzleCoins[u] = (IF stored[u].rewarded THEN 1 ELSE 0) /\ (stored[u].rewarded => stored[u].solved /\ ~stored[u].revealed)
    BY DEF ProgressInv, CoinsPaid
  <2>2. puzzleCoins'[u] = IF u = s /\ pays THEN puzzleCoins[u] + 1 ELSE puzzleCoins[u]
    BY <1>2
  <2>3. CASE u = s
    BY <1>3, <1>4, <1>5, <1>6, <1>7, <2>1, <2>2, <2>3 DEF old
  <2>4. CASE u # s
    BY <1>1, <1>7, <2>1, <2>2, <2>4
  <2> QED BY <2>3, <2>4
<1> QED BY <1>7, <1>8, <1>9, <1>10, <1>11

------------------------------------------------------------------------------
(* Puzzle progress: every step *)

LEMMA GrownStays ==
    ASSUME NEW a \in Progress, NEW b \in Progress, NEW c \in Progress, Grown(b, c)
    PROVE  /\ Grown(b, b)
           /\ Grown(a, b) => Grown(a, c)
           /\ Covers(b, a) => Covers(c, a)
<1>1. a.attempts \in Nat /\ b.attempts \in Nat /\ c.attempts \in Nat
  BY ProgressFields
<1> QED BY <1>1 DEF Grown, Covers

\* Steps of the server: the records grow, the page stays as it is.
LEMMA GrowingKeeps ==
    ASSUME ProgressInv,
           stored' \in [Scope -> Progress], puzzleCoins' \in [Member -> Nat],
           \A x \in Scope : Grown(stored[x], stored'[x]) /\ Plain(stored'[x]),
           CoinsPaid', UNCHANGED <<visitor, rows, board, claimed>>, today' \in BOOLEAN, elsewhere' \subseteq Member,
           awaited' \in Await, late' \subseteq Stray, AnswersAreTrue', SolvesHaveSolvers', SolvesAreOwn'
    PROVE  ProgressInv'
<1>1. ProgressTypes'
  BY DEF ProgressInv, ProgressTypes
<1>2. RowsArePlain' /\ RevealsShow'
  BY DEF ProgressInv, RowsArePlain, RevealsShow
<1>3. stored \in [Scope -> Progress] /\ rows \in [Scope -> Row]
  BY DEF ProgressInv, ProgressTypes
<1>4. SyncedIsCovered'
  <2> SUFFICES ASSUME NEW s \in Scope
               PROVE  Covers(stored'[s], rows[s].synced)
    BY DEF SyncedIsCovered
  <2>1. Covers(stored[s], rows[s].synced) /\ rows[s].synced \in Progress
    BY <1>3, RowFields DEF ProgressInv, SyncedIsCovered
  <2>2. stored[s] \in Progress /\ stored'[s] \in Progress
    BY <1>3
  <2> QED BY <2>1, <2>2, GrownStays
<1>5. ClaimsAreKept'
  BY DEF ProgressInv, ProgressTypes, ClaimsAreKept, Grown
<1> QED BY <1>1, <1>2, <1>4, <1>5 DEF ProgressInv

LEMMA ServeKeeps ==
    ASSUME ProgressInv, ServeAttempt
    PROVE  ProgressInv'
<1> DEFINE s == awaited.scope
           body == awaited.body
<1>1. /\ awaited \in Await /\ s \in Scope /\ body \in Progress /\ stored \in [Scope -> Progress] /\ late \subseteq Stray
      /\ puzzleCoins \in [Member -> Nat] /\ Member \subseteq Scope
  BY DEF ProgressInv, ProgressTypes, Await, Scope
<1>2. /\ awaited.sent /\ ~awaited.answered /\ UNCHANGED <<visitor, rows, board, late, today, claimed, elsewhere, reported, posted, logins>>
      /\ awaited' = [awaited EXCEPT !.answered = TRUE, !.answer = stored'[s]]
  BY DEF ServeAttempt
<1>3. /\ stored' \in [Scope -> Progress] /\ puzzleCoins' \in [Member -> Nat]
      /\ \A x \in Scope : Grown(stored[x], stored'[x]) /\ Plain(stored'[x])
      /\ Answers(stored'[s], body)
      /\ \A x \in Scope : stored'[x].solved => stored[x].solved \/ (x = s /\ body.solved)
      /\ CoinsPaid'
  <2>1. CASE body # NoProgress
    BY <1>1, <2>1, RecordMeans DEF ServeAttempt
  <2>2. CASE body = NoProgress
    <3>1. stored' = stored /\ puzzleCoins' = puzzleCoins
      BY <2>2 DEF ServeAttempt, attemptVars
    <3>2. \A x \in Scope : Grown(stored[x], stored[x]) /\ Plain(stored[x])
      BY <1>1, GrownStays, ProgressFields DEF ProgressInv, RowsArePlain, Grown
    <3>3. Answers(stored[s], body)
      BY <1>1, <2>2, NothingDone, ProgressFields DEF Answers
    <3> QED BY <1>1, <3>1, <3>2, <3>3 DEF ProgressInv, CoinsPaid
  <2> QED BY <2>1, <2>2
<1>4. awaited' \in Await /\ awaited'.scope = s /\ awaited'.body = body /\ awaited'.sent /\ awaited'.answered /\ awaited'.answer = stored'[s]
  BY <1>1, <1>2, <1>3 DEF Await
<1>5. AnswersAreTrue'
  <2>1. Grown(stored'[s], stored'[s]) /\ Plain(stored'[s])
    BY <1>1, <1>3, ProgressFields DEF Grown
  <2> QED BY <1>2, <1>3, <1>4, <2>1 DEF ProgressInv, AnswersAreTrue
<1>6. SolvesHaveSolvers'
  BY <1>2, <1>4 DEF ProgressInv, SolvesHaveSolvers
<1>7. SolvesAreOwn'
  BY <1>1, <1>2, <1>3 DEF ProgressInv, SolvesAreOwn, SolvesHaveSolvers
<1> QED BY <1>1, <1>2, <1>3, <1>4, <1>5, <1>6, <1>7, GrowingKeeps DEF ProgressInv, ProgressTypes

LEMMA AnswersStay ==
    ASSUME ProgressInv, UNCHANGED <<visitor, awaited>>, stored' \in [Scope -> Progress],
           \A x \in Scope : Grown(stored[x], stored'[x])
    PROVE  AnswersAreTrue'
<1>1. stored \in [Scope -> Progress] /\ awaited.scope \in Scope /\ awaited.answer \in Progress
  BY DEF ProgressInv, ProgressTypes, Await
<1>2. awaited.answered => Grown(awaited.answer, stored'[awaited.scope])
  BY <1>1, GrownStays DEF ProgressInv, AnswersAreTrue
<1> QED BY <1>2 DEF ProgressInv, AnswersAreTrue

LEMMA ServeLateKeeps ==
    ASSUME ProgressInv, ServeLate
    PROVE  ProgressInv'
<1>1. PICK q \in late : Record(q.scope, q.body) /\ late' = late \ {q}
  BY DEF ServeLate
<1>2. q.scope \in Scope /\ q.body \in Progress /\ Member \subseteq Scope
  BY DEF ProgressInv, ProgressTypes, Stray, Scope
<1>3. UNCHANGED <<visitor, rows, board, awaited, today, claimed, elsewhere, reported, posted, logins>>
  BY DEF ServeLate
<1>4. /\ stored' \in [Scope -> Progress] /\ puzzleCoins' \in [Member -> Nat]
      /\ \A x \in Scope : Grown(stored[x], stored'[x]) /\ Plain(stored'[x])
      /\ \A x \in Scope : stored'[x].solved => stored[x].solved \/ (x = q.scope /\ q.body.solved)
      /\ CoinsPaid'
  BY <1>1, <1>2, RecordMeans
<1>5. AnswersAreTrue'
  BY <1>3, <1>4, AnswersStay
<1>6. SolvesHaveSolvers' /\ SolvesAreOwn'
  BY <1>1, <1>2, <1>3, <1>4 DEF ProgressInv, SolvesHaveSolvers, SolvesAreOwn
<1> QED BY <1>1, <1>3, <1>4, <1>5, <1>6, GrowingKeeps DEF ProgressInv, ProgressTypes

LEMMA OtherDeviceKeeps ==
    ASSUME ProgressInv, NEW u \in Member, OtherDevice(u)
    PROVE  ProgressInv'
<1>1. PICK solve \in BOOLEAN : Record(u, [solved |-> solve, revealed |-> ~solve, attempts |-> 1, rewarded |-> FALSE])
  BY DEF OtherDevice
<1> DEFINE body == [solved |-> solve, revealed |-> ~solve, attempts |-> 1, rewarded |-> FALSE]
<1>2. body \in Progress /\ u \in Scope /\ Member \subseteq Scope
  BY DEF Progress, Scope
<1>3. UNCHANGED <<visitor, rows, board, awaited, late, today, claimed, reported, posted, logins>> /\ elsewhere' = elsewhere \cup {u}
  BY DEF OtherDevice, journalVars
<1> HIDE DEF body
<1>4. /\ stored' \in [Scope -> Progress] /\ puzzleCoins' \in [Member -> Nat]
      /\ \A x \in Scope : Grown(stored[x], stored'[x]) /\ Plain(stored'[x])
      /\ \A x \in Scope : stored'[x].solved => stored[x].solved \/ (x = u /\ body.solved)
      /\ CoinsPaid'
  BY <1>1, <1>2, RecordMeans DEF body
<1>5. AnswersAreTrue'
  BY <1>3, <1>4, AnswersStay
<1>6. SolvesHaveSolvers' /\ SolvesAreOwn'
  BY <1>2, <1>3, <1>4 DEF ProgressInv, SolvesHaveSolvers, SolvesAreOwn
<1> QED BY <1>3, <1>4, <1>5, <1>6, GrowingKeeps DEF ProgressInv, ProgressTypes

\* Steps that concern neither the rows nor the records.
LEMMA QuietSteps ==
    ASSUME ProgressInv, UNCHANGED <<visitor, rows, board, stored, puzzleCoins, claimed, elsewhere>>, today' \in BOOLEAN,
           awaited' \in Await, late' \subseteq Stray, AnswersAreTrue', SolvesHaveSolvers'
    PROVE  ProgressInv'
<1>1. \A x \in Scope : Grown(stored[x], stored[x])
  BY ProgressFields DEF ProgressInv, ProgressTypes, Grown
<1>2. CoinsPaid' /\ SolvesAreOwn'
  BY DEF ProgressInv, CoinsPaid, SolvesAreOwn
<1> QED BY <1>1, <1>2, GrowingKeeps DEF ProgressInv, ProgressTypes, RowsArePlain

LEMMA MidnightKeeps ==
    ASSUME ProgressInv, Midnight \/ UNCHANGED progressVars
    PROVE  ProgressInv'
<1>1. UNCHANGED <<journalVars, attemptVars, claimed, elsewhere>> /\ today' \in BOOLEAN
  BY DEF Midnight, progressVars, ProgressInv, ProgressTypes
<1>2. AnswersAreTrue' /\ SolvesHaveSolvers'
  BY <1>1 DEF ProgressInv, AnswersAreTrue, SolvesHaveSolvers, journalVars, attemptVars
<1> QED BY <1>1, <1>2, QuietSteps DEF journalVars, attemptVars, ProgressInv, ProgressTypes

LEMMA AbandonedIsStray ==
    ASSUME ProgressInv
    PROVE  /\ Abandoned \subseteq Stray
           /\ \A q \in Abandoned : q.body.solved /\ q.scope \in Member => q.scope \in claimed
<1>1. awaited \in Await /\ late \subseteq Stray
  BY DEF ProgressInv, ProgressTypes
<1>2. [scope |-> awaited.scope, body |-> awaited.body] \in Stray
  BY <1>1 DEF Await, Stray
<1> QED BY <1>1, <1>2 DEF Abandoned, ProgressInv, SolvesHaveSolvers

LEMMA LoseAnswerKeeps ==
    ASSUME ProgressInv, LoseAnswer
    PROVE  ProgressInv'
<1>1. awaited' = NoRequest /\ late' = Abandoned
      /\ UNCHANGED <<visitor, rows, board, attemptVars, today, claimed, elsewhere, reported, posted, logins>>
  BY DEF LoseAnswer
<1>2. AnswersAreTrue'
  BY <1>1, NothingDone DEF AnswersAreTrue
<1>3. SolvesHaveSolvers'
  BY <1>1, NothingDone, AbandonedIsStray DEF ProgressInv, SolvesHaveSolvers
<1> QED BY <1>1, <1>2, <1>3, NothingDone, AbandonedIsStray, QuietSteps DEF attemptVars, ProgressInv, ProgressTypes

\* A request that has just been sent.
LEMMA AskMeans ==
    ASSUME NEW body \in Progress, visitor \in Scope, Ask(body)
    PROVE  /\ awaited' \in Await /\ awaited'.scope = visitor /\ awaited'.body = body /\ awaited'.sent /\ ~awaited'.answered
<1>1. NoProgress \in Progress
  BY NothingDone
<1> QED BY <1>1 DEF Ask, Await

LEMMA SyncKeeps ==
    ASSUME ProgressInv, Sync
    PROVE  ProgressInv'
<1> DEFINE body == IF Unsynced(rows[visitor]) THEN rows[visitor].payload ELSE NoProgress
<1>1. visitor \in Scope /\ rows[visitor] \in Row
  BY DEF ProgressInv, ProgressTypes
<1>2. body \in Progress /\ (visitor = Visitor => body # NoProgress) /\ (body.solved => visitor \in claimed)
  <2>1. rows[visitor].payload \in Progress /\ (rows[visitor].payload.solved => visitor \in claimed)
    BY <1>1, RowFields DEF ProgressInv, SolvesHaveSolvers
  <2> QED BY <2>1, NothingDone DEF Sync, Unsynced
<1>3. Ask(body) /\ UNCHANGED <<visitor, rows, board, late, attemptVars, today, claimed, elsewhere, reported, logins>>
  BY DEF Sync
<1> HIDE DEF body
<1>4. /\ awaited' \in Await /\ awaited'.scope = visitor /\ awaited'.body = body /\ awaited'.sent /\ ~awaited'.answered
  BY <1>1, <1>2, <1>3, AskMeans
<1>5. AnswersAreTrue' /\ SolvesHaveSolvers'
  BY <1>2, <1>3, <1>4 DEF ProgressInv, AnswersAreTrue, SolvesHaveSolvers
<1> QED BY <1>3, <1>4, <1>5, QuietSteps DEF attemptVars, ProgressInv, ProgressTypes

LEMMA BoardsRestore ==
    ASSUME NEW b \in [attempts: Nat, revealed: BOOLEAN, scope: Scope], NEW s \in Scope, NEW entry \in Row
    PROVE  /\ Restored(b, s, entry) \in [attempts: Nat, revealed: BOOLEAN, scope: Scope]
           /\ FreshBoard(s) \in [attempts: Nat, revealed: BOOLEAN, scope: Scope]
<1> DEFINE own == IF b.scope # Visitor /\ b.scope # s THEN FreshBoard(s) ELSE b
<1>1. FreshBoard(s) \in [attempts: Nat, revealed: BOOLEAN, scope: Scope]
  BY DEF FreshBoard
<1>2. own \in [attempts: Nat, revealed: BOOLEAN, scope: Scope]
  BY <1>1
<1>3. Restored(b, s, entry) = [attempts |-> More(own.attempts, entry.progress.attempts), revealed |-> own.revealed \/ entry.progress.revealed, scope |-> s]
  BY DEF Restored
<1> HIDE DEF own
<1>4. entry.progress.attempts \in Nat /\ entry.progress.revealed \in BOOLEAN
  BY RowFields, ProgressFields
<1>5. More(own.attempts, entry.progress.attempts) \in Nat
  BY <1>2, <1>4, MoreIsMost
<1> QED BY <1>1, <1>2, <1>3, <1>4, <1>5

\* A row that may stand in scope s.
MayStand(s, entry) ==
    /\ entry \in Row /\ Plain(entry.payload) /\ Covers(stored[s], entry.synced)
    /\ entry.confirmed.revealed => entry.progress.revealed /\ ~entry.progress.solved

LEMMA RowsStand ==
    ASSUME ProgressInv
    PROVE  /\ \A s \in Scope : MayStand(s, rows[s]) /\ MayStand(s, NoRow)
<1> SUFFICES ASSUME NEW s \in Scope
             PROVE  MayStand(s, rows[s]) /\ MayStand(s, NoRow)
  OBVIOUS
<1>1. rows[s] \in Row /\ stored[s] \in Progress
  BY DEF ProgressInv, ProgressTypes
<1>2. MayStand(s, rows[s])
  BY <1>1 DEF ProgressInv, RowsArePlain, SyncedIsCovered, RevealsShow, MayStand
<1>3. Covers(stored[s], NoProgress)
  BY <1>1, NothingDone, ProgressFields DEF Covers
<1> QED BY <1>2, <1>3, NothingDone DEF MayStand

\* Steps of the page: the records stay as they are.
LEMMA PageKeeps ==
    ASSUME ProgressInv, UNCHANGED <<attemptVars, today, elsewhere>>,
           visitor' \in Scope, rows' \in [Scope -> Row], \A s \in Scope : MayStand(s, rows'[s]),
           board' \in [attempts: Nat, revealed: BOOLEAN, scope: Scope],
           awaited' \in Await, late' \subseteq Stray, claimed' \subseteq Scope, \A u \in Member : u \in claimed => u \in claimed',
           AnswersAreTrue', SolvesHaveSolvers', ClaimsAreKept'
    PROVE  ProgressInv'
<1>1. ProgressTypes'
  BY DEF ProgressInv, ProgressTypes, attemptVars
<1>2. RowsArePlain' /\ SyncedIsCovered' /\ RevealsShow'
  BY DEF ProgressInv, RowsArePlain, SyncedIsCovered, RevealsShow, MayStand, attemptVars
<1>3. SolvesAreOwn' /\ CoinsPaid'
  BY DEF ProgressInv, SolvesAreOwn, CoinsPaid, attemptVars
<1> QED BY <1>1, <1>2, <1>3 DEF ProgressInv

LEMMA ReportKeeps ==
    ASSUME ProgressInv, NEW kind \in {"wrong", "reveal", "solve"}, Report(kind)
    PROVE  ProgressInv'
<1> DEFINE shown == [board EXCEPT !.attempts = IF kind = "wrong" THEN @ + 1 ELSE @, !.revealed = @ \/ kind = "reveal"]
           payload == [solved |-> kind = "solve" /\ ~shown.revealed, revealed |-> shown.revealed, attempts |-> shown.attempts, rewarded |-> FALSE]
           entry == rows[visitor]
           next == MergedPayload(entry.payload, payload)
           known == IF entry.confirmed # NoProgress THEN entry.confirmed ELSE entry.progress
           new == [entry EXCEPT !.progress = Merged(known, next), !.payload = next]
<1>1. /\ visitor \in Scope /\ rows \in [Scope -> Row] /\ entry \in Row /\ board \in [attempts: Nat, revealed: BOOLEAN, scope: Scope]
      /\ awaited \in Await /\ late \subseteq Stray /\ claimed \subseteq Scope
  BY DEF ProgressInv, ProgressTypes
<1>2. /\ rows' = [rows EXCEPT ![visitor] = new] /\ board' = Restored(shown, visitor, new)
      /\ claimed' = IF payload.solved THEN claimed \cup {visitor} ELSE claimed
      /\ UNCHANGED <<visitor, awaited, late, attemptVars, today, elsewhere, posted, logins>>
  BY DEF Report
<1>3. shown \in [attempts: Nat, revealed: BOOLEAN, scope: Scope]
  <2> DEFINE turns == IF kind = "wrong" THEN board.attempts + 1 ELSE board.attempts
             seen == board.revealed \/ kind = "reveal"
  <2>1. turns \in Nat /\ seen \in BOOLEAN
    BY <1>1
  <2>2. shown = [[board EXCEPT !.attempts = turns] EXCEPT !.revealed = seen]
    BY <1>1
  <2> HIDE DEF turns, seen
  <2> QED BY <1>1, <2>1, <2>2
<1> HIDE DEF shown
<1>4. payload \in Progress /\ Plain(payload)
  BY <1>3 DEF Progress, Plain
<1> HIDE DEF payload
<1>5. MayStand(visitor, entry)
  BY <1>1, RowsStand
<1>6. entry.payload \in Progress /\ entry.confirmed \in Progress /\ entry.progress \in Progress /\ known \in Progress
  BY <1>1, RowFields
<1>7. (entry.confirmed.revealed => known.revealed)
  BY NothingDone
<1> HIDE DEF entry
<1>8. next \in Progress /\ Plain(next) /\ (next.solved <=> entry.payload.solved \/ payload.solved)
  BY <1>4, <1>5, <1>6, PayloadsMerge DEF MayStand
<1> HIDE DEF next, known
<1>9. Merged(known, next) \in Progress /\ (known.revealed => Merged(known, next).revealed /\ ~Merged(known, next).solved)
  BY <1>6, <1>8, MergedMeans, ProgressFields
<1>10. new \in Row /\ new.payload = next /\ new.progress = Merged(known, next) /\ new.confirmed = entry.confirmed /\ new.synced = entry.synced
  BY <1>1, <1>8, <1>9 DEF Row, entry
<1> HIDE DEF new
<1>11. MayStand(visitor, new)
  BY <1>5, <1>7, <1>8, <1>9, <1>10 DEF MayStand
<1>12. rows' \in [Scope -> Row] /\ rows'[visitor] = new /\ \A s \in Scope : s # visitor => rows'[s] = rows[s]
  BY <1>1, <1>2, <1>10
<1>13. \A s \in Scope : MayStand(s, rows'[s])
  BY <1>11, <1>12, RowsStand
<1>14. board' \in [attempts: Nat, revealed: BOOLEAN, scope: Scope]
  BY <1>1, <1>2, <1>3, <1>10, BoardsRestore
<1>15. AnswersAreTrue'
  BY <1>2 DEF ProgressInv, AnswersAreTrue, attemptVars
<1>16. SolvesHaveSolvers'
  BY <1>2, <1>8, <1>10, <1>12 DEF ProgressInv, SolvesHaveSolvers, entry
<1>17. ClaimsAreKept'
  BY <1>1, <1>2, <1>8, <1>10, <1>12 DEF ProgressInv, ClaimsAreKept, entry, attemptVars
<1> QED BY <1>1, <1>2, <1>12, <1>13, <1>14, <1>15, <1>16, <1>17, PageKeeps

\* What a row becomes that takes over what a visitor did.
LEMMA TakenOverMeans ==
    ASSUME ProgressInv, NEW u \in Member
    PROVE  /\ TakenOver(u) \in [Scope -> Row]
           /\ \A s \in Scope : MayStand(s, TakenOver(u)[s])
           /\ \A s \in Scope : s # u /\ s # Visitor => TakenOver(u)[s] = rows[s]
           /\ ~TakenOver(u)[Visitor].payload.solved
           /\ TakenOver(u)[u].payload.solved <=> rows[u].payload.solved \/ rows[Visitor].payload.solved
<1> DEFINE v == rows[Visitor]
           own == rows[u]
           merged == Merged(own.progress, v.progress)
           payload == IF v.payload = NoProgress THEN own.payload ELSE MergedPayload(own.payload, v.payload)
           new == [own EXCEPT !.progress = merged, !.synced = NoProgress, !.payload = payload]
<1>1. /\ rows \in [Scope -> Row] /\ Visitor \in Scope /\ u \in Scope /\ u # Visitor /\ v \in Row /\ own \in Row
      /\ stored[u] \in Progress
  BY PuzzleProgressAssumption DEF ProgressInv, ProgressTypes, Scope
<1>2. /\ v.payload \in Progress /\ v.progress \in Progress /\ own.payload \in Progress /\ own.progress \in Progress
      /\ own.confirmed \in Progress
  BY <1>1, RowFields
<1>3. MayStand(u, own) /\ MayStand(Visitor, v)
  BY <1>1, RowsStand
<1>4. CASE v = NoRow
  <2>1. TakenOver(u) = rows
    BY <1>4 DEF TakenOver
  <2>2. ~v.payload.solved
    BY <1>4, NothingDone
  <2> QED BY <1>1, <2>1, <2>2, RowsStand
<1>5. CASE v # NoRow
  <2>1. TakenOver(u) = [[rows EXCEPT ![Visitor] = NoRow] EXCEPT ![u] = new]
    <3>1. [rows EXCEPT ![Visitor] = NoRow][u] = own
      BY <1>1
    <3> QED BY <1>1, <1>5, <3>1 DEF TakenOver
  <2>2. merged \in Progress /\ (own.progress.revealed /\ ~own.progress.solved => merged.revealed /\ ~merged.solved)
    BY <1>2, MergedMeans, ProgressFields
  <2>3. payload \in Progress /\ Plain(payload) /\ (payload.solved <=> own.payload.solved \/ v.payload.solved)
    <3>1. CASE v.payload = NoProgress
      BY <1>2, <1>3, <3>1, NothingDone, ProgressFields DEF MayStand
    <3>2. CASE v.payload # NoProgress
      BY <1>2, <1>3, <3>2, PayloadsMerge DEF MayStand
    <3> QED BY <3>1, <3>2
  <2>4. new = [[[own EXCEPT !.progress = merged] EXCEPT !.synced = NoProgress] EXCEPT !.payload = payload]
    OBVIOUS
  <2> HIDE DEF new, merged, payload
  <2>5. NoProgress \in Progress /\ ~NoRow.payload.solved /\ NoRow \in Row
    BY NothingDone
  <2>6. new \in Row /\ new.payload = payload /\ new.progress = merged /\ new.confirmed = own.confirmed /\ new.synced = NoProgress
    BY <1>1, <2>2, <2>3, <2>4, <2>5 DEF Row
  <2>7. Covers(stored[u], NoProgress)
    BY <1>1, NothingDone, ProgressFields DEF Covers
  <2>8. MayStand(u, new)
    BY <1>3, <2>2, <2>3, <2>6, <2>7 DEF MayStand
  <2>9. /\ TakenOver(u) \in [Scope -> Row] /\ TakenOver(u)[u] = new /\ TakenOver(u)[Visitor] = NoRow
        /\ \A s \in Scope : s # u /\ s # Visitor => TakenOver(u)[s] = rows[s]
    BY <1>1, <2>1, <2>5, <2>6
  <2>10. \A s \in Scope : MayStand(s, TakenOver(u)[s])
    BY <2>8, <2>9, RowsStand
  <2> QED BY <2>3, <2>5, <2>6, <2>9, <2>10
<1> QED BY <1>4, <1>5

LEMMA IdentityKeeps ==
    ASSUME ProgressInv, NEW s \in Scope, Identity(s)
    PROVE  ProgressInv'
<1>1. /\ visitor \in Scope /\ Visitor \in Scope /\ Visitor \notin Member /\ rows \in [Scope -> Row] /\ claimed \subseteq Scope
      /\ board \in [attempts: Nat, revealed: BOOLEAN, scope: Scope] /\ \A x \in Scope : x # Visitor => x \in Member
  BY PuzzleProgressAssumption DEF ProgressInv, ProgressTypes, Scope
<1>2. /\ visitor' = s /\ awaited' = NoRequest /\ late' = Abandoned /\ UNCHANGED <<attemptVars, today, elsewhere, reported, posted>>
      /\ claimed' = IF s # Visitor THEN (claimed \ {Visitor}) \cup HandedOver ELSE claimed
      /\ IF s = visitor THEN rows' = rows /\ board' = Restored(FreshBoard(s), s, rows[s])
         ELSE Saved(s, IF s = Visitor THEN rows ELSE TakenOver(s))
  BY DEF Identity
<1>3. /\ rows' \in [Scope -> Row] /\ \A x \in Scope : MayStand(x, rows'[x])
      /\ board' \in [attempts: Nat, revealed: BOOLEAN, scope: Scope]
  <2>1. CASE s = visitor
    <3>1. rows' = rows /\ board' = Restored(FreshBoard(s), s, rows[s]) /\ rows[s] \in Row
      BY <1>1, <1>2, <2>1
    <3>2. FreshBoard(s) \in [attempts: Nat, revealed: BOOLEAN, scope: Scope]
      BY <1>1, <3>1, BoardsRestore
    <3>3. board' \in [attempts: Nat, revealed: BOOLEAN, scope: Scope]
      BY <3>1, <3>2, BoardsRestore
    <3> QED BY <1>1, <3>1, <3>3, RowsStand
  <2>2. CASE s # visitor /\ s = Visitor
    <3>1. rows' = rows /\ board' = Restored(board, s, rows[s]) /\ rows[s] \in Row
      BY <1>1, <1>2, <2>2 DEF Saved
    <3>2. board' \in [attempts: Nat, revealed: BOOLEAN, scope: Scope]
      BY <1>1, <3>1, BoardsRestore
    <3> QED BY <1>1, <3>1, <3>2, RowsStand
  <2>3. CASE s # visitor /\ s # Visitor
    <3>1. rows' = TakenOver(s) /\ board' = Restored(board, s, rows'[s]) /\ s \in Member
      BY <1>1, <1>2, <2>3 DEF Saved
    <3>2. rows' \in [Scope -> Row] /\ \A x \in Scope : MayStand(x, rows'[x])
      BY <3>1, TakenOverMeans
    <3> QED BY <1>1, <3>1, <3>2, BoardsRestore
  <2> QED BY <2>1, <2>2, <2>3
<1>4. /\ HandedOver \subseteq {s} /\ (HandedOver # {} => Visitor \in claimed /\ rows[Visitor].payload.solved)
      /\ Visitor \in claimed /\ rows[Visitor].payload.solved => HandedOver = {s}
  BY <1>2 DEF HandedOver, ProgressInv, ClaimsAreKept
<1>5. claimed' \subseteq Scope /\ \A u \in Member : u \in claimed => u \in claimed'
  BY <1>1, <1>2, <1>4
<1>6. AnswersAreTrue'
  BY <1>2, NothingDone DEF AnswersAreTrue
<1>7. \A x \in Scope : rows[x].payload.solved => x \in claimed
  BY DEF ProgressInv, SolvesHaveSolvers
<1>8. /\ \A x \in claimed : stored[x].revealed \/ rows[x].payload.solved \/ (x # Visitor /\ stored[x].solved)
      /\ Visitor \in claimed => visitor = Visitor
  BY DEF ProgressInv, ClaimsAreKept
<1>9. /\ \A x \in Scope : rows'[x].payload.solved => x \in claimed'
      /\ ClaimsAreKept'
  <2>1. CASE s = Visitor
    <3>1. rows' = rows /\ claimed' = claimed
      BY <1>2, <2>1 DEF Saved
    <3> QED BY <1>2, <1>7, <1>8, <2>1, <3>1 DEF ClaimsAreKept, attemptVars
  <2>2. CASE s # Visitor /\ s = visitor
    <3>1. rows' = rows /\ Visitor \notin claimed /\ claimed' = claimed
      BY <1>2, <1>4, <1>8, <2>2
    <3> QED BY <1>2, <1>7, <1>8, <2>2, <3>1 DEF ClaimsAreKept, attemptVars
  <2>3. CASE s # Visitor /\ s # visitor
    <3>1. rows' = TakenOver(s) /\ s \in Member
      BY <1>1, <1>2, <2>3 DEF Saved
    <3>2. /\ \A x \in Scope : x # s /\ x # Visitor => rows'[x] = rows[x]
          /\ ~rows'[Visitor].payload.solved
          /\ rows'[s].payload.solved <=> rows[s].payload.solved \/ rows[Visitor].payload.solved
      BY <3>1, TakenOverMeans
    <3>3. claimed' = (claimed \ {Visitor}) \cup HandedOver
      BY <1>2, <2>3
    <3>4. \A x \in Scope : rows'[x].payload.solved => x \in claimed'
      BY <1>1, <1>4, <1>7, <2>3, <3>2, <3>3
    <3>5. Visitor \notin claimed'
      BY <1>4, <2>3, <3>3
    <3>6. ASSUME NEW x \in claimed'
          PROVE  stored[x].revealed \/ rows'[x].payload.solved \/ (x # Visitor /\ stored[x].solved)
      <4>1. CASE x = s
        BY <1>4, <1>8, <2>3, <3>2, <3>3, <4>1
      <4>2. CASE x # s
        BY <1>1, <1>4, <1>8, <3>2, <3>3, <4>2
      <4> QED BY <4>1, <4>2
    <3> QED BY <1>2, <3>4, <3>5, <3>6 DEF ClaimsAreKept, attemptVars
  <2> QED BY <2>1, <2>2, <2>3
<1>10. SolvesHaveSolvers'
  BY <1>2, <1>5, <1>9, NothingDone, AbandonedIsStray DEF SolvesHaveSolvers
<1> QED BY <1>2, <1>3, <1>5, <1>6, <1>9, <1>10, NothingDone, AbandonedIsStray, PageKeeps

LEMMA TakeAnswerKeeps ==
    ASSUME ProgressInv, TakeAnswer
    PROVE  ProgressInv'
<1> DEFINE entry == rows[visitor]
           sent == awaited.body
           c == awaited.answer
           st == stored[visitor]
           known == IF entry.payload = sent THEN [entry EXCEPT !.synced = sent] ELSE entry
           new == IF sent # NoProgress THEN Confirmed(known, c, sent)
                  ELSE IF c # NoProgress THEN Confirmed(entry, c, sent)
                  ELSE IF Unsynced(entry) THEN entry ELSE NoRow
<1>1. /\ visitor \in Scope /\ rows \in [Scope -> Row] /\ entry \in Row /\ awaited \in Await /\ sent \in Progress /\ c \in Progress
      /\ st \in Progress /\ claimed \subseteq Scope /\ late \subseteq Stray
      /\ board \in [attempts: Nat, revealed: BOOLEAN, scope: Scope]
  BY DEF ProgressInv, ProgressTypes, Await
<1>2. /\ awaited.answered /\ rows' = [rows EXCEPT ![visitor] = new] /\ board' = Restored(board, visitor, rows'[visitor])
      /\ IF sent # NoProgress /\ visitor # Visitor THEN Ask(NoProgress) ELSE awaited' = NoRequest
      /\ UNCHANGED <<visitor, late, attemptVars, today, claimed, elsewhere, reported, posted, logins>>
  BY DEF TakeAnswer, Saved
<1>3. Plain(c) /\ Grown(c, st) /\ Answers(c, sent) /\ (visitor = Visitor => sent # NoProgress)
  BY <1>2 DEF ProgressInv, AnswersAreTrue
<1>4. MayStand(visitor, entry) /\ entry.payload \in Progress /\ entry.synced \in Progress
  BY <1>1, RowsStand, RowFields
<1> HIDE DEF entry, sent, c, st
<1>5. known \in Row /\ known.payload = entry.payload /\ (entry.payload # sent => known = entry)
  BY <1>1, <1>4 DEF Row
<1>6. Answers(c, entry.payload) \/ Covers(st, entry.payload) \/ (entry.payload # sent /\ Unsynced(entry))
  <2>1. CASE entry.payload = sent
    BY <1>3, <2>1
  <2>2. CASE entry.payload = NoProgress
    BY <1>1, <2>2, NothingDone, ProgressFields DEF Covers
  <2>3. CASE entry.synced = entry.payload
    BY <1>4, <2>3 DEF MayStand, st
  <2> QED BY <2>1, <2>2, <2>3 DEF Unsynced
\* The row that an answer settles, with or without a mark that it was sent.
<1>7. ASSUME NEW r \in {known, entry}, r = known \/ sent = NoProgress, Settles(r, c, sent, new)
      PROVE  /\ MayStand(visitor, new) /\ (new.payload.solved => entry.payload.solved)
             /\ entry.payload.solved => new.payload.solved \/ st.revealed
  <2>1. r \in Row /\ r.payload = entry.payload /\ (entry.payload # sent => r = entry)
    BY <1>1, <1>5
  <2>2. Covers(st, new.synced)
    <3>1. CASE Overtaken(r, sent)
      <4>1. entry.payload # sent /\ r = entry
        BY <2>1, <3>1 DEF Overtaken
      <4> QED BY <1>4, <1>7, <3>1, <4>1 DEF Settles, MayStand, st
    <3>2. CASE ~Overtaken(r, sent)
      <4>1. Answers(c, r.payload) \/ Covers(st, r.payload)
        BY <1>6, <2>1, <3>2 DEF Overtaken
      <4>2. Covers(st, new.payload)
        BY <1>1, <1>3, <1>7, <2>1, <4>1, AnswerCovers
      <4> QED BY <1>7, <3>2, <4>2 DEF Settles
    <3> QED BY <3>1, <3>2
  <2>3. c.revealed => st.revealed
    BY <1>3 DEF Grown
  <2> HIDE DEF new
  <2> QED BY <1>7, <2>1, <2>2, <2>3 DEF Settles, MayStand, st
<1>8. /\ MayStand(visitor, new) /\ (new.payload.solved => entry.payload.solved)
      /\ entry.payload.solved => new.payload.solved \/ st.revealed \/ (visitor # Visitor /\ st.solved)
  <2>1. CASE sent # NoProgress
    <3>1. Settles(known, c, sent, new)
      BY <1>1, <1>3, <1>4, <1>5, <2>1, ConfirmedMeans DEF MayStand
    <3> QED BY <1>7, <3>1
  <2>2. CASE sent = NoProgress /\ c # NoProgress
    <3>1. Settles(entry, c, sent, new)
      BY <1>1, <1>3, <1>4, <2>2, ConfirmedMeans DEF MayStand
    <3> QED BY <1>7, <2>2, <3>1
  <2>3. CASE sent = NoProgress /\ c = NoProgress /\ Unsynced(entry)
    BY <1>4, <2>3
  <2>4. CASE sent = NoProgress /\ c = NoProgress /\ ~Unsynced(entry)
    <3>1. new = NoRow /\ MayStand(visitor, NoRow) /\ ~NoRow.payload.solved
      BY <1>1, <2>4, RowsStand, NothingDone
    <3>2. entry.payload.solved => st.solved
      BY <1>4, <2>4, NothingDone DEF Unsynced, MayStand, Covers, st
    <3> QED BY <1>3, <2>4, <3>1, <3>2
  <2> QED BY <2>1, <2>2, <2>3, <2>4
<1> HIDE DEF new
<1>9. rows' \in [Scope -> Row] /\ rows'[visitor] = new /\ \A s \in Scope : s # visitor => rows'[s] = rows[s]
  BY <1>1, <1>2, <1>8 DEF MayStand
<1>10. \A s \in Scope : MayStand(s, rows'[s])
  BY <1>8, <1>9, RowsStand
<1>11. board' \in [attempts: Nat, revealed: BOOLEAN, scope: Scope]
  BY <1>1, <1>2, <1>9, BoardsRestore
<1>12. /\ awaited' \in Await /\ ~awaited'.answered
       /\ awaited'.sent => awaited'.scope = visitor /\ awaited'.body = NoProgress /\ visitor # Visitor
  <2>1. CASE sent # NoProgress /\ visitor # Visitor
    BY <1>1, <1>2, <2>1, NothingDone, AskMeans
  <2>2. CASE ~(sent # NoProgress /\ visitor # Visitor)
    BY <1>2, <2>2, NothingDone
  <2> QED BY <2>1, <2>2
<1>13. AnswersAreTrue'
  BY <1>2, <1>12 DEF AnswersAreTrue
<1>14. SolvesHaveSolvers'
  BY <1>2, <1>8, <1>9, <1>12, NothingDone DEF ProgressInv, SolvesHaveSolvers, entry
<1>15. ClaimsAreKept'
  BY <1>1, <1>2, <1>8, <1>9 DEF ProgressInv, ClaimsAreKept, entry, st, attemptVars
<1> QED BY <1>1, <1>2, <1>9, <1>10, <1>11, <1>12, <1>13, <1>14, <1>15, PageKeeps

LEMMA ProgressStarts ==
    ASSUME ProgressInit
    PROVE  ProgressInv
<1>1. Visitor \in Scope /\ Visitor \notin Member /\ Member \subseteq Scope
  BY PuzzleProgressAssumption DEF Scope
<1>2. /\ rows \in [Scope -> Row] /\ stored \in [Scope -> Progress]
      /\ \A s \in Scope : rows[s] = NoRow /\ stored[s] = NoProgress
  BY NothingDone DEF ProgressInit
<1>3. ProgressTypes
  BY <1>1, <1>2, NothingDone DEF ProgressInit, ProgressTypes, FreshBoard
<1>4. RowsArePlain /\ RevealsShow /\ SolvesAreOwn
  BY <1>1, <1>2, NothingDone DEF RowsArePlain, RevealsShow, SolvesAreOwn
<1>5. Covers(NoProgress, NoProgress)
  BY NothingDone DEF Covers
<1>6. SyncedIsCovered /\ AnswersAreTrue /\ ClaimsAreKept
  BY <1>2, <1>5, NothingDone DEF ProgressInit, SyncedIsCovered, AnswersAreTrue, ClaimsAreKept
<1>7. SolvesHaveSolvers
  BY <1>2, NothingDone DEF ProgressInit, SolvesHaveSolvers
<1>8. CoinsPaid
  <2>1. ~NoProgress.rewarded
    BY DEF NoProgress
  <2> QED BY <1>1, <1>2, <2>1 DEF ProgressInit, CoinsPaid
<1> QED BY <1>3, <1>4, <1>6, <1>7, <1>8 DEF ProgressInv

\* The invariant of the puzzle's progress holds in every reachable state: the journal's rows, the
\* requests and answers on their way, and the records of the server agree.
\* (PuzzleJournal, recordPuzzleAttempt)
THEOREM ProgressInvariance == ProgressSpec => []ProgressInv
<1>1. ProgressInit => ProgressInv
  BY ProgressStarts
<1>2. ProgressInv /\ [ProgressNext]_progressVars => ProgressInv'
  <2> SUFFICES ASSUME ProgressInv, [ProgressNext]_progressVars
               PROVE  ProgressInv'
    OBVIOUS
  <2>1. ASSUME NEW kind \in {"wrong", "reveal", "solve"}, Report(kind) PROVE ProgressInv'
    BY <2>1, ReportKeeps
  <2>2. ASSUME NEW s \in Scope, Identity(s) PROVE ProgressInv'
    BY <2>2, IdentityKeeps
  <2>3. CASE Sync
    BY <2>3, SyncKeeps
  <2>4. CASE TakeAnswer
    BY <2>4, TakeAnswerKeeps
  <2>5. CASE LoseAnswer
    BY <2>5, LoseAnswerKeeps
  <2>6. CASE ServeAttempt
    BY <2>6, ServeKeeps
  <2>7. CASE ServeLate
    BY <2>7, ServeLateKeeps
  <2>8. CASE Midnight \/ UNCHANGED progressVars
    BY <2>8, MidnightKeeps
  <2>9. ASSUME NEW u \in Member, OtherDevice(u) PROVE ProgressInv'
    BY <2>9, OtherDeviceKeeps
  <2> QED BY <2>1, <2>2, <2>3, <2>4, <2>5, <2>6, <2>7, <2>8, <2>9 DEF ProgressNext
<1> QED BY <1>1, <1>2, PTL DEF ProgressSpec

\* Whatever is lost, late or overtaken, and however accounts change, what the journal no longer
\* sends is on the server, a solve is on the server or on its way, and it is credited and paid once,
\* to those who solved.  (PuzzleJournal.sync, accept, setIdentity; recordPuzzleAttempt)
THEOREM ProgressIsNeverLost == ProgressSpec => []ProgressIsKept
<1>1. ProgressInv => ProgressIsKept
  <2> SUFFICES ASSUME ProgressInv
               PROVE  ProgressIsKept
    OBVIOUS
  <2>1. SyncedIsStored
    BY DEF ProgressInv, SyncedIsCovered, SyncedIsStored, Unsynced, Covers
  <2>2. SolvesAreKept
    <3> SUFFICES ASSUME NEW s \in claimed, ~stored[s].solved, ~stored[s].revealed
                 PROVE  rows[s].payload.solved /\ Unsynced(rows[s])
      BY DEF SolvesAreKept
    <3>1. rows[s].payload.solved /\ s \in Scope
      BY DEF ProgressInv, ProgressTypes, ClaimsAreKept
    <3>2. rows[s].synced # rows[s].payload
      BY <3>1 DEF ProgressInv, SyncedIsCovered, Covers
    <3> QED BY <3>1, <3>2, NothingDone DEF Unsynced
  <2>3. CoinsAreFair
    BY DEF ProgressInv, CoinsPaid, RevealsShow, CoinsAreFair
  <2> QED BY <2>1, <2>2, <2>3 DEF ProgressIsKept, ProgressInv
<1> QED BY <1>1, ProgressInvariance, PTL

------------------------------------------------------------------------------
(* Navigation: the inductive invariant *)

NilOr(S) == S \cup {Nil}
Screen == {"none", "game", "room-waiting", "replay", "search"}
View == [screen: Screen, tab: NilOr(Tab), replay: NilOr(Replay), member: NilOr(SessionSnapshot)]
Session == [snapshot: NilOr(SessionSnapshot), ready: BOOLEAN, pending: BOOLEAN]
Invitation == [code: NilOr(Code), begun: Nat, generation: Nat, stage: {"none", "checking", "sending"}]
Controller == [intent: Intent, lastTab: Tab, generation: Nat, identity: Nat, session: Session, view: View, data: NilOr(Replay),
               loading: BOOLEAN, error: BOOLEAN, invitation: Invitation, fetching: NilOr(Replay)]
ReplayPromise == [kind: {"replay"}, of: Replay, generation: Nat, stage: {"loading"}]
InvitePromise == [kind: {"invite"}, of: Code, generation: Nat, stage: {"checking", "sending"}]

\* Without an account there is nothing on the screen and nothing under way.
NobodyIsNowhere(n) == n.identity = 0 => n.view = NoView /\ n.invitation = NoInvite

\* A replay is fetched while the intent is to see it and nothing hides it.
FetchIsAsked(n) ==
    /\ n.fetching # Nil => n.identity # 0 /\ n.session.snapshot # Nil /\ n.intent.kind = "replay" /\ n.intent.of = n.fetching
                           /\ ScreenOf(n.session.snapshot, n.intent) = "replay"
    /\ n.data \in {Nil, n.fetching}

LoadingIsAwaited(n, p) ==
    n.loading => \/ \E q \in p : q.kind = "replay" /\ q.of = n.fetching /\ q.generation = n.generation
                 \/ n.invitation # NoInvite /\ n.invitation.generation = n.generation

\* An invitation is what the intent was when it was begun, and is while nothing has turned.
InvitationIsOld(n) ==
    \/ n.invitation = NoInvite
    \/ n.invitation.begun \in 1..n.generation /\ (n.invitation.begun = n.generation => n.intent.kind = "invite")

\* One promise an invitation, and it is the current one while nothing has turned.
PromisesAreOwn(n, p) ==
    /\ \A q \in p : q.kind = "invite" => q.generation \in 1..n.generation /\ (q.generation = n.generation => n.invitation.begun = q.generation)
    /\ \A q, o \in p : q.kind = "invite" /\ o.kind = "invite" /\ q.generation = o.generation => q = o

\* What every handler keeps before it reconciles.
InOrder(n, p, c) ==
    /\ n \in Controller /\ n.generation >= 1 /\ p \subseteq ReplayPromise \cup InvitePromise /\ c \in Nat
    /\ n.intent = Challenge => c >= 1
    /\ NobodyIsNowhere(n) /\ FetchIsAsked(n) /\ LoadingIsAwaited(n, p) /\ InvitationIsOld(n) /\ PromisesAreOwn(n, p)

\* Reconciled: the screen is the projection, unless a link is still to be acted on.
Shows(n) ==
    n.identity # 0 /\ n.session.snapshot # Nil /\ n.intent.kind \notin {"invite", "challenge"} =>
        n.view = Projection(n.session.snapshot, n.intent, n.lastTab)

AddressFollows == nav.identity # 0 => nav.view = NoView \/ place = Address(nav.view)

NavigationInv == InOrder(nav, promises, challenged) /\ Shows(nav) /\ AddressFollows

------------------------------------------------------------------------------
(* Navigation: intents, projections and reconciling *)

LEMMA IntentForms ==
    ASSUME NEW i \in Intent
    PROVE  /\ i.kind = "browse" => i.of \in Tab
           /\ i.kind = "replay" => i.of \in Replay
           /\ i.kind = "invite" => i.of \in Code /\ i = Invite(i.of)
           /\ i.kind = "challenge" => i = Challenge
           /\ i = Challenge => i.kind = "challenge"
BY DEF Intent, Browse, InSession, Challenge, Invite

LEMMA IntentsAre ==
    /\ InSession \in Intent /\ InSession.kind = "session" /\ InSession # Challenge
    /\ \A t \in Tab : Browse(t) \in Intent /\ Browse(t).kind = "browse" /\ Browse(t).of = t
    /\ \A c \in Code : Invite(c) \in Intent /\ Invite(c).kind = "invite"
BY DEF Intent, Browse, InSession, Challenge, Invite

LEMMA NothingShown ==
    /\ NoView \in View /\ NoInvite \in Invitation /\ NoSession \in Session /\ NoInvite.begun = 0 /\ NoSession.snapshot = Nil
    /\ NoView.member = Nil /\ [NoView EXCEPT !.screen = "none"] = NoView
<1>1. Lobby \in Tab
  BY NavigationAssumption
<1>2. NoView \in View /\ NoView.member = Nil /\ NoView.screen = "none"
  BY <1>1 DEF NoView, View, NilOr, Screen
<1>3. [NoView EXCEPT !.screen = "none"] = NoView
  BY <1>2 DEF NoView
<1>4. NoInvite \in Invitation /\ NoInvite.begun = 0
  BY DEF NoInvite, Invitation, NilOr
<1>5. NoSession \in Session /\ NoSession.snapshot = Nil
  BY DEF NoSession, Session, NilOr
<1> QED BY <1>2, <1>3, <1>4, <1>5

LEMMA ScreensOf ==
    ASSUME NEW s, NEW i
    PROVE  /\ ScreenOf(s, i) \in Screen
           /\ ScreenOf(s, i) = "replay" => i.kind = "replay"
<1> DEFINE waiting == CASE s.phase = "in-room" -> "room-waiting" [] s.phase = "matchmaking" -> "search" [] OTHER -> "none"
<1>1. waiting \in {"room-waiting", "search", "none"}
  <2>1. CASE s.phase = "in-room"
    BY <2>1
  <2>2. CASE s.phase = "matchmaking"
    BY <2>2
  <2>3. CASE s.phase # "in-room" /\ s.phase # "matchmaking"
    BY <2>3
  <2> QED BY <2>1, <2>2, <2>3
<1> HIDE DEF waiting
<1>2. ScreenOf(s, i) = IF s.phase = "in-game" \/ (s.phase = "spectating" /\ s.of # 0) THEN "game"
                       ELSE IF s.phase = "spectating" THEN "room-waiting"
                       ELSE IF i.kind = "replay" THEN "replay"
                       ELSE IF i.kind = "browse" THEN "none" ELSE waiting
  BY DEF ScreenOf, waiting
<1> QED BY <1>1, <1>2 DEF Screen

LEMMA ProjectionMeans ==
    ASSUME NEW s \in SessionSnapshot, NEW i \in Intent, NEW t \in Tab
    PROVE  /\ Projection(s, i, t) \in View
           /\ Projection(s, i, t).screen = ScreenOf(s, i)
           /\ Projection(s, i, t).replay = (IF ScreenOf(s, i) = "replay" THEN i.of ELSE Nil)
           /\ Projection(s, i, t).member = s
<1> DEFINE screen == ScreenOf(s, i)
           shown == IF i.kind = "browse" THEN i.of ELSE t
           replay == IF screen = "replay" THEN i.of ELSE Nil
<1>1. screen \in Screen /\ shown \in NilOr(Tab) /\ replay \in NilOr(Replay) /\ s \in NilOr(SessionSnapshot)
  BY IntentForms, ScreensOf DEF NilOr
<1>2. Projection(s, i, t) = [screen |-> screen, tab |-> shown, replay |-> replay, member |-> s]
  BY DEF Projection
<1>3. replay = (IF ScreenOf(s, i) = "replay" THEN i.of ELSE Nil) /\ screen = ScreenOf(s, i)
  OBVIOUS
<1> HIDE DEF screen, shown, replay
<1> QED BY <1>1, <1>2, <1>3 DEF View

LEMMA ControllerFields ==
    ASSUME NEW n \in Controller
    PROVE  /\ n.intent \in Intent /\ n.lastTab \in Tab /\ n.generation \in Nat /\ n.identity \in Nat /\ n.session \in Session
           /\ n.view \in View /\ n.data \in NilOr(Replay) /\ n.loading \in BOOLEAN /\ n.error \in BOOLEAN
           /\ n.invitation \in Invitation /\ n.fetching \in NilOr(Replay)
           /\ n.session.snapshot # Nil => n.session.snapshot \in SessionSnapshot
           /\ n.invitation.begun \in Nat /\ n.invitation.generation \in Nat
BY DEF Controller, Session, Invitation, NilOr

LEMMA ResultFields ==
    ASSUME NEW n, NEW p, NEW c
    PROVE  Result(n, p, c).nav = n /\ Result(n, p, c).promises = p /\ Result(n, p, c).challenged = c
BY DEF Result

AtRest(r) == InOrder(r.nav, r.promises, r.challenged) /\ Shows(r.nav)

LEMMA ProjectedSettles ==
    ASSUME NEW n, NEW p, NEW c, InOrder(n, p, c), n.identity # 0, n.session.snapshot # Nil, n.intent # Challenge
    PROVE  AtRest(ViewOf(Result(n, p, c)))
<1> DEFINE r == Result(n, p, c)
           next == Projection(n.session.snapshot, n.intent, n.lastTab)
           fetches == next.replay # Nil /\ n.fetching # next.replay
           fetching == IF fetches THEN next.replay ELSE n.fetching
           data == IF fetches THEN Nil ELSE n.data
           loading == n.loading \/ fetches
           error == n.error /\ ~fetches
           m == [n EXCEPT !.view = next, !.fetching = fetching, !.data = data, !.loading = loading, !.error = error]
           q == Fetch(next.replay, n)
           ps == IF fetches THEN p \cup {q} ELSE p
<1>1. r.nav = n /\ r.promises = p /\ r.challenged = c
  BY ResultFields
<1>2. /\ n \in Controller /\ n.generation >= 1 /\ p \subseteq ReplayPromise \cup InvitePromise /\ c \in Nat
      /\ NobodyIsNowhere(n) /\ FetchIsAsked(n) /\ LoadingIsAwaited(n, p) /\ InvitationIsOld(n) /\ PromisesAreOwn(n, p)
  BY DEF InOrder
<1>3. ViewOf(r) = Result(m, ps, c)
  <2> HIDE DEF r
  <2> QED BY <1>1 DEF ViewOf
<1>4. /\ next \in View /\ next.screen = ScreenOf(n.session.snapshot, n.intent)
      /\ next.replay = IF ScreenOf(n.session.snapshot, n.intent) = "replay" THEN n.intent.of ELSE Nil
      /\ n.intent.kind = "replay" => n.intent.of \in Replay
  BY <1>2, ControllerFields, ProjectionMeans, IntentForms
<1>5. fetches \in BOOLEAN /\ (fetches => next.replay # Nil /\ n.fetching # next.replay) /\ (~fetches => next.replay = Nil \/ n.fetching = next.replay)
  OBVIOUS
<1> HIDE DEF next, fetches
<1>6. /\ fetches => ScreenOf(n.session.snapshot, n.intent) = "replay" /\ n.intent.kind = "replay" /\ next.replay = n.intent.of /\ next.replay \in Replay
      /\ fetches => n.fetching = Nil
      /\ fetching = (IF fetches THEN next.replay ELSE n.fetching) /\ data = (IF fetches THEN Nil ELSE n.data)
      /\ loading = (n.loading \/ fetches)
  BY <1>2, <1>4, <1>5, ScreensOf DEF FetchIsAsked
<1>7. fetching \in NilOr(Replay) /\ data \in NilOr(Replay) /\ loading \in BOOLEAN /\ error \in BOOLEAN
  BY <1>2, <1>5, <1>6, ControllerFields DEF NilOr
<1> HIDE DEF fetching, data, loading, error
<1>8. /\ m \in Controller /\ m.view = next /\ m.fetching = fetching /\ m.data = data /\ m.loading = loading
      /\ m.intent = n.intent /\ m.lastTab = n.lastTab /\ m.generation = n.generation /\ m.identity = n.identity
      /\ m.session = n.session /\ m.invitation = n.invitation
  BY <1>2, <1>4, <1>7 DEF Controller
<1>9. fetches => q \in ReplayPromise /\ q.kind = "replay" /\ q.of = next.replay /\ q.generation = n.generation
  BY <1>2, <1>6, ControllerFields DEF Fetch, ReplayPromise
<1> HIDE DEF m, q
<1>10. /\ ps \subseteq ReplayPromise \cup InvitePromise /\ p \subseteq ps
       /\ \A o \in ps : o.kind = "invite" => o \in p
       /\ fetches => q \in ps
  BY <1>2, <1>9
<1> HIDE DEF ps
<1>11. NobodyIsNowhere(m)
  BY <1>8 DEF NobodyIsNowhere
<1>12. FetchIsAsked(m)
  BY <1>2, <1>6, <1>8 DEF FetchIsAsked
<1>13. LoadingIsAwaited(m, ps)
  <2>1. CASE fetches
    BY <1>6, <1>8, <1>9, <1>10, <2>1 DEF LoadingIsAwaited
  <2>2. CASE ~fetches
    BY <1>2, <1>6, <1>8, <1>10, <2>2 DEF LoadingIsAwaited
  <2> QED BY <2>1, <2>2
<1>14. InvitationIsOld(m)
  BY <1>2, <1>8 DEF InvitationIsOld
<1>15. PromisesAreOwn(m, ps)
  BY <1>2, <1>8, <1>10 DEF PromisesAreOwn
<1>16. Shows(m)
  BY <1>8 DEF Shows, next
<1>17. InOrder(m, ps, c)
  BY <1>2, <1>8, <1>10, <1>11, <1>12, <1>13, <1>14, <1>15 DEF InOrder
<1> QED BY <1>3, <1>16, <1>17, ResultFields DEF AtRest

LEMMA JoinInviteSettles ==
    ASSUME NEW n, NEW p, NEW c, InOrder(n, p, c), n.identity # 0, n.intent.kind = "invite", n.invitation = NoInvite
    PROVE  AtRest(JoinInvite(Result(n, p, c)))
<1> DEFINE r == Result(n, p, c)
           request == [code |-> n.intent.of, begun |-> n.generation, generation |-> n.generation, stage |-> "checking"]
           m == [n EXCEPT !.invitation = request, !.loading = TRUE, !.error = FALSE]
           q == [kind |-> "invite", of |-> n.intent.of, generation |-> n.generation, stage |-> "checking"]
           ps == p \cup {q}
<1>1. r.nav = n /\ r.promises = p /\ r.challenged = c
  BY ResultFields
<1>2. /\ n \in Controller /\ n.generation >= 1 /\ p \subseteq ReplayPromise \cup InvitePromise /\ c \in Nat
      /\ NobodyIsNowhere(n) /\ FetchIsAsked(n) /\ LoadingIsAwaited(n, p) /\ InvitationIsOld(n) /\ PromisesAreOwn(n, p)
      /\ (n.intent = Challenge => c >= 1) /\ n.generation \in Nat /\ n.intent.of \in Code
  BY ControllerFields, IntentForms DEF InOrder
<1>3. JoinInvite(r) = Result(m, ps, c)
  <2> HIDE DEF r
  <2> QED BY <1>1 DEF JoinInvite
<1>4. /\ request \in Invitation /\ request.begun = n.generation /\ request.generation = n.generation
      /\ request # NoInvite
  <2>1. request \in Invitation /\ request.begun = n.generation /\ request.generation = n.generation
    BY <1>2 DEF Invitation, NilOr
  <2> HIDE DEF request
  <2> QED BY <1>2, <2>1, NothingShown
<1>5. q \in InvitePromise /\ q.kind = "invite" /\ q.generation = n.generation
  BY <1>2 DEF InvitePromise
<1> HIDE DEF request, q
<1>6. /\ m \in Controller /\ m.view = n.view /\ m.fetching = n.fetching /\ m.data = n.data /\ m.loading
      /\ m.intent = n.intent /\ m.lastTab = n.lastTab /\ m.generation = n.generation /\ m.identity = n.identity
      /\ m.session = n.session /\ m.invitation = request
  BY <1>2, <1>4 DEF Controller
<1> HIDE DEF m
<1>7. NobodyIsNowhere(m)
  BY <1>6 DEF NobodyIsNowhere
<1>8. FetchIsAsked(m)
  BY <1>2, <1>6 DEF FetchIsAsked
<1>9. LoadingIsAwaited(m, ps)
  BY <1>4, <1>6 DEF LoadingIsAwaited
<1>10. InvitationIsOld(m)
  BY <1>2, <1>4, <1>6 DEF InvitationIsOld
<1>11. PromisesAreOwn(m, ps)
  <2>1. ASSUME NEW o \in p, o.kind = "invite"
        PROVE  o.generation \in 1..n.generation /\ o.generation # n.generation
    BY <1>2, <2>1, NothingShown DEF PromisesAreOwn
  <2> QED BY <1>2, <1>4, <1>5, <1>6, <2>1 DEF PromisesAreOwn
<1>12. Shows(m)
  BY <1>6 DEF Shows
<1>13. InOrder(m, ps, c)
  BY <1>2, <1>5, <1>6, <1>7, <1>8, <1>9, <1>10, <1>11 DEF InOrder
<1> QED BY <1>3, <1>12, <1>13, ResultFields DEF AtRest

LEMMA ReconciledSettles ==
    ASSUME NEW n, NEW p, NEW c, InOrder(n, p, c)
    PROVE  AtRest(Reconciled(Result(n, p, c)))
<1> DEFINE r == Result(n, p, c)
           idle == n.session.snapshot.phase = "idle"
           there == [n EXCEPT !.intent = InSession, !.error = @ \/ ~idle]
           blank == [n EXCEPT !.view = [@ EXCEPT !.screen = "none"], !.data = Nil]
<1>1. r.nav = n /\ r.promises = p /\ r.challenged = c
  BY ResultFields
<1>2. /\ n \in Controller /\ n.generation >= 1 /\ p \subseteq ReplayPromise \cup InvitePromise /\ c \in Nat
      /\ NobodyIsNowhere(n) /\ FetchIsAsked(n) /\ LoadingIsAwaited(n, p) /\ InvitationIsOld(n) /\ PromisesAreOwn(n, p)
      /\ (n.intent = Challenge => c >= 1) /\ n.intent \in Intent
  BY ControllerFields DEF InOrder
<1> HIDE DEF r
<1>3. CASE n.identity = 0
  <2>1. Reconciled(r) = Result(blank, p, c)
    BY <1>1, <1>3 DEF Reconciled
  <2>2. n.view = NoView /\ [n.view EXCEPT !.screen = "none"] = NoView
    BY <1>2, <1>3, NothingShown DEF NobodyIsNowhere
  <2>3. n.fetching = Nil
    BY <1>2, <1>3 DEF FetchIsAsked
  <2>4. blank = [n EXCEPT !.view = NoView, !.data = Nil]
    BY <2>2
  <2> HIDE DEF blank
  <2>5. /\ blank \in Controller /\ blank.view = NoView /\ blank.data = Nil /\ blank.identity = 0
        /\ blank.fetching = n.fetching /\ blank.loading = n.loading
        /\ blank.intent = n.intent /\ blank.generation = n.generation /\ blank.session = n.session /\ blank.invitation = n.invitation
    BY <1>2, <1>3, <2>4, NothingShown DEF Controller, NilOr
  <2>6. NobodyIsNowhere(blank) /\ FetchIsAsked(blank) /\ LoadingIsAwaited(blank, p) /\ InvitationIsOld(blank) /\ PromisesAreOwn(blank, p)
    BY <1>2, <1>3, <2>3, <2>5 DEF NobodyIsNowhere, FetchIsAsked, LoadingIsAwaited, InvitationIsOld, PromisesAreOwn
  <2>7. Shows(blank)
    BY <2>5 DEF Shows
  <2> QED BY <1>2, <2>1, <2>5, <2>6, <2>7, ResultFields DEF AtRest, InOrder, r
<1>4. Shows(n) => AtRest(r)
  BY <1>1 DEF AtRest
<1>5. CASE n.identity # 0 /\ n.session.snapshot = Nil
  <2>1. Reconciled(r) = r
    BY <1>1, <1>5 DEF Reconciled
  <2> QED BY <1>4, <1>5, <2>1 DEF Shows, r
\* A link that has been acted on, and a snapshot to show.
<1>6. ASSUME n.identity # 0, n.session.snapshot # Nil, n.intent.kind \in {"invite", "challenge"},
             NEW d \in Nat, n.intent.kind = "invite" => n.invitation = NoInvite
      PROVE  AtRest(ViewOf(Result(there, p, d)))
  <2> DEFINE error == n.error \/ ~idle
  <2>1. error \in BOOLEAN /\ there = [n EXCEPT !.intent = InSession, !.error = error]
    BY <1>2, ControllerFields
  <2> HIDE DEF error, there
  <2>2. /\ there \in Controller /\ there.view = n.view /\ there.fetching = n.fetching /\ there.data = n.data /\ there.loading = n.loading
        /\ there.intent = InSession /\ there.generation = n.generation /\ there.identity = n.identity
        /\ there.session = n.session /\ there.invitation = n.invitation
    BY <1>2, <2>1, IntentsAre DEF Controller
  <2>3. n.fetching = Nil
    BY <1>2, <1>6 DEF FetchIsAsked
  <2>4. InvitationIsOld(there)
    BY <1>2, <1>6, <2>2 DEF InvitationIsOld
  <2>5. NobodyIsNowhere(there) /\ FetchIsAsked(there) /\ LoadingIsAwaited(there, p) /\ PromisesAreOwn(there, p)
    BY <1>2, <1>6, <2>2, <2>3 DEF NobodyIsNowhere, FetchIsAsked, LoadingIsAwaited, PromisesAreOwn
  <2>6. InOrder(there, p, d)
    BY <1>2, <2>2, <2>4, <2>5, IntentsAre DEF InOrder
  <2> QED BY <1>6, <2>2, <2>6, IntentsAre, ProjectedSettles
<1>7. CASE n.identity # 0 /\ n.session.snapshot # Nil /\ n.intent = Challenge
  <2> DEFINE d == IF idle THEN c - 1 ELSE c
  <2>1. d \in Nat /\ n.intent.kind = "challenge"
    BY <1>2, <1>7, IntentForms
  <2>2. Reconciled(r) = IF ~Standing(n) THEN r ELSE ViewOf(Result(there, p, d))
    BY <1>1, <1>7 DEF Reconciled
  <2>3. Shows(n)
    BY <2>1 DEF Shows
  <2> HIDE DEF d
  <2> QED BY <1>4, <1>6, <1>7, <2>1, <2>2, <2>3 DEF r
<1>8. CASE n.identity # 0 /\ n.session.snapshot # Nil /\ n.intent.kind = "invite"
  <2>1. n.intent # Challenge
    BY <1>2, <1>8, IntentForms
  <2>2. Reconciled(r) = IF ~Standing(n) \/ n.invitation # NoInvite THEN r
                        ELSE IF idle THEN JoinInvite(r) ELSE ViewOf(Result(there, p, c))
    BY <1>1, <1>8, <2>1 DEF Reconciled
  <2>3. Shows(n)
    BY <1>8 DEF Shows
  <2> HIDE DEF there
  <2>4. n.invitation = NoInvite => AtRest(JoinInvite(r)) /\ AtRest(ViewOf(Result(there, p, c)))
    BY <1>2, <1>6, <1>8, JoinInviteSettles DEF r
  <2> QED BY <1>4, <2>2, <2>3, <2>4 DEF r
<1>9. CASE n.identity # 0 /\ n.session.snapshot # Nil /\ n.intent # Challenge /\ n.intent.kind # "invite"
  <2>1. Reconciled(r) = ViewOf(r)
    BY <1>1, <1>9 DEF Reconciled
  <2> QED BY <1>9, <2>1, ProjectedSettles DEF r
<1> QED BY <1>3, <1>5, <1>7, <1>8, <1>9 DEF r

------------------------------------------------------------------------------
(* Navigation: every step *)

LEMMA BecomesKeeps ==
    ASSUME NavigationInv, NEW n, NEW p, NEW c, InOrder(n, p, c), Becomes(Result(n, p, c))
    PROVE  NavigationInv'
<1> DEFINE final == Reconciled(Result(n, p, c))
<1>1. /\ nav' = final.nav /\ promises' = final.promises /\ challenged' = final.challenged
      /\ place' = IF final.nav.identity # 0 /\ final.nav.view # nav.view THEN Address(final.nav.view) ELSE place
  BY DEF Becomes
<1>2. AtRest(final)
  BY ReconciledSettles
<1> HIDE DEF final
<1>3. InOrder(nav, promises, challenged)' /\ Shows(nav)'
  BY <1>1, <1>2 DEF AtRest
<1>4. AddressFollows'
  BY <1>1 DEF AddressFollows, NavigationInv, InOrder, NobodyIsNowhere
<1> QED BY <1>3, <1>4 DEF NavigationInv

LEMMA TurnFields ==
    ASSUME NEW n \in Controller, NEW i \in Intent
    PROVE  /\ Turn(n, i) \in Controller /\ Turn(n, i).generation = n.generation + 1 /\ Turn(n, i).fetching = Nil /\ Turn(n, i).intent = i
           /\ Turn(n, i).data = Nil /\ ~Turn(n, i).loading /\ Turn(n, i).identity = n.identity /\ Turn(n, i).session = n.session
           /\ Turn(n, i).view = n.view /\ Turn(n, i).invitation = n.invitation
<1> DEFINE shown == IF i.kind = "browse" THEN i.of ELSE n.lastTab
           next == n.generation + 1
           m == [n EXCEPT !.generation = next, !.fetching = Nil, !.intent = i, !.data = Nil, !.loading = FALSE, !.error = FALSE, !.lastTab = shown]
<1>1. shown \in Tab /\ next \in Nat /\ Nil \in NilOr(Replay)
  BY ControllerFields, IntentForms DEF NilOr
<1>2. Turn(n, i) = m
  BY DEF Turn
<1>3. next = n.generation + 1
  OBVIOUS
<1> HIDE DEF shown, next
<1>4. /\ m \in Controller /\ m.generation = next /\ m.fetching = Nil /\ m.intent = i
      /\ m.data = Nil /\ m.loading = FALSE /\ m.identity = n.identity /\ m.session = n.session
      /\ m.view = n.view /\ m.invitation = n.invitation
  BY <1>1 DEF Controller
<1> QED BY <1>2, <1>3, <1>4

\* What holds after a turn whatever becomes of the rest.
LEMMA TurnsKeep ==
    ASSUME NEW n, NEW p, NEW c, InOrder(n, p, c), NEW d \in Nat, NEW m \in Controller,
           m.generation = n.generation + 1, m.fetching = Nil, m.data = Nil, ~m.loading, m.intent = Challenge => d >= 1,
           m.invitation = NoInvite \/ m.invitation.begun = n.invitation.begun, n.invitation = NoInvite => m.invitation = NoInvite,
           m.identity = 0 => m.view = NoView /\ m.invitation = NoInvite
    PROVE  InOrder(m, p, d)
<1>1. /\ n \in Controller /\ n.generation >= 1 /\ p \subseteq ReplayPromise \cup InvitePromise /\ n.generation \in Nat
      /\ InvitationIsOld(n) /\ PromisesAreOwn(n, p)
  BY ControllerFields DEF InOrder
<1>2. NobodyIsNowhere(m) /\ FetchIsAsked(m) /\ LoadingIsAwaited(m, p)
  BY DEF NobodyIsNowhere, FetchIsAsked, LoadingIsAwaited
<1>3. InvitationIsOld(m)
  BY <1>1 DEF InvitationIsOld
<1>4. PromisesAreOwn(m, p)
  BY <1>1 DEF PromisesAreOwn
<1> QED BY <1>1, <1>2, <1>3, <1>4 DEF InOrder

LEMMA VisitKeeps ==
    ASSUME NavigationInv, NEW i \in Intent, Visit(i)
    PROVE  NavigationInv'
<1> DEFINE d == challenged + (IF i = Challenge THEN 1 ELSE 0)
<1>1. InOrder(nav, promises, challenged) /\ nav \in Controller /\ challenged \in Nat
  BY DEF NavigationInv, InOrder
<1>2. d \in Nat /\ (i = Challenge => d >= 1)
  BY <1>1
<1>3. Becomes(Result(Turn(nav, i), promises, d))
  BY DEF Visit
<1> HIDE DEF d
<1> DEFINE t == Turn(nav, i)
<1>5. /\ t \in Controller /\ t.generation = nav.generation + 1 /\ t.fetching = Nil /\ t.intent = i /\ t.data = Nil /\ ~t.loading
      /\ t.identity = nav.identity /\ t.view = nav.view /\ t.invitation = nav.invitation
  BY <1>1, TurnFields
<1>6. nav.identity = 0 => nav.view = NoView /\ nav.invitation = NoInvite
  BY <1>1 DEF InOrder, NobodyIsNowhere
<1> HIDE DEF t
<1>7. InOrder(t, promises, d)
  BY <1>1, <1>2, <1>5, <1>6, TurnsKeep
<1>4. InOrder(Turn(nav, i), promises, d)
  BY <1>7 DEF t
<1> QED BY <1>3, <1>4, BecomesKeeps

LEMMA AbandonKeeps ==
    ASSUME NavigationInv, NEW code \in Code, Abandon(code)
    PROVE  NavigationInv'
<1> DEFINE t == Turn(nav, Browse(Lobby))
           m == [t EXCEPT !.invitation = NoInvite, !.fetching = nav.fetching, !.data = nav.data]
<1>1. InOrder(nav, promises, challenged) /\ nav \in Controller /\ challenged \in Nat /\ FetchIsAsked(nav) /\ NobodyIsNowhere(nav)
  BY DEF NavigationInv, InOrder
<1>2. nav.intent = Invite(code) /\ Becomes(Result(m, promises, challenged))
  BY DEF Abandon
<1>3. nav.fetching = Nil /\ nav.data = Nil
  BY <1>1, <1>2, IntentsAre DEF FetchIsAsked
<1>4. Browse(Lobby) \in Intent /\ Browse(Lobby) # Challenge
  BY IntentsAre, IntentForms, NavigationAssumption
<1>5. /\ t \in Controller /\ t.generation = nav.generation + 1 /\ t.fetching = Nil /\ t.data = Nil /\ ~t.loading
      /\ t.intent = Browse(Lobby) /\ t.identity = nav.identity /\ t.view = nav.view
  BY <1>1, <1>4, TurnFields
<1> HIDE DEF t
<1>6. /\ m \in Controller /\ m.generation = nav.generation + 1 /\ m.fetching = Nil /\ m.data = Nil /\ ~m.loading
      /\ m.intent = Browse(Lobby) /\ m.identity = nav.identity /\ m.view = nav.view /\ m.invitation = NoInvite
  BY <1>3, <1>5, NothingShown DEF Controller
<1> HIDE DEF m
<1>7. InOrder(m, promises, challenged)
  BY <1>1, <1>4, <1>6, TurnsKeep DEF NobodyIsNowhere
<1> QED BY <1>2, <1>7, BecomesKeeps

LEMMA SetIdentityKeeps ==
    ASSUME NavigationInv, NEW id \in 0..2, SetIdentity(id)
    PROVE  NavigationInv'
<1> DEFINE t == Turn(nav, Browse(Lobby))
           fresh == [t EXCEPT !.identity = id, !.invitation = NoInvite, !.session = NoSession, !.view = NoView]
           named == [nav EXCEPT !.identity = id]
<1>1. /\ InOrder(nav, promises, challenged) /\ nav \in Controller /\ challenged \in Nat /\ nav.generation >= 1
      /\ FetchIsAsked(nav) /\ NobodyIsNowhere(nav) /\ LoadingIsAwaited(nav, promises) /\ InvitationIsOld(nav) /\ PromisesAreOwn(nav, promises)
      /\ promises \subseteq ReplayPromise \cup InvitePromise /\ (nav.intent = Challenge => challenged >= 1)
  BY DEF NavigationInv, InOrder
<1>2. id # nav.identity /\ Becomes(Result(IF nav.identity # 0 THEN fresh ELSE named, promises, challenged))
  BY DEF SetIdentity
<1>3. Browse(Lobby) \in Intent /\ Browse(Lobby) # Challenge
  BY IntentsAre, IntentForms, NavigationAssumption
<1>4. t \in Controller /\ t.generation = nav.generation + 1 /\ t.fetching = Nil /\ t.data = Nil /\ ~t.loading /\ t.intent = Browse(Lobby)
  BY <1>1, <1>3, TurnFields
<1> HIDE DEF t
<1>5. /\ fresh \in Controller /\ fresh.generation = nav.generation + 1 /\ fresh.fetching = Nil /\ fresh.data = Nil /\ ~fresh.loading
      /\ fresh.intent = Browse(Lobby) /\ fresh.identity = id /\ fresh.view = NoView /\ fresh.invitation = NoInvite
  <2>1. id \in Nat
    OBVIOUS
  <2>2. fresh = [[[[t EXCEPT !.identity = id] EXCEPT !.invitation = NoInvite] EXCEPT !.session = NoSession] EXCEPT !.view = NoView]
    OBVIOUS
  <2> HIDE DEF fresh
  <2> QED BY <1>4, <2>1, <2>2, NothingShown DEF Controller
<1>6. /\ named \in Controller /\ named.identity = id /\ named.generation = nav.generation /\ named.fetching = nav.fetching
      /\ named.data = nav.data /\ named.loading = nav.loading /\ named.intent = nav.intent /\ named.session = nav.session
      /\ named.view = nav.view /\ named.invitation = nav.invitation
  BY <1>1 DEF Controller
<1> HIDE DEF fresh, named
<1>7. CASE nav.identity # 0
  <2>1. InOrder(fresh, promises, challenged)
    BY <1>1, <1>3, <1>5, TurnsKeep
  <2> QED BY <1>2, <1>7, <2>1, BecomesKeeps
<1>8. CASE nav.identity = 0
  <2>1. nav.fetching = Nil
    BY <1>1, <1>8 DEF FetchIsAsked
  <2>2. NobodyIsNowhere(named) /\ FetchIsAsked(named) /\ LoadingIsAwaited(named, promises) /\ InvitationIsOld(named)
        /\ PromisesAreOwn(named, promises)
    BY <1>1, <1>6, <1>8, <2>1 DEF NobodyIsNowhere, FetchIsAsked, LoadingIsAwaited, InvitationIsOld, PromisesAreOwn
  <2>3. InOrder(named, promises, challenged)
    BY <1>1, <1>6, <2>2 DEF InOrder
  <2> QED BY <1>2, <1>8, <2>3, BecomesKeeps
<1> QED BY <1>7, <1>8

LEMMA SetSessionKeeps ==
    ASSUME NavigationInv, SetSession
    PROVE  NavigationInv'
<1>1. PICK snapshot \in SessionSnapshot, ready \in BOOLEAN, pending \in BOOLEAN :
          Becomes(Result(SessionTaken([snapshot |-> snapshot, ready |-> ready, pending |-> pending]), promises, challenged))
  BY DEF SetSession
<1> DEFINE session == [snapshot |-> snapshot, ready |-> ready, pending |-> pending]
           moved == nav.session.snapshot # Nil /\ session.snapshot # Nil /\ nav.session.snapshot # session.snapshot
           completing == nav.invitation.stage = "sending" /\ nav.intent.kind = "invite"
           generation == IF completing THEN nav.generation + 1 ELSE nav.invitation.generation
           invitation == [nav.invitation EXCEPT !.generation = generation]
           next == nav.generation + 1
           there == [nav EXCEPT !.session = session, !.generation = next, !.fetching = Nil, !.intent = InSession, !.data = Nil,
                                !.loading = FALSE, !.error = FALSE, !.invitation = invitation]
           stays == [nav EXCEPT !.session = session]
<1>2. /\ InOrder(nav, promises, challenged) /\ nav \in Controller /\ challenged \in Nat /\ nav.generation >= 1
      /\ FetchIsAsked(nav) /\ NobodyIsNowhere(nav) /\ LoadingIsAwaited(nav, promises) /\ InvitationIsOld(nav) /\ PromisesAreOwn(nav, promises)
      /\ promises \subseteq ReplayPromise \cup InvitePromise /\ (nav.intent = Challenge => challenged >= 1) /\ nav.generation \in Nat
      /\ nav.identity # 0
  BY ControllerFields DEF NavigationInv, InOrder, SetSession
<1>3. session \in Session /\ session.snapshot = snapshot /\ snapshot # Nil
  BY SnapshotAssumption DEF Session, NilOr
<1>4. SessionTaken(session) = IF moved THEN there ELSE stays
  BY DEF SessionTaken
<1>5. generation \in Nat /\ nav.invitation \in Invitation
  BY <1>2, ControllerFields
<1>6. /\ invitation \in Invitation /\ invitation.begun = nav.invitation.begun
      /\ nav.invitation = NoInvite => invitation = NoInvite
  <2>1. nav.invitation = NoInvite => generation = NoInvite.generation
    BY DEF NoInvite
  <2> HIDE DEF generation
  <2> QED BY <1>5, <2>1 DEF Invitation, NoInvite
<1> HIDE DEF session, invitation
<1>7. next \in Nat /\ next = nav.generation + 1 /\ Nil \in NilOr(Replay)
  BY <1>2 DEF NilOr
<1> HIDE DEF next
<1>8. /\ there \in Controller /\ there.generation = nav.generation + 1 /\ there.fetching = Nil /\ there.data = Nil /\ ~there.loading
      /\ there.intent = InSession /\ there.identity = nav.identity /\ there.invitation = invitation
  BY <1>2, <1>3, <1>6, <1>7, IntentsAre DEF Controller
<1>9. /\ stays \in Controller /\ stays.identity = nav.identity /\ stays.generation = nav.generation /\ stays.fetching = nav.fetching
      /\ stays.data = nav.data /\ stays.loading = nav.loading /\ stays.intent = nav.intent /\ stays.session = session
      /\ stays.view = nav.view /\ stays.invitation = nav.invitation
  BY <1>2, <1>3 DEF Controller
<1> HIDE DEF there, stays
<1>10. InOrder(there, promises, challenged)
  BY <1>2, <1>6, <1>8, IntentsAre, TurnsKeep
<1>11. ~moved => InOrder(stays, promises, challenged)
  <2> SUFFICES ASSUME ~moved
               PROVE  InOrder(stays, promises, challenged)
    OBVIOUS
  <2>1. nav.session.snapshot = Nil \/ nav.session.snapshot = session.snapshot
    BY <1>3
  <2>2. NobodyIsNowhere(stays) /\ FetchIsAsked(stays) /\ LoadingIsAwaited(stays, promises) /\ InvitationIsOld(stays)
        /\ PromisesAreOwn(stays, promises)
    BY <1>2, <1>3, <1>9, <2>1 DEF NobodyIsNowhere, FetchIsAsked, LoadingIsAwaited, InvitationIsOld, PromisesAreOwn
  <2> QED BY <1>2, <1>9, <2>2 DEF InOrder
<1> HIDE DEF moved
<1>12. InOrder(SessionTaken(session), promises, challenged)
  BY <1>4, <1>10, <1>11
<1> QED BY <1>1, <1>12, BecomesKeeps DEF session

LEMMA FewerPromises ==
    ASSUME NEW n, NEW p, NEW c, InOrder(n, p, c), NEW q \in p, q.kind = "invite"
    PROVE  InOrder(n, p \ {q}, c)
<1>1. LoadingIsAwaited(n, p \ {q}) /\ PromisesAreOwn(n, p \ {q})
  BY DEF InOrder, LoadingIsAwaited, PromisesAreOwn
<1> QED BY <1>1 DEF InOrder

LEMMA ReplayLoadedKeeps ==
    ASSUME NavigationInv, NEW p \in promises, ReplayLoaded(p)
    PROVE  NavigationInv'
<1> DEFINE current == nav.fetching = p.of /\ nav.generation = p.generation
<1>1. /\ nav \in Controller /\ nav.generation >= 1 /\ promises \subseteq ReplayPromise \cup InvitePromise /\ challenged \in Nat
      /\ (nav.intent = Challenge => challenged >= 1)
      /\ NobodyIsNowhere(nav) /\ FetchIsAsked(nav) /\ LoadingIsAwaited(nav, promises) /\ InvitationIsOld(nav) /\ PromisesAreOwn(nav, promises)
  BY DEF NavigationInv, InOrder
<1>2. p.kind = "replay" /\ promises' = promises \ {p} /\ UNCHANGED <<place, visits, sessions, challenged>>
  BY DEF ReplayLoaded
<1>3. PICK found \in BOOLEAN :
          nav' = IF ~current THEN nav ELSE [nav EXCEPT !.data = IF found THEN p.of ELSE @, !.error = @ \/ ~found, !.loading = FALSE]
  BY DEF ReplayLoaded
<1>4. p.of \in Replay
  BY <1>1, <1>2 DEF ReplayPromise, InvitePromise
<1>5. /\ nav' \in Controller /\ nav'.identity = nav.identity /\ nav'.generation = nav.generation /\ nav'.fetching = nav.fetching
      /\ nav'.data \in {nav.data, nav.fetching} /\ (nav'.loading => nav.loading /\ ~current) /\ nav'.intent = nav.intent
      /\ nav'.session = nav.session /\ nav'.view = nav.view /\ nav'.invitation = nav.invitation /\ nav'.lastTab = nav.lastTab
  <2>1. CASE ~current
    BY <1>1, <1>3, <2>1
  <2>2. CASE current
    <3> DEFINE data == IF found THEN p.of ELSE nav.data
               error == nav.error \/ ~found
    <3>1. data \in NilOr(Replay) /\ error \in BOOLEAN /\ data \in {nav.data, nav.fetching}
      BY <1>1, <1>4, <2>2, ControllerFields DEF NilOr
    <3>2. nav' = [[[nav EXCEPT !.data = data] EXCEPT !.error = error] EXCEPT !.loading = FALSE]
      BY <1>3, <2>2
    <3> HIDE DEF data, error
    <3> QED BY <1>1, <3>1, <3>2 DEF Controller
  <2> QED BY <2>1, <2>2
<1>6. nav'.loading => LoadingIsAwaited(nav', promises')
  BY <1>1, <1>2, <1>5 DEF LoadingIsAwaited
<1>7. /\ NobodyIsNowhere(nav') /\ FetchIsAsked(nav') /\ LoadingIsAwaited(nav', promises') /\ InvitationIsOld(nav')
      /\ PromisesAreOwn(nav', promises')
  BY <1>1, <1>2, <1>5, <1>6 DEF NobodyIsNowhere, FetchIsAsked, LoadingIsAwaited, InvitationIsOld, PromisesAreOwn
<1>8. Shows(nav)' /\ AddressFollows'
  BY <1>2, <1>5 DEF NavigationInv, Shows, AddressFollows
<1> QED BY <1>1, <1>2, <1>5, <1>7, <1>8 DEF NavigationInv, InOrder

\* The end of an invitation, after the intent and the error may have changed.
LEMMA InviteDoneKeeps ==
    ASSUME NavigationInv, NEW p \in promises, p.kind = "invite", NEW i \in Intent, NEW e \in BOOLEAN,
           i = Challenge => challenged >= 1, i = nav.intent \/ nav.fetching = Nil,
           InviteDone([nav EXCEPT !.intent = i, !.error = e], p), OwnInvite(p)
    PROVE  NavigationInv'
<1> DEFINE n == [nav EXCEPT !.intent = i, !.error = e]
           loading == IF n.generation = nav.invitation.generation THEN FALSE ELSE n.loading
           m == [n EXCEPT !.invitation = NoInvite, !.loading = loading]
           ps == promises \ {p}
<1>1. /\ nav \in Controller /\ nav.generation >= 1 /\ promises \subseteq ReplayPromise \cup InvitePromise /\ challenged \in Nat
      /\ nav.generation \in Nat /\ nav.loading \in BOOLEAN
      /\ NobodyIsNowhere(nav) /\ FetchIsAsked(nav) /\ LoadingIsAwaited(nav, promises) /\ InvitationIsOld(nav) /\ PromisesAreOwn(nav, promises)
  BY ControllerFields DEF NavigationInv, InOrder
<1>2. Becomes(Result(m, ps, challenged))
  BY DEF InviteDone
<1>3. /\ n \in Controller /\ n.intent = i /\ n.identity = nav.identity /\ n.generation = nav.generation /\ n.fetching = nav.fetching
      /\ n.data = nav.data /\ n.loading = nav.loading /\ n.session = nav.session /\ n.view = nav.view
  BY <1>1 DEF Controller
<1> HIDE DEF n
<1>4. loading \in BOOLEAN /\ (loading => nav.loading /\ nav.generation # nav.invitation.generation)
  BY <1>1, <1>3
<1> HIDE DEF loading
<1>5. /\ m \in Controller /\ m.intent = i /\ m.identity = nav.identity /\ m.generation = nav.generation /\ m.fetching = nav.fetching
      /\ m.data = nav.data /\ m.loading = loading /\ m.session = nav.session /\ m.view = nav.view /\ m.invitation = NoInvite
  BY <1>3, <1>4, NothingShown DEF Controller
<1> HIDE DEF m
<1>6. NobodyIsNowhere(m) /\ FetchIsAsked(m) /\ InvitationIsOld(m)
  BY <1>1, <1>5 DEF NobodyIsNowhere, FetchIsAsked, InvitationIsOld
<1>7. LoadingIsAwaited(m, ps)
  BY <1>1, <1>4, <1>5 DEF LoadingIsAwaited
<1>8. PromisesAreOwn(m, ps)
  BY <1>1, <1>5 DEF PromisesAreOwn, OwnInvite
<1>9. InOrder(m, ps, challenged)
  BY <1>1, <1>5, <1>6, <1>7, <1>8 DEF InOrder
<1> HIDE DEF ps
<1> QED BY <1>2, <1>9, BecomesKeeps

\* An answer to an invitation that is no longer the one under way is dropped.
LEMMA DroppedKeeps ==
    ASSUME NavigationInv, NEW p \in promises, p.kind = "invite", UNCHANGED <<nav, place, challenged>>, promises' = promises \ {p}
    PROVE  NavigationInv'
<1>1. InOrder(nav, promises \ {p}, challenged)
  BY FewerPromises DEF NavigationInv
<1>2. InOrder(nav, promises, challenged)'
  BY <1>1
<1> QED BY <1>2 DEF NavigationInv, Shows, AddressFollows

LEMMA InviteCheckedKeeps ==
    ASSUME NavigationInv, NEW p \in promises, InviteChecked(p)
    PROVE  NavigationInv'
<1>1. /\ nav \in Controller /\ nav.generation >= 1 /\ promises \subseteq ReplayPromise \cup InvitePromise /\ challenged \in Nat
      /\ (nav.intent = Challenge => challenged >= 1) /\ nav.intent \in Intent /\ nav.lastTab \in Tab /\ nav.error \in BOOLEAN
      /\ nav.generation \in Nat /\ nav.invitation \in Invitation
      /\ NobodyIsNowhere(nav) /\ FetchIsAsked(nav) /\ LoadingIsAwaited(nav, promises) /\ InvitationIsOld(nav) /\ PromisesAreOwn(nav, promises)
  BY ControllerFields DEF NavigationInv, InOrder
<1>2. p.kind = "invite" /\ p.stage = "checking" /\ p \in InvitePromise /\ p.generation \in 1..nav.generation
  BY <1>1 DEF InviteChecked, ReplayPromise, PromisesAreOwn
<1>3. CASE ~OwnInvite(p)
  BY <1>2, <1>3, DroppedKeeps DEF InviteChecked
<1>4. ASSUME OwnInvite(p), Mine(p), InviteDone([nav EXCEPT !.intent = Browse(nav.lastTab)], p)
      PROVE  NavigationInv'
  <2>1. nav.fetching = Nil
    BY <1>1, <1>2, <1>4, IntentsAre DEF FetchIsAsked, Mine, InvitePromise
  <2>2. Browse(nav.lastTab) \in Intent /\ Browse(nav.lastTab) # Challenge
    BY <1>1, IntentsAre, IntentForms
  <2>3. [nav EXCEPT !.intent = Browse(nav.lastTab)] = [nav EXCEPT !.intent = Browse(nav.lastTab), !.error = nav.error]
    BY <1>1 DEF Controller
  <2> QED BY <1>1, <1>2, <1>4, <2>1, <2>2, <2>3, InviteDoneKeeps
<1>5. ASSUME OwnInvite(p), nav.generation = p.generation, InviteDone([nav EXCEPT !.intent = InSession, !.error = TRUE], p)
      PROVE  NavigationInv'
  <2>1. nav.intent.kind = "invite"
    BY <1>1, <1>2, <1>5, NothingShown DEF InvitationIsOld, OwnInvite
  <2>2. nav.fetching = Nil
    BY <1>1, <2>1 DEF FetchIsAsked
  <2> QED BY <1>2, <1>5, <2>2, IntentsAre, InviteDoneKeeps
<1>6. ASSUME OwnInvite(p), InviteDone(nav, p)
      PROVE  NavigationInv'
  <2>1. nav = [nav EXCEPT !.intent = nav.intent, !.error = nav.error]
    BY <1>1 DEF Controller
  <2> QED BY <1>1, <1>2, <1>6, <2>1, InviteDoneKeeps
<1>7. ASSUME OwnInvite(p), nav' = [nav EXCEPT !.invitation.stage = "sending"],
             promises' = (promises \ {p}) \cup {[p EXCEPT !.stage = "sending"]}, UNCHANGED <<place, challenged>>
      PROVE  NavigationInv'
  <2> DEFINE q == [p EXCEPT !.stage = "sending"]
             invitation == [nav.invitation EXCEPT !.stage = "sending"]
  <2>1. q \in InvitePromise /\ q.kind = "invite" /\ q.generation = p.generation
    BY <1>2 DEF InvitePromise
  <2>2. invitation \in Invitation /\ invitation.begun = nav.invitation.begun /\ invitation.generation = nav.invitation.generation
    BY <1>1 DEF Invitation
  <2>3. nav' = [nav EXCEPT !.invitation = invitation]
    BY <1>7
  <2> HIDE DEF q, invitation
  <2>4. /\ nav' \in Controller /\ nav'.identity = nav.identity /\ nav'.generation = nav.generation /\ nav'.fetching = nav.fetching
        /\ nav'.data = nav.data /\ nav'.loading = nav.loading /\ nav'.intent = nav.intent /\ nav'.lastTab = nav.lastTab
        /\ nav'.session = nav.session /\ nav'.view = nav.view /\ nav'.invitation = invitation
    BY <1>1, <2>2, <2>3 DEF Controller
  <2>5. nav.invitation # NoInvite /\ invitation # NoInvite
    BY <1>2, <1>7, <2>2, NothingShown DEF OwnInvite
  <2>6. promises' = (promises \ {p}) \cup {q}
    BY <1>7 DEF q
  <2>7. NobodyIsNowhere(nav') /\ FetchIsAsked(nav') /\ InvitationIsOld(nav')
    BY <1>1, <2>2, <2>4, <2>5 DEF NobodyIsNowhere, FetchIsAsked, InvitationIsOld
  <2>8. LoadingIsAwaited(nav', promises')
    BY <1>1, <1>2, <2>2, <2>4, <2>5, <2>6 DEF LoadingIsAwaited
  <2>9. PromisesAreOwn(nav', promises')
    BY <1>1, <1>2, <2>1, <2>2, <2>4, <2>6 DEF PromisesAreOwn
  <2>10. InOrder(nav, promises, challenged)'
    BY <1>1, <1>7, <2>1, <2>4, <2>6, <2>7, <2>8, <2>9 DEF InOrder
  <2>11. Shows(nav)' /\ AddressFollows'
    BY <1>7, <2>4 DEF NavigationInv, Shows, AddressFollows
  <2> QED BY <2>10, <2>11 DEF NavigationInv
<1> QED BY <1>3, <1>4, <1>5, <1>6, <1>7 DEF InviteChecked

LEMMA InviteAnsweredKeeps ==
    ASSUME NavigationInv, NEW p \in promises, InviteAnswered(p)
    PROVE  NavigationInv'
<1> DEFINE i == IF Mine(p) THEN InSession ELSE nav.intent
           there == IF Mine(p) THEN [nav EXCEPT !.intent = InSession] ELSE nav
<1>1. /\ nav \in Controller /\ promises \subseteq ReplayPromise \cup InvitePromise /\ challenged \in Nat
      /\ (nav.intent = Challenge => challenged >= 1) /\ nav.intent \in Intent /\ nav.error \in BOOLEAN /\ FetchIsAsked(nav)
  BY ControllerFields DEF NavigationInv, InOrder
<1>2. p.kind = "invite" /\ p \in InvitePromise
  BY <1>1 DEF InviteAnswered, ReplayPromise
<1>3. CASE ~OwnInvite(p)
  BY <1>2, <1>3, DroppedKeeps DEF InviteAnswered
<1>4. CASE OwnInvite(p)
  <2>1. PICK ok \in BOOLEAN : InviteDone([there EXCEPT !.error = @ \/ (~ok /\ nav.generation = nav.invitation.generation)], p)
    BY <1>4 DEF InviteAnswered
  <2> DEFINE e == nav.error \/ (~ok /\ nav.generation = nav.invitation.generation)
  <2>2. e \in BOOLEAN /\ i \in Intent /\ (i = Challenge => challenged >= 1)
    BY <1>1, IntentsAre
  <2>3. i = nav.intent \/ nav.fetching = Nil
    BY <1>1, <1>2, IntentsAre DEF FetchIsAsked, Mine, InvitePromise
  <2>4. [there EXCEPT !.error = @ \/ (~ok /\ nav.generation = nav.invitation.generation)] = [nav EXCEPT !.intent = i, !.error = e]
    <3>1. CASE Mine(p)
      BY <1>1, <3>1 DEF Controller
    <3>2. CASE ~Mine(p)
      BY <1>1, <3>2 DEF Controller
    <3> QED BY <3>1, <3>2
  <2> HIDE DEF e, i, there
  <2> QED BY <1>2, <1>4, <2>1, <2>2, <2>3, <2>4, InviteDoneKeeps
<1> QED BY <1>3, <1>4

LEMMA NavigationStarts ==
    ASSUME NavigationInit
    PROVE  NavigationInv
<1>1. PICK i \in Intent :
          nav = [intent |-> i, lastTab |-> Lobby, generation |-> 1, identity |-> 0, session |-> NoSession, view |-> NoView,
                 data |-> Nil, loading |-> FALSE, error |-> FALSE, invitation |-> NoInvite, fetching |-> Nil]
  BY DEF NavigationInit
<1>2. Nil \in NilOr(Replay) /\ Lobby \in Tab
  BY NavigationAssumption DEF NilOr
<1>3. /\ nav \in Controller /\ nav.generation = 1 /\ nav.identity = 0 /\ nav.view = NoView /\ nav.data = Nil /\ nav.loading = FALSE
      /\ nav.invitation = NoInvite /\ nav.fetching = Nil
  BY <1>1, <1>2, NothingShown DEF Controller
<1>4. promises = {} /\ challenged = IF nav.intent = Challenge THEN 1 ELSE 0
  BY DEF NavigationInit
<1>5. NobodyIsNowhere(nav) /\ FetchIsAsked(nav) /\ LoadingIsAwaited(nav, promises) /\ InvitationIsOld(nav) /\ PromisesAreOwn(nav, promises)
  BY <1>3, <1>4 DEF NobodyIsNowhere, FetchIsAsked, LoadingIsAwaited, InvitationIsOld, PromisesAreOwn
<1>6. InOrder(nav, promises, challenged)
  BY <1>3, <1>4, <1>5 DEF InOrder
<1> QED BY <1>3, <1>6 DEF NavigationInv, Shows, AddressFollows

\* The invariant of the page's navigation holds in every reachable state: controller, promises and
\* address agree.  (NavigationController)
THEOREM NavigationInvariance == NavigationSpec => []NavigationInv
<1>1. NavigationInit => NavigationInv
  BY NavigationStarts
<1>2. NavigationInv /\ [NavigationNext]_navigationVars => NavigationInv'
  <2> SUFFICES ASSUME NavigationInv, [NavigationNext]_navigationVars
               PROVE  NavigationInv'
    OBVIOUS
  <2>1. ASSUME NEW i \in Intent, Visit(i) PROVE NavigationInv'
    BY <2>1, VisitKeeps
  <2>2. ASSUME NEW code \in Code, Abandon(code) PROVE NavigationInv'
    BY <2>2, AbandonKeeps
  <2>3. ASSUME NEW id \in 0..2, SetIdentity(id) PROVE NavigationInv'
    BY <2>3, SetIdentityKeeps
  <2>4. CASE SetSession
    BY <2>4, SetSessionKeeps
  <2>5. ASSUME NEW p \in promises, ReplayLoaded(p) PROVE NavigationInv'
    BY <2>5, ReplayLoadedKeeps
  <2>6. ASSUME NEW p \in promises, InviteChecked(p) PROVE NavigationInv'
    BY <2>6, InviteCheckedKeeps
  <2>7. ASSUME NEW p \in promises, InviteAnswered(p) PROVE NavigationInv'
    BY <2>7, InviteAnsweredKeeps
  <2>8. CASE UNCHANGED navigationVars
    <3>1. InOrder(nav, promises, challenged)'
      BY <2>8 DEF NavigationInv, navigationVars
    <3> QED BY <2>8, <3>1 DEF NavigationInv, Shows, AddressFollows, navigationVars
  <2> QED BY <2>1, <2>2, <2>3, <2>4, <2>5, <2>6, <2>7, <2>8 DEF NavigationNext
<1> QED BY <1>1, <1>2, PTL DEF NavigationSpec

\* However answers, snapshots, accounts and the player's own steps interleave, screen and address
\* are those of the session once a link has been acted on, the replay shown is the one asked for
\* last, loading ends and links act once.  (NavigationController.reconcile, setSession, joinInvite)
THEOREM ThePageIsWhereTheSessionIs == NavigationSpec => []NavigationIsSound
<1>1. NavigationInv => NavigationIsSound
  <2> SUFFICES ASSUME NavigationInv
               PROVE  NavigationIsSound
    OBVIOUS
  <2>1. /\ nav \in Controller /\ promises \subseteq ReplayPromise \cup InvitePromise /\ challenged \in Nat
        /\ FetchIsAsked(nav) /\ LoadingIsAwaited(nav, promises) /\ PromisesAreOwn(nav, promises) /\ Shows(nav) /\ AddressFollows
        /\ nav.intent \in Intent /\ nav.lastTab \in Tab
    BY ControllerFields DEF NavigationInv, InOrder
  <2>2. nav.session.snapshot # Nil => nav.session.snapshot \in SessionSnapshot
    BY <2>1, ControllerFields
  <2>3. ScreenFollowsSession
    <3> SUFFICES ASSUME nav.identity # 0, nav.session.snapshot # Nil, nav.intent.kind \notin {"invite", "challenge"}
                 PROVE  nav.view = Projection(nav.session.snapshot, nav.intent, nav.lastTab) /\ place = Address(nav.view)
      BY DEF ScreenFollowsSession
    <3>1. nav.view = Projection(nav.session.snapshot, nav.intent, nav.lastTab)
      BY <2>1 DEF Shows
    <3>2. nav.view.member # Nil
      BY <2>1, <2>2, <3>1, ProjectionMeans
    <3>3. nav.view # NoView
      BY <3>2, NothingShown
    <3> QED BY <2>1, <3>1, <3>3 DEF AddressFollows
  <2>4. ReplayIsTheOne
    <3> SUFFICES ASSUME nav.data # Nil
                 PROVE  nav.view.screen = "replay" /\ nav.data = nav.view.replay
      BY DEF ReplayIsTheOne
    <3>1. /\ nav.data = nav.fetching /\ nav.identity # 0 /\ nav.session.snapshot # Nil /\ nav.intent.kind = "replay"
          /\ nav.intent.of = nav.fetching /\ ScreenOf(nav.session.snapshot, nav.intent) = "replay"
      BY <2>1 DEF FetchIsAsked
    <3>2. nav.view = Projection(nav.session.snapshot, nav.intent, nav.lastTab)
      BY <2>1, <3>1 DEF Shows
    <3> QED BY <2>1, <2>2, <3>1, <3>2, ProjectionMeans
  <2>5. LoadingEnds
    BY <2>1 DEF LoadingIsAwaited, LoadingEnds
  <2>6. LinksActOnce
    BY <2>1 DEF PromisesAreOwn, LinksActOnce, OwnInvite, ReplayPromise, InvitePromise
  <2> QED BY <2>3, <2>4, <2>5, <2>6 DEF NavigationIsSound
<1> QED BY <1>1, NavigationInvariance, PTL

------------------------------------------------------------------------------
(* Reads: the inductive invariant *)

Datum == Nat \cup {None}
Message == [is: {"change"}, number: Nat] \cup [is: {"list"}, number: Nat, generation: Nat]
Reads == [sequence: Nat, of: Nat, data: Datum]
ViewStatus == {"idle", "loading", "ready", "error"}
ShownView == [sequence: Nat, status: ViewStatus, data: Datum, of: Nat]
OwnerState == [dirty: BOOLEAN, action: {"none", "performing", "performed", "reading"}, since: Nat, missed: BOOLEAN]
JournalState == {"empty", "kept", "own", "other"}
RoomList == [generation: Nat, loading: BOOLEAN, error: BOOLEAN, revision: Datum, seen: SUBSET Nat, buffered: SUBSET Nat, known: BOOLEAN]

ReadTypes ==
    /\ client \in {"feed", "actor", "unhinted", "rooms"} /\ facts \in Nat
    /\ wire \in [up: BOOLEAN, events: Seq(Message)] /\ view \in ShownView /\ owner \in OwnerState
    /\ journal \in JournalState /\ loads \subseteq Reads /\ list \in RoomList /\ account \in Nat /\ reads \in 0..MaxReads /\ breaks \in Nat

Acting(o) == o.action \in {"performing", "performed"}
IsNewest(v, a, l) == l.sequence = v.sequence /\ l.of = a

\* A view is one account's, is loading while its newest read is on its way and while it confirms an
\* action, and is there while one is performed.
ViewInOrder(v, o, ls, a) ==
    /\ v.of = a /\ \A l \in ls : l.sequence <= v.sequence /\ (IsNewest(v, a, l) => v.status = "loading")
    /\ Acting(o) => v.status = "ready"
    /\ o.action = "reading" => v.status = "loading"

\* Unless a hint is on its way, kept or missed, what is shown, or is going to be, is the last change.
HintHolds(f, w, v, o, ls, a) ==
    /\ o.dirty => v.status = "loading" \/ o.action # "none"
    /\ w.up /\ w.events = << >> /\ ~o.dirty /\ ~o.missed /\ ~Acting(o) =>
           /\ v.status = "ready" => v.data = f
           /\ \A l \in ls : IsNewest(v, a, l) => l.data \in {None, f}

\* What is shown, or is going to be, has seen the action that was confirmed, and what the last heartbeat
\* that was heard is read for.
ActsAreSeen(v, o, ls, a) ==
    ~Acting(o) => /\ v.status = "ready" => v.data >= o.since
                  /\ \A l \in ls : IsNewest(v, a, l) => l.data = None \/ l.data >= o.since

\* The numbers on their way follow one another, up to the last change.
Consecutive(f, es) ==
    /\ \A i \in 1..Len(es) : es[i].number <= f /\ (es[i].is = "change" => es[i].number >= 1)
    /\ \A i \in 1..Len(es) - 1 : es[i + 1].number = es[i].number + (IF es[i + 1].is = "change" THEN 1 ELSE 0)
    /\ es # << >> => es[Len(es)].number = f

\* How many changes have been delivered, or lost.
LastDelivered(f, es) == IF es = << >> THEN f ELSE es[1].number - (IF es[1].is = "change" THEN 1 ELSE 0)

\* A list that claims to be there has what was delivered.
ListHolds(f, w, l) ==
    /\ Consecutive(f, w.events)
    /\ ~w.up => w.events = << >> /\ l.error
    /\ \A n \in l.buffered : n <= LastDelivered(f, w.events)
    /\ l.known /\ ~l.loading /\ ~l.error =>
           l.seen = 1..LastDelivered(f, w.events) /\ l.revision = LastDelivered(f, w.events)

ReadsInv ==
    /\ ReadTypes /\ owner.since <= facts
    /\ client # "rooms" => ViewInOrder(view, owner, loads, account)
    /\ client \in {"feed", "actor"} /\ reads < MaxReads => HintHolds(facts, wire, view, owner, loads, account)
    /\ client # "rooms" => ActsAreSeen(view, owner, loads, account)
    /\ client = "rooms" => /\ view = FreshView /\ owner = IdleOwner /\ \A l \in loads : l.data = None
                           /\ ListHolds(facts, wire, list)

------------------------------------------------------------------------------
(* Reads: a read begins *)

\* A view whose newest read has just been asked for.
FreshRead(v, ls, a) ==
    /\ v.status = "loading" /\ v.of = a
    /\ \A l \in ls : l.sequence <= v.sequence /\ (IsNewest(v, a, l) => l.data = None)

LEMMA ReadingFields ==
    ASSUME account \in Nat, NEW v \in ShownView
    PROVE  /\ Reading(v) \in ShownView /\ Reading(v).sequence = v.sequence + 1 /\ Reading(v).status = "loading"
           /\ Reading(v).of = account /\ Reading(v).data = v.data
           /\ Load(v) \in Reads /\ Load(v).sequence = v.sequence /\ Load(v).of = v.of /\ Load(v).data = None
<1>. DEFINE next == v.sequence + 1
            v1 == [v EXCEPT !.sequence = next]
            v2 == [v1 EXCEPT !.status = "loading"]
<1>1. next \in Nat /\ v.sequence \in Nat /\ v.of \in Nat /\ None \in Datum
  BY DEF ShownView, Datum
<1>2. Reading(v) = [v2 EXCEPT !.of = account]
  BY DEF Reading
<1>3. next = v.sequence + 1
  OBVIOUS
<1>. HIDE DEF next
<1>4. v1 \in ShownView /\ v1.sequence = next /\ v1.data = v.data
  BY <1>1 DEF ShownView
<1>. HIDE DEF v1
<1>5. v2 \in ShownView /\ v2.sequence = next /\ v2.data = v.data /\ v2.status = "loading"
  BY <1>4 DEF ShownView, ViewStatus
<1>. HIDE DEF v2
<1>6. /\ Reading(v) \in ShownView /\ Reading(v).sequence = next /\ Reading(v).data = v.data
      /\ Reading(v).status = "loading" /\ Reading(v).of = account
  BY <1>2, <1>5 DEF ShownView
<1>7. Load(v) \in Reads /\ Load(v).sequence = v.sequence /\ Load(v).of = v.of /\ Load(v).data = None
  BY <1>1 DEF Load, Reads
<1>. QED  BY <1>3, <1>6, <1>7

\* Whatever was asked for before is older than the read that begins.
LEMMA ReadsAnew ==
    ASSUME ReadTypes, NEW v \in ShownView, v.sequence = view.sequence, NEW ls \in SUBSET loads,
           \A l \in loads : l.sequence <= view.sequence,
           NEW v2, v2 = Reading(v), NEW ls2, ls2 = ls \cup {Load(v2)}
    PROVE  v2 \in ShownView /\ ls2 \subseteq Reads /\ FreshRead(v2, ls2, account) /\ v2.sequence = view.sequence + 1
<1>1. /\ account \in Nat /\ v.sequence \in Nat /\ loads \subseteq Reads
      /\ \A l \in loads : l.sequence \in Nat
  BY DEF ReadTypes, ShownView, Reads
<1>2. /\ v2 \in ShownView /\ v2.sequence = v.sequence + 1 /\ v2.status = "loading" /\ v2.of = account
  BY <1>1, ReadingFields
<1>3. Load(v2) \in Reads /\ Load(v2).sequence = v2.sequence /\ Load(v2).data = None
  BY <1>1, <1>2, ReadingFields
<1>4. \A l \in ls : l \in Reads /\ l.sequence <= v2.sequence /\ l.sequence # v2.sequence
  BY <1>1, <1>2
<1>5. FreshRead(v2, ls2, account)
  <2>1. \A l \in ls2 : l \in ls \/ l = Load(v2)
    OBVIOUS
  <2>2. v2.sequence \in Nat
    BY <1>2 DEF ShownView
  <2>. QED  BY <1>2, <1>3, <1>4, <2>1, <2>2 DEF FreshRead, IsNewest
<1>. QED  BY <1>1, <1>2, <1>3, <1>4, <1>5

\* A read that has just begun answers for everything, as long as nothing is being done.
LEMMA FreshReadSuffices ==
    ASSUME NEW f \in Nat, NEW w, NEW v, NEW o, NEW ls, NEW a, FreshRead(v, ls, a), ~Acting(o)
    PROVE  ViewInOrder(v, o, ls, a) /\ HintHolds(f, w, v, o, ls, a) /\ ActsAreSeen(v, o, ls, a)
BY DEF FreshRead, ViewInOrder, HintHolds, ActsAreSeen, IsNewest

\* What remains to be shown of a step in which a view begins a read.
LEMMA ReadBegins ==
    ASSUME ReadsInv, client' = client, client # "rooms", facts' \in Nat, wire' \in [up: BOOLEAN, events: Seq(Message)],
           view' \in ShownView, loads' \subseteq Reads, FreshRead(view', loads', account'),
           owner' \in OwnerState, ~Acting(owner'), owner'.since <= facts', journal' \in JournalState, list' \in RoomList, account' \in Nat,
           reads' \in 0..MaxReads, breaks' \in Nat
    PROVE  ReadsInv'
<1>1. ReadTypes'
  BY DEF ReadTypes, ReadsInv
<1>2. /\ ViewInOrder(view', owner', loads', account') /\ HintHolds(facts', wire', view', owner', loads', account')
      /\ ActsAreSeen(view', owner', loads', account')
  BY FreshReadSuffices
<1>. QED  BY <1>1, <1>2 DEF ReadsInv

\* RefreshView, or a read of the next view, in that step.
LEMMA RefreshBegins ==
    ASSUME ReadsInv, client # "rooms", RefreshView
    PROVE  /\ view' \in ShownView /\ loads' \subseteq Reads /\ FreshRead(view', loads', account) /\ reads' \in 0..MaxReads
<1>1. /\ ReadTypes /\ view \in ShownView /\ reads \in 0..MaxReads /\ MaxReads \in Nat
      /\ \A l \in loads : l.sequence <= view.sequence
  BY BrowserReadsAssumption DEF ReadsInv, ReadTypes, ViewInOrder
<1>2. /\ view' = Reading(view) /\ loads' = loads \cup {Load(view')} /\ reads' = reads + 1 /\ reads < MaxReads
  BY DEF RefreshView
<1>3. view' \in ShownView /\ loads' \subseteq Reads /\ FreshRead(view', loads', account)
  BY <1>1, <1>2, ReadsAnew
<1>. QED  BY <1>1, <1>2, <1>3

\* The owners that a hint or a heartbeat, a read that begins and the reading of an action's outcome make of an owner.
Warned(o, n) == [o EXCEPT !.dirty = TRUE, !.since = n]
Rereading(o, n) == [o EXCEPT !.dirty = FALSE, !.since = n, !.missed = FALSE]
Asking(o) == [o EXCEPT !.dirty = FALSE, !.missed = FALSE]
Confirming(o) == [o EXCEPT !.action = "reading", !.missed = FALSE]

LEMMA DirtyField ==
    ASSUME NEW o \in OwnerState, NEW b \in BOOLEAN
    PROVE  /\ [o EXCEPT !.dirty = b] \in OwnerState /\ [o EXCEPT !.dirty = b].dirty = b
           /\ [o EXCEPT !.dirty = b].action = o.action /\ [o EXCEPT !.dirty = b].since = o.since /\ [o EXCEPT !.dirty = b].missed = o.missed
BY DEF OwnerState

LEMMA MissedField ==
    ASSUME NEW o \in OwnerState, NEW b \in BOOLEAN
    PROVE  /\ [o EXCEPT !.missed = b] \in OwnerState /\ [o EXCEPT !.missed = b].missed = b
           /\ [o EXCEPT !.missed = b].action = o.action /\ [o EXCEPT !.missed = b].since = o.since /\ [o EXCEPT !.missed = b].dirty = o.dirty
BY DEF OwnerState

LEMMA SinceField ==
    ASSUME NEW o \in OwnerState, NEW n \in Nat
    PROVE  /\ [o EXCEPT !.since = n] \in OwnerState /\ [o EXCEPT !.since = n].since = n
           /\ [o EXCEPT !.since = n].action = o.action /\ [o EXCEPT !.since = n].dirty = o.dirty /\ [o EXCEPT !.since = n].missed = o.missed
BY DEF OwnerState

LEMMA ActionField ==
    ASSUME NEW o \in OwnerState, NEW d \in {"none", "performing", "performed", "reading"}
    PROVE  /\ [o EXCEPT !.action = d] \in OwnerState /\ [o EXCEPT !.action = d].action = d
           /\ [o EXCEPT !.action = d].since = o.since /\ [o EXCEPT !.action = d].dirty = o.dirty /\ [o EXCEPT !.action = d].missed = o.missed
BY DEF OwnerState

LEMMA OwnerFields ==
    ASSUME NEW o \in OwnerState, NEW n \in Nat
    PROVE  /\ Warned(o, n) \in OwnerState /\ Warned(o, n).action = o.action /\ Warned(o, n).since = n /\ Warned(o, n).dirty
           /\ Rereading(o, n) \in OwnerState /\ Rereading(o, n).action = o.action /\ Rereading(o, n).since = n
           /\ Asking(o) \in OwnerState /\ Asking(o).action = o.action /\ Asking(o).since = o.since
           /\ Confirming(o) \in OwnerState /\ Confirming(o).action = "reading" /\ Confirming(o).since = o.since
<1>. DEFINE w1 == [o EXCEPT !.dirty = TRUE]
            r1 == [o EXCEPT !.dirty = FALSE]
            r2 == [r1 EXCEPT !.since = n]
            c1 == [o EXCEPT !.action = "reading"]
<1>1. w1 \in OwnerState /\ w1.action = o.action /\ w1.dirty = TRUE
  BY DirtyField
<1>2. r1 \in OwnerState /\ r1.action = o.action /\ r1.since = o.since
  BY DirtyField
<1>3. c1 \in OwnerState /\ c1.action = "reading" /\ c1.since = o.since
  BY ActionField
<1>4. /\ Warned(o, n) = [w1 EXCEPT !.since = n] /\ Rereading(o, n) = [r2 EXCEPT !.missed = FALSE]
      /\ Asking(o) = [r1 EXCEPT !.missed = FALSE] /\ Confirming(o) = [c1 EXCEPT !.missed = FALSE]
  BY DEF Warned, Rereading, Asking, Confirming
<1>. HIDE DEF w1, r1, c1
<1>5. r2 \in OwnerState /\ r2.action = o.action /\ r2.since = n
  BY <1>2, SinceField
<1>. HIDE DEF r2
<1>6. [w1 EXCEPT !.since = n] \in OwnerState /\ [w1 EXCEPT !.since = n].action = o.action /\ [w1 EXCEPT !.since = n].since = n
      /\ [w1 EXCEPT !.since = n].dirty = TRUE
  BY <1>1, SinceField
<1>7. [r2 EXCEPT !.missed = FALSE] \in OwnerState /\ [r2 EXCEPT !.missed = FALSE].action = o.action /\ [r2 EXCEPT !.missed = FALSE].since = n
  BY <1>5, MissedField
<1>8. [r1 EXCEPT !.missed = FALSE] \in OwnerState /\ [r1 EXCEPT !.missed = FALSE].action = o.action /\ [r1 EXCEPT !.missed = FALSE].since = o.since
  BY <1>2, MissedField
<1>9. [c1 EXCEPT !.missed = FALSE] \in OwnerState /\ [c1 EXCEPT !.missed = FALSE].action = "reading" /\ [c1 EXCEPT !.missed = FALSE].since = o.since
  BY <1>3, MissedField
<1>. QED  BY <1>4, <1>6, <1>7, <1>8, <1>9

\* A view is told to read again, by a hint or, when it is not reading, for the sake of the first n changes.
LEMMA InvalidateKeeps ==
    ASSUME ReadsInv, client # "rooms", NEW n \in Nat, n <= facts, n = owner.since \/ view.status # "loading", Invalidate(n),
           wire' \in [up: BOOLEAN, events: Seq(Message)], breaks' \in Nat, UNCHANGED <<client, facts, journal, list, account>>
    PROVE  ReadsInv'
<1>1. /\ ReadTypes /\ owner \in OwnerState /\ facts \in Nat /\ list \in RoomList /\ account \in Nat /\ journal \in JournalState
      /\ ViewInOrder(view, owner, loads, account) /\ ActsAreSeen(view, owner, loads, account)
  BY DEF ReadsInv, ReadTypes
<1>2. CASE ~Occupied
  <2>1. RefreshView /\ owner' = Rereading(owner, n) /\ owner.action = "none"
    BY <1>2 DEF Invalidate, Occupied, Rereading
  <2>2. view' \in ShownView /\ loads' \subseteq Reads /\ FreshRead(view', loads', account) /\ reads' \in 0..MaxReads
    BY <2>1, RefreshBegins
  <2>3. owner' \in OwnerState /\ owner'.action = "none" /\ owner'.since = n
    BY <1>1, <2>1, OwnerFields
  <2>4. ~Acting(owner')
    BY <2>3 DEF Acting
  <2>. QED  BY <1>1, <2>2, <2>3, <2>4, ReadBegins
<1>3. CASE Occupied
  <2>1. owner' = Warned(owner, n) /\ UNCHANGED <<view, loads, reads>>
    BY <1>3 DEF Invalidate, KeepView, Warned
  <2>2. owner' \in OwnerState /\ owner'.action = owner.action /\ owner'.since = n /\ owner'.dirty
    BY <1>1, <2>1, OwnerFields
  <2>3. Acting(owner') <=> Acting(owner)
    BY <2>2 DEF Acting
  <2>4. ViewInOrder(view', owner', loads', account')
    BY <1>1, <2>1, <2>2, <2>3 DEF ViewInOrder
  <2>5. HintHolds(facts, wire', view', owner', loads', account')
    BY <1>3, <2>1, <2>2 DEF HintHolds, Occupied
  <2>6. ActsAreSeen(view', owner', loads', account')
    <3>1. CASE n = owner.since
      BY <1>1, <2>1, <2>2, <2>3, <3>1 DEF ActsAreSeen
    <3>2. CASE view.status # "loading"
      <4>1. owner.action # "none" /\ owner.action # "reading"
        BY <1>1, <1>3, <3>2 DEF Occupied, ViewInOrder
      <4>2. Acting(owner)
        BY <1>1, <4>1 DEF Acting, OwnerState
      <4>. QED  BY <2>3, <4>2 DEF ActsAreSeen
    <3>. QED  BY <3>1, <3>2
  <2>. QED  BY <1>1, <2>1, <2>2, <2>4, <2>5, <2>6 DEF ReadsInv, ReadTypes
<1>. QED  BY <1>2, <1>3

LEMMA HintKeeps ==
    ASSUME ReadsInv, client # "rooms", Hint, wire' \in [up: BOOLEAN, events: Seq(Message)], breaks' \in Nat,
           UNCHANGED <<client, facts, journal, list, account>>
    PROVE  ReadsInv'
<1>1. /\ ReadTypes /\ owner \in OwnerState /\ owner.since \in Nat /\ owner.since <= facts
      /\ ViewInOrder(view, owner, loads, account) /\ ActsAreSeen(view, owner, loads, account)
  BY DEF ReadsInv, ReadTypes, OwnerState
<1>2. CASE Invalidate(owner.since)
  BY <1>1, <1>2, InvalidateKeeps
<1>3. CASE client = "actor" /\ owner' = [owner EXCEPT !.missed = TRUE] /\ KeepView
  <2>1. UNCHANGED <<view, loads, reads>>
    BY <1>3 DEF KeepView
  <2>2. /\ owner' \in OwnerState /\ owner'.action = owner.action /\ owner'.since = owner.since /\ owner'.dirty = owner.dirty
        /\ owner'.missed = TRUE
    BY <1>1, <1>3, MissedField
  <2>3. Acting(owner') <=> Acting(owner)
    BY <2>2 DEF Acting
  <2>4. ViewInOrder(view', owner', loads', account') /\ ActsAreSeen(view', owner', loads', account')
    BY <1>1, <2>1, <2>2, <2>3 DEF ViewInOrder, ActsAreSeen
  <2>5. client \in {"feed", "actor"} /\ reads < MaxReads => HintHolds(facts, wire', view', owner', loads', account')
    BY <2>1, <2>2 DEF ReadsInv, HintHolds
  <2>. QED  BY <1>1, <2>1, <2>2, <2>4, <2>5 DEF ReadsInv, ReadTypes
<1>. QED  BY <1>2, <1>3 DEF Hint

\* What was missed is read for at the next heartbeat that is heard; the focus brings no less than a hint.
LEMMA HeartbeatKeeps ==
    ASSUME ReadsInv, Heartbeat \/ Focus
    PROVE  ReadsInv'
<1>1. /\ facts \in Nat /\ owner.since \in Nat /\ owner.since <= facts
      /\ wire \in [up: BOOLEAN, events: Seq(Message)] /\ breaks \in Nat
  BY DEF ReadsInv, ReadTypes, OwnerState
<1>2. CASE Heartbeat
  BY <1>1, <1>2, InvalidateKeeps DEF Heartbeat
<1>3. CASE Focus
  BY <1>1, <1>3, InvalidateKeeps DEF Focus
<1>. QED  BY <1>2, <1>3

------------------------------------------------------------------------------
(* Reads: the steps of a view and its owner *)

LEMMA MessageSent ==
    ASSUME ReadTypes, Happens
    PROVE  /\ facts' = facts + 1 /\ facts' \in Nat /\ wire' \in [up: BOOLEAN, events: Seq(Message)] /\ wire'.up = wire.up
           /\ client # "unhinted" /\ wire.up => wire'.events # << >>
           /\ ~(client # "unhinted" /\ wire.up) => wire' = wire
           /\ client = "rooms" /\ wire.up => wire'.events = Append(wire.events, [is |-> "change", number |-> facts + 1])
<1>. DEFINE m == [is |-> "change", number |-> facts + 1]
            es == Append(wire.events, m)
<1>1. facts' = facts + 1 /\ facts \in Nat /\ wire \in [up: BOOLEAN, events: Seq(Message)]
  BY DEF Happens, ReadTypes
<1>2. m \in Message
  BY <1>1 DEF Message
<1>3. wire' = IF wire.up /\ client # "unhinted" THEN [wire EXCEPT !.events = es] ELSE wire
  BY DEF Happens
<1>. HIDE DEF m
<1>4. wire.events \in Seq(Message)
  BY <1>1
<1>5. es \in Seq(Message) /\ es # << >>
  BY <1>2, <1>4
<1>. HIDE DEF es
<1>6. [wire EXCEPT !.events = es] \in [up: BOOLEAN, events: Seq(Message)] /\ [wire EXCEPT !.events = es].up = wire.up
      /\ [wire EXCEPT !.events = es].events = es
  BY <1>1, <1>5
<1>. QED  BY <1>1, <1>3, <1>5, <1>6 DEF es, m

LEMMA ChangeKeeps ==
    ASSUME ReadsInv, client # "rooms", Change
    PROVE  ReadsInv'
<1>1. ReadTypes /\ owner.since <= facts /\ owner.since \in Nat /\ facts \in Nat
  BY DEF ReadsInv, ReadTypes, OwnerState
<1>2. UNCHANGED <<client, view, owner, journal, loads, list, account, reads, breaks>>
  BY DEF Change
<1>3. /\ facts' = facts + 1 /\ facts' \in Nat /\ wire' \in [up: BOOLEAN, events: Seq(Message)] /\ wire'.up = wire.up
      /\ client # "unhinted" /\ wire.up => wire'.events # << >>
  BY <1>1, MessageSent DEF Change
<1>4. ReadTypes' /\ owner'.since <= facts'
  BY <1>1, <1>2, <1>3 DEF ReadTypes
<1>5. client \in {"feed", "actor"} /\ reads < MaxReads => HintHolds(facts', wire', view', owner', loads', account')
  BY <1>2, <1>3 DEF ReadsInv, HintHolds
<1>. QED  BY <1>2, <1>4, <1>5 DEF ReadsInv

LEMMA ServeReadKeeps ==
    ASSUME ReadsInv, ServeRead
    PROVE  ReadsInv'
<1>1. PICK l \in loads : l.data = None /\ loads' = (loads \ {l}) \cup {[l EXCEPT !.data = facts]}
  BY DEF ServeRead
<1>2. client # "rooms" /\ UNCHANGED <<client, facts, wire, view, owner, journal, list, account, reads, breaks>>
  BY DEF ServeRead
<1>3. /\ ReadTypes /\ l \in Reads /\ loads \subseteq Reads /\ facts \in Nat /\ owner.since <= facts
      /\ ViewInOrder(view, owner, loads, account)
  BY <1>2 DEF ReadsInv, ReadTypes
<1>. DEFINE m == [l EXCEPT !.data = facts]
<1>4. m \in Reads /\ m.sequence = l.sequence /\ m.of = l.of /\ m.data = facts
  BY <1>3 DEF Reads, Datum
<1>. HIDE DEF m
<1>5. loads' = (loads \ {l}) \cup {m}
  BY <1>1 DEF m
<1>6. \A k \in loads' : k = m \/ k \in loads
  BY <1>5
<1>7. IsNewest(view, account, m) <=> IsNewest(view, account, l)
  BY <1>4 DEF IsNewest
<1>8. ViewInOrder(view, owner, loads', account)
  BY <1>3, <1>4, <1>6, <1>7 DEF ViewInOrder
<1>9. client \in {"feed", "actor"} /\ reads < MaxReads => HintHolds(facts, wire, view, owner, loads', account)
  BY <1>4, <1>6 DEF ReadsInv, HintHolds
<1>10. ActsAreSeen(view, owner, loads', account)
  BY <1>2, <1>3, <1>4, <1>6 DEF ReadsInv, ActsAreSeen
<1>11. loads' \subseteq Reads
  BY <1>3, <1>4, <1>6
<1>. QED  BY <1>2, <1>3, <1>8, <1>9, <1>10, <1>11 DEF ReadsInv, ReadTypes

LEMMA RefreshKeeps ==
    ASSUME ReadsInv, Refresh
    PROVE  ReadsInv'
<1>1. /\ client # "rooms" /\ RefreshView /\ owner' = Asking(owner) /\ owner.action = "none"
      /\ UNCHANGED <<client, facts, wire, journal, list, account, breaks>>
  BY DEF Refresh, Occupied, Asking
<1>2. /\ ReadTypes /\ owner \in OwnerState /\ owner.since <= facts /\ facts \in Nat /\ list \in RoomList /\ account \in Nat
      /\ wire \in [up: BOOLEAN, events: Seq(Message)] /\ breaks \in Nat /\ journal \in JournalState
  BY DEF ReadsInv, ReadTypes
<1>3. view' \in ShownView /\ loads' \subseteq Reads /\ FreshRead(view', loads', account) /\ reads' \in 0..MaxReads
  BY <1>1, RefreshBegins
<1>4. owner' \in OwnerState /\ owner'.action = "none" /\ owner'.since = owner.since
  BY <1>1, <1>2, OwnerFields
<1>5. ~Acting(owner')
  BY <1>4 DEF Acting
<1>. QED  BY <1>1, <1>2, <1>3, <1>4, <1>5, ReadBegins

LEMMA ConfirmReadKeeps ==
    ASSUME ReadsInv, client # "rooms", ConfirmAct
    PROVE  ReadsInv'
<1>1. RefreshView /\ owner' = Confirming(owner) /\ UNCHANGED <<client, facts, wire, list, account, breaks>>
  BY DEF ConfirmAct, Confirming
<1>2. /\ ReadTypes /\ owner \in OwnerState /\ owner.since <= facts /\ facts \in Nat /\ list \in RoomList /\ account \in Nat
      /\ wire \in [up: BOOLEAN, events: Seq(Message)] /\ breaks \in Nat /\ journal \in JournalState
  BY DEF ReadsInv, ReadTypes
<1>3. view' \in ShownView /\ loads' \subseteq Reads /\ FreshRead(view', loads', account) /\ reads' \in 0..MaxReads
  BY <1>1, RefreshBegins
<1>4. owner' \in OwnerState /\ owner'.action = "reading" /\ owner'.since = owner.since
  BY <1>1, <1>2, OwnerFields
<1>5. ~Acting(owner')
  BY <1>4 DEF Acting
<1>6. journal' \in JournalState
  BY <1>2 DEF ConfirmAct, Left, JournalState
<1>. QED  BY <1>1, <1>2, <1>3, <1>4, <1>5, <1>6, ReadBegins

LEMMA ConfirmedLaterKeeps ==
    ASSUME ReadsInv, ConfirmedLater
    PROVE  ReadsInv'
<1>1. /\ client # "rooms" /\ RefreshView /\ owner' = [owner EXCEPT !.missed = FALSE] /\ owner.action = "none"
      /\ UNCHANGED <<client, facts, wire, list, account, breaks>>
  BY DEF ConfirmedLater
<1>2. /\ ReadTypes /\ owner \in OwnerState /\ owner.since <= facts /\ facts \in Nat /\ list \in RoomList /\ account \in Nat
      /\ wire \in [up: BOOLEAN, events: Seq(Message)] /\ breaks \in Nat /\ journal \in JournalState
  BY DEF ReadsInv, ReadTypes
<1>3. view' \in ShownView /\ loads' \subseteq Reads /\ FreshRead(view', loads', account) /\ reads' \in 0..MaxReads
  BY <1>1, RefreshBegins
<1>4. owner' \in OwnerState /\ owner'.action = "none" /\ owner'.since = owner.since
  BY <1>1, <1>2, MissedField
<1>5. ~Acting(owner')
  BY <1>4 DEF Acting
<1>6. journal' \in JournalState
  BY <1>2 DEF ConfirmedLater, JournalState
<1>. QED  BY <1>1, <1>2, <1>3, <1>4, <1>5, <1>6, ReadBegins

\* Another view's action, and a kept one that is sent again, only keep the journal busy.
LEMMA OthersKeep ==
    ASSUME ReadsInv, OtherSends \/ OtherEnds
    PROVE  ReadsInv'
<1>1. journal' \in JournalState /\ UNCHANGED <<client, facts, wire, view, owner, loads, list, account, reads, breaks>>
  BY DEF OtherSends, OtherEnds, Left, JournalState
<1>. QED  BY <1>1 DEF ReadsInv, ReadTypes

\* The views that SwitchAccount, Loaded and LoadFailed make of a view.
Switched(v, q, st, d, a) == [v EXCEPT !.sequence = q, !.status = st, !.data = d, !.of = a]
Brought(v, st, d) == [v EXCEPT !.status = st, !.data = d]
Marked(v, st) == [v EXCEPT !.status = st]

LEMMA MarkedFields ==
    ASSUME NEW v \in ShownView, NEW st \in ViewStatus
    PROVE  Marked(v, st) \in ShownView /\ Marked(v, st).sequence = v.sequence /\ Marked(v, st).status = st /\ Marked(v, st).of = v.of
BY DEF ShownView, ViewStatus, Marked

LEMMA BroughtFields ==
    ASSUME NEW v \in ShownView, NEW st \in ViewStatus, NEW d \in Datum
    PROVE  /\ Brought(v, st, d) \in ShownView /\ Brought(v, st, d).sequence = v.sequence
           /\ Brought(v, st, d).status = st /\ Brought(v, st, d).data = d /\ Brought(v, st, d).of = v.of
<1>1. Brought(v, st, d) = [Marked(v, st) EXCEPT !.data = d]
  BY DEF Brought, Marked
<1>. QED  BY <1>1, MarkedFields DEF ShownView

LEMMA SwitchedFields ==
    ASSUME NEW v \in ShownView, NEW q \in Nat, NEW st \in ViewStatus, NEW d \in Datum, NEW a \in Nat
    PROVE  /\ Switched(v, q, st, d, a) \in ShownView /\ Switched(v, q, st, d, a).sequence = q
           /\ Switched(v, q, st, d, a).status = st /\ Switched(v, q, st, d, a).of = a
<1>. DEFINE s1 == [v EXCEPT !.sequence = q]
            s2 == [s1 EXCEPT !.status = st]
            s3 == [s2 EXCEPT !.data = d]
            s4 == [s3 EXCEPT !.of = a]
<1>1. s1 \in ShownView /\ s1.sequence = q
  BY DEF ShownView
<1>. HIDE DEF s1
<1>2. s2 \in ShownView /\ s2.sequence = q /\ s2.status = st
  BY <1>1 DEF ShownView, ViewStatus
<1>. HIDE DEF s2
<1>3. s3 \in ShownView /\ s3.sequence = q /\ s3.status = st
  BY <1>2 DEF ShownView
<1>. HIDE DEF s3
<1>4. s4 \in ShownView /\ s4.sequence = q /\ s4.status = st /\ s4.of = a
  BY <1>3 DEF ShownView
<1>5. Switched(v, q, st, d, a) = s4
  BY DEF s1, s2, s3, Switched
<1>. QED  BY <1>4, <1>5

LEMMA SwitchAccountKeeps ==
    ASSUME ReadsInv, SwitchAccount
    PROVE  ReadsInv'
<1>. DEFINE next == view.sequence + 2
            v == [view EXCEPT !.sequence = next, !.status = "loading", !.data = None, !.of = account + 1]
<1>1. /\ client # "rooms" /\ account' = account + 1 /\ breaks' = breaks + 1 /\ reads < MaxReads /\ reads' = reads + 1
      /\ view' = v /\ loads' = loads \cup {Load(v)} /\ owner' = IdleOwner
      /\ UNCHANGED <<client, facts, wire, list>>
  BY DEF SwitchAccount
<1>2. /\ ReadTypes /\ view \in ShownView /\ facts \in Nat /\ account \in Nat /\ breaks \in Nat /\ reads \in 0..MaxReads /\ MaxReads \in Nat
      /\ list \in RoomList /\ wire \in [up: BOOLEAN, events: Seq(Message)] /\ loads \subseteq Reads
      /\ \A l \in loads : l.sequence <= view.sequence
  BY <1>1, BrowserReadsAssumption DEF ReadsInv, ReadTypes, ViewInOrder
<1>3. view.sequence \in Nat /\ next \in Nat /\ \A l \in loads : l.sequence <= next /\ l.sequence # next
  <2>1. view.sequence \in Nat /\ \A l \in loads : l.sequence \in Nat
    BY <1>2 DEF ShownView, Reads
  <2>. QED  BY <1>2, <2>1
<1>. HIDE DEF next
<1>4. v \in ShownView /\ v.sequence = next /\ v.status = "loading" /\ v.of = account + 1
  <2>1. None \in Datum /\ account' \in Nat /\ "loading" \in ViewStatus
    BY <1>1, <1>2 DEF Datum, ViewStatus
  <2>2. v = Switched(view, next, "loading", None, account')
    BY <1>1 DEF Switched
  <2>. HIDE DEF v
  <2>3. view \in ShownView /\ next \in Nat
    BY <1>2, <1>3
  <2>4. /\ Switched(view, next, "loading", None, account') \in ShownView /\ Switched(view, next, "loading", None, account').sequence = next
        /\ Switched(view, next, "loading", None, account').status = "loading" /\ Switched(view, next, "loading", None, account').of = account'
    BY <2>1, <2>3, SwitchedFields
  <2>. QED  BY <1>1, <2>2, <2>4
<1>. HIDE DEF v
<1>5. Load(v) \in Reads /\ Load(v).sequence = next /\ Load(v).data = None
  BY <1>2, <1>4, ReadingFields
<1>6. FreshRead(view', loads', account')
  BY <1>1, <1>3, <1>4, <1>5 DEF FreshRead, IsNewest
<1>7. owner' \in OwnerState /\ ~Acting(owner') /\ owner'.since <= facts
  BY <1>1, <1>2 DEF IdleOwner, OwnerState, Acting
<1>8. journal' \in JournalState
  BY <1>2 DEF SwitchAccount, Left, JournalState, ReadTypes
<1>. QED  BY <1>1, <1>2, <1>4, <1>5, <1>6, <1>7, <1>8, ReadBegins

\* A read ends with view v, and what was kept is read next.
LEMMA EndedKeeps ==
    ASSUME ReadsInv, client # "rooms", NEW v \in ShownView, v.sequence = view.sequence, v.of = account, Ended(v, owner),
           v.status = "ready" /\ client \in {"feed", "actor"} /\ reads < MaxReads /\ wire.up /\ wire.events = << >>
               /\ ~owner.dirty /\ ~owner.missed => v.data = facts,
           v.status = "ready" => v.data >= owner.since, v.status # "loading",
           UNCHANGED <<client, facts, wire, journal, list, account, breaks>>
    PROVE  ReadsInv'
<1>. DEFINE free == [owner EXCEPT !.action = "none"]
            rest == {l \in loads : ~CurrentLoad(l)}
            next == Reading(v)
<1>1. /\ ReadTypes /\ owner \in OwnerState /\ owner.since <= facts /\ facts \in Nat /\ list \in RoomList /\ account \in Nat
      /\ journal \in JournalState /\ wire \in [up: BOOLEAN, events: Seq(Message)] /\ breaks \in Nat /\ reads \in 0..MaxReads /\ MaxReads \in Nat /\ loads \subseteq Reads
      /\ \A l \in loads : l.sequence <= view.sequence
  BY BrowserReadsAssumption DEF ReadsInv, ReadTypes, ViewInOrder
<1>2. free \in OwnerState /\ free.action = "none" /\ free.since = owner.since /\ free.dirty = owner.dirty /\ free.missed = owner.missed
  BY <1>1, ActionField
<1>3. rest \subseteq loads /\ \A l \in rest : ~IsNewest(v, account, l)
  BY DEF CurrentLoad, IsNewest
<1>4. CASE owner.dirty /\ reads < MaxReads
  <2>1. /\ reads' = reads + 1 /\ view' = next /\ loads' = rest \cup {Load(next)} /\ owner' = Asking(free)
    BY <1>4 DEF Ended, Asking
  <2>. HIDE DEF free, rest, next
  <2>2. next = Reading(v) /\ rest \in SUBSET loads
    BY <1>3 DEF next
  <2>3. view' \in ShownView /\ loads' \subseteq Reads /\ FreshRead(view', loads', account)
    BY <1>1, <2>1, <2>2, ReadsAnew
  <2>4. owner' \in OwnerState /\ owner'.action = "none" /\ owner'.since = owner.since
    BY <1>2, <2>1, OwnerFields
  <2>5. ~Acting(owner') /\ reads' \in 0..MaxReads
    BY <1>1, <1>4, <2>1, <2>4 DEF Acting
  <2>. QED  BY <1>1, <2>3, <2>4, <2>5, ReadBegins
<1>5. CASE ~(owner.dirty /\ reads < MaxReads)
  <2>1. view' = v /\ loads' = rest /\ owner' = free /\ reads' = reads
    BY <1>5 DEF Ended
  <2>. HIDE DEF free, rest, next
  <2>2. ~Acting(owner')
    BY <1>2, <2>1 DEF Acting
  <2>3. ViewInOrder(view', owner', loads', account)
    BY <1>1, <1>2, <1>3, <2>1, <2>2 DEF ViewInOrder
  <2>4. client \in {"feed", "actor"} /\ reads < MaxReads => HintHolds(facts, wire, view', owner', loads', account)
    BY <1>2, <1>3, <1>5, <2>1 DEF HintHolds
  <2>5. ActsAreSeen(view', owner', loads', account)
    BY <1>2, <1>3, <2>1 DEF ActsAreSeen
  <2>6. loads' \subseteq Reads
    BY <1>1, <1>3, <2>1
  <2>. QED  BY <1>1, <1>2, <2>1, <2>3, <2>4, <2>5, <2>6 DEF ReadsInv, ReadTypes
<1>. QED  BY <1>4, <1>5

LEMMA LoadedKeeps ==
    ASSUME ReadsInv, Loaded
    PROVE  ReadsInv'
<1>1. PICK l \in loads :
          /\ l.data # None
          /\ IF CurrentLoad(l) THEN Ended([view EXCEPT !.status = "ready", !.data = l.data], owner)
             ELSE loads' = loads \ {l} /\ UNCHANGED <<view, owner, reads>>
  BY DEF Loaded
<1>2. UNCHANGED <<client, facts, wire, journal, list, account, breaks>>
  BY DEF Loaded
<1>3. client # "rooms"
  BY <1>1 DEF ReadsInv
<1>4. /\ ReadTypes /\ view \in ShownView /\ l \in Reads /\ view.of = account /\ owner.since <= facts /\ loads \subseteq Reads
      /\ ViewInOrder(view, owner, loads, account)
  BY <1>3 DEF ReadsInv, ReadTypes, ViewInOrder
<1>5. CASE ~CurrentLoad(l)
  <2>1. loads' \subseteq loads /\ UNCHANGED <<view, owner, reads>>
    BY <1>1, <1>5
  <2>2. ViewInOrder(view, owner, loads', account)
    BY <1>4, <2>1 DEF ViewInOrder
  <2>3. client \in {"feed", "actor"} /\ reads < MaxReads => HintHolds(facts, wire, view, owner, loads', account)
    BY <2>1 DEF ReadsInv, HintHolds
  <2>4. ActsAreSeen(view, owner, loads', account)
    BY <1>3, <2>1 DEF ReadsInv, ActsAreSeen
  <2>. QED  BY <1>2, <1>3, <1>4, <2>1, <2>2, <2>3, <2>4 DEF ReadsInv, ReadTypes
<1>6. CASE CurrentLoad(l)
  <2>. DEFINE v == Brought(view, "ready", l.data)
  <2>1. Ended(v, owner)
    BY <1>1, <1>6 DEF Brought
  <2>2. view \in ShownView /\ "ready" \in ViewStatus /\ l.data \in Datum
    BY <1>4 DEF ViewStatus, Reads
  <2>3. v \in ShownView /\ v.sequence = view.sequence /\ v.status = "ready" /\ v.data = l.data /\ v.of = view.of
    BY <2>2, BroughtFields
  <2>4. IsNewest(view, account, l) /\ view.status = "loading" /\ ~Acting(owner)
    BY <1>4, <1>6 DEF CurrentLoad, IsNewest, ViewInOrder
  <2>5. client \in {"feed", "actor"} /\ reads < MaxReads /\ wire.up /\ wire.events = << >> /\ ~owner.dirty /\ ~owner.missed => l.data = facts
    BY <1>1, <2>4 DEF ReadsInv, HintHolds
  <2>6. l.data >= owner.since
    BY <1>1, <1>3, <2>4 DEF ReadsInv, ActsAreSeen
  <2>. HIDE DEF v
  <2>. QED  BY <1>2, <1>3, <1>4, <2>1, <2>3, <2>5, <2>6, EndedKeeps
<1>. QED  BY <1>5, <1>6

LEMMA LoadFailedKeeps ==
    ASSUME ReadsInv, LoadFailed
    PROVE  ReadsInv'
<1>. DEFINE v == Marked(view, "error")
<1>1. view.status = "loading" /\ Ended(v, owner) /\ UNCHANGED <<client, facts, wire, journal, list, account, breaks>>
  BY DEF LoadFailed, Marked
<1>2. client # "rooms"
  BY <1>1 DEF ReadsInv, FreshView
<1>3. view \in ShownView /\ "error" \in ViewStatus /\ view.of = account
  BY <1>2 DEF ReadsInv, ReadTypes, ViewInOrder, ViewStatus
<1>4. v \in ShownView /\ v.sequence = view.sequence /\ v.status = "error" /\ v.of = view.of
  BY <1>3, MarkedFields
<1>. HIDE DEF v
<1>. QED  BY <1>1, <1>2, <1>3, <1>4, EndedKeeps

\* While an action is performed nothing is claimed of the view.
LEMMA ActingKeeps ==
    ASSUME ReadsInv, client # "rooms", owner' \in OwnerState, Acting(owner'), owner'.since <= facts', view.status = "ready",
           \A l \in loads : ~IsNewest(view, account, l), ~owner'.dirty \/ owner'.action # "none", journal' \in JournalState,
           facts' \in Nat, wire' \in [up: BOOLEAN, events: Seq(Message)], UNCHANGED <<client, view, loads, list, account, reads, breaks>>
    PROVE  ReadsInv'
<1>1. ReadTypes /\ ViewInOrder(view, owner, loads, account)
  BY DEF ReadsInv
<1>2. ViewInOrder(view', owner', loads', account')
  BY <1>1 DEF ViewInOrder, Acting
<1>3. HintHolds(facts', wire', view', owner', loads', account') /\ ActsAreSeen(view', owner', loads', account')
  BY DEF HintHolds, ActsAreSeen, Acting
<1>. QED  BY <1>1, <1>2, <1>3 DEF ReadsInv, ReadTypes

\* The owners that BeginAct and Perform make of an owner.
Begun(o, s) == [o EXCEPT !.action = "performing", !.since = s]
Done(o, s) == [o EXCEPT !.action = "performed", !.since = s]

LEMMA ActFields ==
    ASSUME NEW o \in OwnerState, NEW s \in Nat
    PROVE  /\ Begun(o, s) \in OwnerState /\ Begun(o, s).action = "performing" /\ Begun(o, s).since = s
           /\ Done(o, s) \in OwnerState /\ Done(o, s).action = "performed" /\ Done(o, s).since = s
<1>. DEFINE b1 == [o EXCEPT !.action = "performing"]
            d1 == [o EXCEPT !.action = "performed"]
<1>1. Begun(o, s) = [b1 EXCEPT !.since = s] /\ Done(o, s) = [d1 EXCEPT !.since = s]
  BY DEF Begun, Done
<1>2. b1 \in OwnerState /\ b1.action = "performing"
  BY ActionField
<1>3. d1 \in OwnerState /\ d1.action = "performed"
  BY ActionField
<1>. HIDE DEF b1, d1
<1>4. [b1 EXCEPT !.since = s] \in OwnerState /\ [b1 EXCEPT !.since = s].action = "performing" /\ [b1 EXCEPT !.since = s].since = s
  BY <1>2, SinceField
<1>5. [d1 EXCEPT !.since = s] \in OwnerState /\ [d1 EXCEPT !.since = s].action = "performed" /\ [d1 EXCEPT !.since = s].since = s
  BY <1>3, SinceField
<1>. QED  BY <1>1, <1>4, <1>5

LEMMA ActKeeps ==
    ASSUME ReadsInv, client # "rooms", BeginAct \/ Perform
    PROVE  ReadsInv'
<1>1. /\ ReadTypes /\ owner \in OwnerState /\ facts \in Nat /\ owner.since <= facts /\ ViewInOrder(view, owner, loads, account)
      /\ wire \in [up: BOOLEAN, events: Seq(Message)]
  BY DEF ReadsInv, ReadTypes
<1>2. view.status = "ready" /\ UNCHANGED <<client, view, loads, list, account, reads, breaks>>
  BY <1>1 DEF BeginAct, Perform, ViewInOrder, Acting
<1>3. \A l \in loads : ~IsNewest(view, account, l)
  BY <1>1, <1>2 DEF ViewInOrder
<1>4. facts' \in Nat /\ facts <= facts' /\ wire' \in [up: BOOLEAN, events: Seq(Message)]
  <2>1. CASE BeginAct
    BY <1>1, <2>1 DEF BeginAct
  <2>2. CASE Perform
    BY <1>1, <2>2, MessageSent DEF Perform
  <2>. QED  BY <2>1, <2>2
<1>5. owner' \in OwnerState /\ owner'.action \in {"performing", "performed"} /\ owner'.since <= facts'
  <2>1. CASE BeginAct
    <3>1. owner' = Begun(owner, facts) /\ facts' = facts
      BY <2>1 DEF BeginAct, Begun
    <3>2. Begun(owner, facts) \in OwnerState /\ Begun(owner, facts).action = "performing" /\ Begun(owner, facts).since = facts
      BY <1>1, ActFields
    <3>. QED  BY <1>1, <3>1, <3>2
  <2>2. CASE Perform
    <3>1. facts' = facts + 1
      BY <2>2 DEF Perform, Happens
    <3>2. owner' = Done(owner, facts')
      BY <2>2, <3>1 DEF Perform, Done
    <3>3. facts' \in Nat
      BY <1>4
    <3>4. Done(owner, facts') \in OwnerState /\ Done(owner, facts').action = "performed" /\ Done(owner, facts').since = facts'
      BY <1>1, <3>3, ActFields
    <3>. QED  BY <3>2, <3>3, <3>4
  <2>. QED  BY <2>1, <2>2
<1>6. journal' \in JournalState
  BY <1>1 DEF BeginAct, Perform, JournalState, ReadTypes
<1>. QED  BY <1>2, <1>3, <1>4, <1>5, <1>6, ActingKeeps DEF Acting

------------------------------------------------------------------------------
(* Reads: the socket, for a client that is only told *)

Wires == [up: BOOLEAN, events: Seq(Message)]

LEMMA WireFields ==
    ASSUME NEW w \in Wires, NEW b \in BOOLEAN, NEW es \in Seq(Message)
    PROVE  /\ [w EXCEPT !.up = b] \in Wires /\ [w EXCEPT !.up = b].events = w.events
           /\ [w EXCEPT !.events = es] \in Wires /\ [w EXCEPT !.events = es].up = w.up /\ [w EXCEPT !.events = es].events = es
BY DEF Wires

LEMMA OneDelivered ==
    ASSUME ReadTypes, wire.events # << >>, wire' = [wire EXCEPT !.events = Tail(@)]
    PROVE  wire' \in Wires /\ wire'.up = wire.up /\ wire'.events = Tail(wire.events) /\ wire.events \in Seq(Message)
<1>1. wire \in Wires /\ wire.events \in Seq(Message)
  BY DEF ReadTypes, Wires
<1>. DEFINE rest == Tail(wire.events)
<1>2. rest \in Seq(Message)
  BY <1>1
<1>3. wire' = [wire EXCEPT !.events = rest]
  OBVIOUS
<1>. HIDE DEF rest
<1>4. TRUE \in BOOLEAN
  OBVIOUS
<1>5. [wire EXCEPT !.events = rest] \in Wires /\ [wire EXCEPT !.events = rest].up = wire.up /\ [wire EXCEPT !.events = rest].events = rest
  BY <1>1, <1>2, <1>4, WireFields
<1>. QED  BY <1>1, <1>3, <1>5 DEF rest

LEMMA ToldEvent ==
    ASSUME ReadsInv, client # "rooms", Event
    PROVE  ReadsInv'
<1>1. ReadTypes /\ breaks \in Nat
  BY DEF ReadsInv, ReadTypes
<1>2. /\ wire.events # << >> /\ wire' = [wire EXCEPT !.events = Tail(@)] /\ Hint
      /\ UNCHANGED <<client, facts, journal, list, account, breaks>>
  BY DEF Event
<1>3. wire' \in Wires
  BY <1>1, <1>2, OneDelivered
<1>. QED  BY <1>1, <1>2, <1>3, HintKeeps DEF Wires

LEMMA BreakUntold ==
    ASSUME ReadsInv, client # "rooms", Break
    PROVE  ReadsInv'
<1>1. /\ wire' = [up |-> FALSE, events |-> << >>] /\ breaks' = breaks + 1
      /\ UNCHANGED <<client, facts, view, owner, journal, loads, list, account, reads>>
  BY DEF Break
<1>2. << >> \in Seq(Message)
  OBVIOUS
<1>3. wire' \in [up: BOOLEAN, events: Seq(Message)] /\ wire'.up = FALSE
  BY <1>1, <1>2
<1>4. ReadTypes'
  BY <1>1, <1>3 DEF ReadsInv, ReadTypes
<1>5. client \in {"feed", "actor"} /\ reads < MaxReads => HintHolds(facts', wire', view', owner', loads', account')
  BY <1>1, <1>3 DEF ReadsInv, HintHolds
<1>. QED  BY <1>1, <1>4, <1>5 DEF ReadsInv

LEMMA ReopenTells ==
    ASSUME ReadsInv, client # "rooms", Reopen
    PROVE  ReadsInv'
<1>1. ReadTypes /\ wire \in Wires /\ breaks \in Nat
  BY DEF ReadsInv, ReadTypes, Wires
<1>2. /\ wire' = [wire EXCEPT !.up = TRUE] /\ UNCHANGED <<client, facts, journal, list, account, breaks>>
      /\ IF client = "unhinted" THEN KeepView /\ owner' = owner ELSE Hint
  BY DEF Reopen
<1>3. wire' \in Wires
  BY <1>1, <1>2 DEF Wires
<1>4. CASE client = "unhinted"
  <2>1. UNCHANGED <<view, loads, reads, owner>>
    BY <1>2, <1>4 DEF KeepView
  <2>2. ReadTypes'
    BY <1>1, <1>2, <1>3, <2>1 DEF ReadTypes, Wires
  <2>. QED  BY <1>2, <1>4, <2>1, <2>2 DEF ReadsInv
<1>5. CASE client # "unhinted"
  BY <1>1, <1>2, <1>3, <1>5, HintKeeps DEF Wires
<1>. QED  BY <1>4, <1>5

------------------------------------------------------------------------------
(* Reads: the numbers on the socket *)

LEMMA NumbersDelivered ==
    ASSUME NEW f \in Nat, NEW es \in Seq(Message), Consecutive(f, es)
    PROVE  LastDelivered(f, es) \in 0..f
<1>1. CASE es = << >>
  BY <1>1 DEF LastDelivered
<1>2. CASE es # << >>
  <2>1. 1 \in 1..Len(es) /\ es[1] \in Message
    BY <1>2
  <2>2. es[1].number \in Nat /\ es[1].number <= f /\ (es[1].is = "change" => es[1].number >= 1)
    BY <2>1 DEF Consecutive, Message
  <2>. QED  BY <1>2, <2>2 DEF LastDelivered
<1>. QED  BY <1>1, <1>2

\* What follows the last number may be sent.
Follows(f, m, g) ==
    /\ m \in Message /\ m.number = g /\ f <= g
    /\ IF m.is = "change" THEN g = f + 1 ELSE g = f

LEMMA NumbersSent ==
    ASSUME NEW f \in Nat, NEW g \in Nat, NEW es \in Seq(Message), Consecutive(f, es), NEW m, Follows(f, m, g)
    PROVE  Consecutive(g, Append(es, m)) /\ LastDelivered(g, Append(es, m)) = LastDelivered(f, es)
<1>. DEFINE all == Append(es, m)
            n == Len(es)
<1>1. /\ n \in Nat /\ all \in Seq(Message) /\ Len(all) = n + 1 /\ all # << >> /\ all[n + 1] = m
      /\ \A i \in 1..n : all[i] = es[i] /\ es[i] \in Message
  BY DEF Follows
<1>2. /\ \A i \in 1..n : es[i].number <= f /\ (es[i].is = "change" => es[i].number >= 1)
      /\ \A i \in 1..n - 1 : es[i + 1].number = es[i].number + (IF es[i + 1].is = "change" THEN 1 ELSE 0)
      /\ es # << >> => es[n].number = f
  BY DEF Consecutive
<1>3. es = << >> <=> n = 0
  OBVIOUS
<1>4. /\ m.number = g /\ f <= g /\ (m.is = "change" => g = f + 1) /\ (m.is # "change" => g = f)
  BY DEF Follows
<1>5. \A i \in 1..n : es[i].number \in Nat
  BY <1>1 DEF Message
<1>. HIDE DEF all, n
<1>6. \A i \in 1..Len(all) : all[i].number <= g /\ (all[i].is = "change" => all[i].number >= 1)
  <2>. SUFFICES ASSUME NEW i \in 1..n + 1
       PROVE  all[i].number <= g /\ (all[i].is = "change" => all[i].number >= 1)
    BY <1>1
  <2>1. CASE i = n + 1
    BY <1>1, <1>4, <2>1
  <2>2. CASE i # n + 1
    <3>1. i \in 1..n
      BY <1>1, <2>2
    <3>. QED  BY <1>1, <1>2, <1>4, <1>5, <3>1
  <2>. QED  BY <2>1, <2>2
<1>7. \A i \in 1..Len(all) - 1 : all[i + 1].number = all[i].number + (IF all[i + 1].is = "change" THEN 1 ELSE 0)
  <2>. SUFFICES ASSUME NEW i \in 1..n
       PROVE  all[i + 1].number = all[i].number + (IF all[i + 1].is = "change" THEN 1 ELSE 0)
    BY <1>1
  <2>1. CASE i = n
    <3>1. es # << >> /\ all[i] = es[n] /\ all[i + 1] = m /\ es[n].number = f
      BY <1>1, <1>2, <1>3, <2>1
    <3>. QED  BY <1>4, <3>1
  <2>2. CASE i # n
    <3>1. i \in 1..n - 1 /\ i + 1 \in 1..n
      BY <1>1, <2>2
    <3>2. all[i + 1] = es[i + 1] /\ all[i] = es[i]
      BY <1>1, <3>1
    <3>. QED  BY <1>2, <3>1, <3>2
  <2>. QED  BY <2>1, <2>2
<1>8. Consecutive(g, all)
  BY <1>1, <1>4, <1>6, <1>7 DEF Consecutive
<1>9. LastDelivered(g, all) = LastDelivered(f, es)
  <2>1. CASE es = << >>
    <3>1. all[1] = m
      BY <1>1, <1>3, <2>1
    <3>. QED  BY <1>1, <1>4, <2>1, <3>1 DEF LastDelivered
  <2>2. CASE es # << >>
    <3>1. all[1] = es[1]
      BY <1>1, <1>3, <2>2
    <3>. QED  BY <1>1, <2>2, <3>1 DEF LastDelivered
  <2>. QED  BY <2>1, <2>2
<1>. QED  BY <1>8, <1>9 DEF all

LEMMA NumbersTaken ==
    ASSUME NEW f \in Nat, NEW es \in Seq(Message), Consecutive(f, es), es # << >>, NEW e, e = Head(es)
    PROVE  /\ e \in Message /\ e.number \in Nat /\ e.number <= f /\ (e.is = "change" => e.number >= 1)
           /\ Consecutive(f, Tail(es)) /\ LastDelivered(f, Tail(es)) = e.number
           /\ LastDelivered(f, es) = e.number - (IF e.is = "change" THEN 1 ELSE 0)
<1>. DEFINE rest == Tail(es)
            n == Len(es)
<1>1. /\ n \in Nat /\ n >= 1 /\ rest \in Seq(Message) /\ Len(rest) = n - 1 /\ e = es[1]
      /\ \A i \in 1..n - 1 : rest[i] = es[i + 1]
      /\ \A i \in 1..n : es[i] \in Message
  OBVIOUS
<1>2. /\ \A i \in 1..n : es[i].number <= f /\ (es[i].is = "change" => es[i].number >= 1)
      /\ \A i \in 1..n - 1 : es[i + 1].number = es[i].number + (IF es[i + 1].is = "change" THEN 1 ELSE 0)
      /\ es[n].number = f
  BY DEF Consecutive
<1>3. rest = << >> <=> n = 1
  <2>1. \A s \in Seq(Message) : s = << >> <=> Len(s) = 0
    OBVIOUS
  <2>. HIDE DEF rest, n
  <2>2. rest = << >> <=> Len(rest) = 0
    BY <1>1, <2>1
  <2>. QED  BY <1>1, <2>2
<1>4. \A i \in 1..n : es[i].number \in Nat
  BY <1>1 DEF Message
<1>5. LastDelivered(f, es) = e.number - (IF e.is = "change" THEN 1 ELSE 0)
  BY <1>1 DEF LastDelivered
<1>. HIDE DEF rest, n
<1>6. e \in Message /\ e.number \in Nat /\ e.number <= f /\ (e.is = "change" => e.number >= 1)
  <2>1. 1 \in 1..n
    BY <1>1
  <2>. QED  BY <1>1, <1>2, <1>4, <2>1
<1>7. \A i \in 1..Len(rest) : rest[i].number <= f /\ (rest[i].is = "change" => rest[i].number >= 1)
  <2>. TAKE i \in 1..Len(rest)
  <2>1. i \in 1..n - 1 /\ i + 1 \in 1..n
    BY <1>1
  <2>2. rest[i] = es[i + 1]
    BY <1>1, <2>1
  <2>. QED  BY <1>2, <2>1, <2>2
<1>8. \A i \in 1..Len(rest) - 1 : rest[i + 1].number = rest[i].number + (IF rest[i + 1].is = "change" THEN 1 ELSE 0)
  <2>. TAKE i \in 1..Len(rest) - 1
  <2>. DEFINE j == i + 1
  <2>1. i \in 1..n - 1 /\ j \in 1..n - 1
    BY <1>1
  <2>. HIDE DEF j
  <2>2. rest[i] = es[j] /\ rest[j] = es[j + 1]
    BY <1>1, <2>1 DEF j
  <2>3. es[j + 1].number = es[j].number + (IF es[j + 1].is = "change" THEN 1 ELSE 0)
    BY <1>2, <2>1
  <2>. QED  BY <2>2, <2>3 DEF j
<1>9. rest # << >> => rest[Len(rest)].number = f
  <2>. HAVE rest # << >>
  <2>1. n - 1 \in 1..n - 1 /\ (n - 1) + 1 = n
    BY <1>1, <1>3
  <2>2. rest[n - 1] = es[n]
    BY <1>1, <2>1
  <2>. QED  BY <1>1, <1>2, <2>2
<1>10. Consecutive(f, rest)
  BY <1>7, <1>8, <1>9 DEF Consecutive
<1>11. LastDelivered(f, rest) = e.number
  <2>1. CASE n = 1
    BY <1>1, <1>2, <1>3, <2>1 DEF LastDelivered
  <2>2. CASE n # 1
    <3>1. 1 \in 1..n - 1 /\ rest # << >>
      BY <1>1, <1>3, <2>2
    <3>2. rest[1] = es[1 + 1] /\ es[1 + 1].number = es[1].number + (IF es[1 + 1].is = "change" THEN 1 ELSE 0)
      BY <1>1, <1>2, <3>1
    <3>3. LastDelivered(f, rest) = rest[1].number - (IF rest[1].is = "change" THEN 1 ELSE 0)
      BY <3>1 DEF LastDelivered
    <3>4. es[1].number \in Nat
      BY <1>1, <1>4
    <3>. QED  BY <1>1, <3>2, <3>3, <3>4
  <2>. QED  BY <2>1, <2>2
<1>. QED  BY <1>5, <1>6, <1>10, <1>11 DEF rest

------------------------------------------------------------------------------
(* Reads: the steps of the list of rooms *)

Held(l, n) == [l EXCEPT !.revision = n, !.seen = 1..n, !.known = TRUE, !.loading = FALSE, !.error = FALSE, !.buffered = {}]
Buffering(l, n) == [l EXCEPT !.buffered = IF l.loading THEN @ \cup {n} ELSE @]
Lost(l) == [l EXCEPT !.generation = @ + 1, !.buffered = {}, !.loading = FALSE, !.error = TRUE]

LEMMA ReadListFields ==
    ASSUME NEW l \in RoomList
    PROVE  ReadList(l) \in RoomList /\ ReadList(l).loading = TRUE /\ ReadList(l).error = FALSE /\ ReadList(l).buffered = {}
<1>. DEFINE next == l.generation + 1
            l1 == [l EXCEPT !.generation = next]
            l2 == [l1 EXCEPT !.revision = None]
            l3 == [l2 EXCEPT !.buffered = {}]
            l4 == [l3 EXCEPT !.loading = TRUE]
            l5 == [l4 EXCEPT !.error = FALSE]
<1>1. next \in Nat /\ None \in Datum /\ {} \in SUBSET Nat
  BY DEF RoomList, Datum
<1>2. ReadList(l) = l5
  BY DEF ReadList
<1>. HIDE DEF next
<1>3. l1 \in RoomList
  BY <1>1 DEF RoomList
<1>. HIDE DEF l1
<1>4. l2 \in RoomList
  BY <1>1, <1>3 DEF RoomList
<1>. HIDE DEF l2
<1>5. l3 \in RoomList /\ l3.buffered = {}
  BY <1>1, <1>4 DEF RoomList
<1>. HIDE DEF l3
<1>6. l4 \in RoomList /\ l4.buffered = {} /\ l4.loading = TRUE
  BY <1>5 DEF RoomList
<1>. HIDE DEF l4
<1>7. l5 \in RoomList /\ l5.buffered = {} /\ l5.loading = TRUE /\ l5.error = FALSE
  BY <1>6 DEF RoomList
<1>. QED  BY <1>2, <1>7

LEMMA LostFields ==
    ASSUME NEW l \in RoomList
    PROVE  Lost(l) \in RoomList /\ Lost(l).error = TRUE /\ Lost(l).buffered = {}
<1>. DEFINE next == l.generation + 1
            l1 == [l EXCEPT !.generation = next]
            l2 == [l1 EXCEPT !.buffered = {}]
            l3 == [l2 EXCEPT !.loading = FALSE]
            l4 == [l3 EXCEPT !.error = TRUE]
<1>1. next \in Nat /\ {} \in SUBSET Nat
  BY DEF RoomList
<1>2. Lost(l) = l4
  BY DEF Lost
<1>. HIDE DEF next
<1>3. l1 \in RoomList
  BY <1>1 DEF RoomList
<1>. HIDE DEF l1
<1>4. l2 \in RoomList /\ l2.buffered = {}
  BY <1>1, <1>3 DEF RoomList
<1>. HIDE DEF l2
<1>5. l3 \in RoomList /\ l3.buffered = {}
  BY <1>4 DEF RoomList
<1>. HIDE DEF l3
<1>6. l4 \in RoomList /\ l4.buffered = {} /\ l4.error = TRUE
  BY <1>5 DEF RoomList
<1>. QED  BY <1>2, <1>6

LEMMA HeldFields ==
    ASSUME NEW l \in RoomList, NEW n \in Nat
    PROVE  Held(l, n) \in RoomList /\ Held(l, n).revision = n /\ Held(l, n).seen = 1..n /\ Held(l, n).buffered = {}
<1>. DEFINE some == 1..n
            l1 == [l EXCEPT !.revision = n]
            l2 == [l1 EXCEPT !.seen = some]
            l3 == [l2 EXCEPT !.known = TRUE]
            l4 == [l3 EXCEPT !.loading = FALSE]
            l5 == [l4 EXCEPT !.error = FALSE]
            l6 == [l5 EXCEPT !.buffered = {}]
<1>1. some \in SUBSET Nat /\ n \in Datum /\ {} \in SUBSET Nat
  BY DEF Datum
<1>2. Held(l, n) = l6
  BY DEF Held
<1>3. some = 1..n
  OBVIOUS
<1>. HIDE DEF some
<1>4. l1 \in RoomList /\ l1.revision = n
  BY <1>1 DEF RoomList
<1>. HIDE DEF l1
<1>5. l2 \in RoomList /\ l2.revision = n /\ l2.seen = some
  BY <1>1, <1>4 DEF RoomList
<1>. HIDE DEF l2
<1>6. l3 \in RoomList /\ l3.revision = n /\ l3.seen = some
  BY <1>5 DEF RoomList
<1>. HIDE DEF l3
<1>7. l4 \in RoomList /\ l4.revision = n /\ l4.seen = some
  BY <1>6 DEF RoomList
<1>. HIDE DEF l4
<1>8. l5 \in RoomList /\ l5.revision = n /\ l5.seen = some
  BY <1>7 DEF RoomList
<1>. HIDE DEF l5
<1>9. l6 \in RoomList /\ l6.revision = n /\ l6.seen = some /\ l6.buffered = {}
  BY <1>1, <1>8 DEF RoomList
<1>. QED  BY <1>2, <1>3, <1>9

LEMMA KeptFields ==
    ASSUME NEW l \in RoomList, NEW n \in Nat
    PROVE  /\ Buffering(l, n) \in RoomList /\ Buffering(l, n).buffered \subseteq l.buffered \cup {n}
           /\ Buffering(l, n).loading = l.loading /\ Buffering(l, n).error = l.error /\ Buffering(l, n).known = l.known
           /\ Buffering(l, n).revision = l.revision /\ Buffering(l, n).seen = l.seen
<1>. DEFINE some == IF l.loading THEN l.buffered \cup {n} ELSE l.buffered
<1>1. some \in SUBSET Nat /\ some \subseteq l.buffered \cup {n}
  BY DEF RoomList
<1>2. Buffering(l, n) = [l EXCEPT !.buffered = some]
  BY DEF Buffering
<1>. HIDE DEF some
<1>. QED  BY <1>1, <1>2 DEF RoomList

LEMMA AppliedFields ==
    ASSUME NEW l \in RoomList, NEW n \in Nat
    PROVE  /\ Applied(l, n) \in RoomList /\ Applied(l, n).buffered = l.buffered
           /\ Applied(l, n).loading = l.loading /\ Applied(l, n).error = l.error /\ Applied(l, n).known = l.known
           /\ l.known /\ ~(n <= l.revision) => Applied(l, n).revision = n /\ Applied(l, n).seen = l.seen \cup {n}
<1>. DEFINE some == l.seen \cup {n}
            l1 == [l EXCEPT !.revision = n]
            l2 == [l1 EXCEPT !.seen = some]
<1>1. some \in SUBSET Nat /\ n \in Datum
  BY DEF RoomList, Datum
<1>2. Applied(l, n) = IF n <= l.revision \/ ~l.known THEN l ELSE l2
  BY DEF Applied
<1>3. some = l.seen \cup {n}
  OBVIOUS
<1>. HIDE DEF some
<1>4. /\ l1 \in RoomList /\ l1.revision = n /\ l1.buffered = l.buffered /\ l1.loading = l.loading /\ l1.error = l.error
      /\ l1.known = l.known
  BY <1>1 DEF RoomList
<1>. HIDE DEF l1
<1>5. /\ l2 \in RoomList /\ l2.revision = n /\ l2.buffered = l.buffered /\ l2.loading = l.loading /\ l2.error = l.error
      /\ l2.known = l.known /\ l2.seen = some
  BY <1>1, <1>4 DEF RoomList
<1>. HIDE DEF l2
<1>. QED  BY <1>2, <1>3, <1>5

\* What remains to be shown of a step of the list of rooms.
LEMMA ListRemains ==
    ASSUME ReadsInv, client = "rooms", UNCHANGED <<client, view, owner, journal, account>>, facts' \in Nat, wire' \in Wires,
           list' \in RoomList, loads' \subseteq Reads, \A l \in loads' : l.data = None, reads' \in 0..MaxReads, breaks' \in Nat,
           ListHolds(facts', wire', list')
    PROVE  ReadsInv'
<1>1. /\ ReadTypes /\ view = FreshView /\ owner = IdleOwner
  BY DEF ReadsInv
<1>2. ReadTypes'
  BY <1>1 DEF ReadTypes, Wires
<1>3. owner'.since <= facts'
  BY <1>1 DEF IdleOwner
<1>. QED  BY <1>1, <1>2, <1>3 DEF ReadsInv

LEMMA ListNow ==
    ASSUME ReadsInv, client = "rooms"
    PROVE  /\ ReadTypes /\ facts \in Nat /\ wire \in Wires /\ wire.events \in Seq(Message) /\ wire.up \in BOOLEAN /\ list \in RoomList /\ loads \subseteq Reads
           /\ \A l \in loads : l.data = None
           /\ reads \in 0..MaxReads /\ MaxReads \in Nat /\ breaks \in Nat /\ ListHolds(facts, wire, list)
           /\ view = FreshView /\ owner = IdleOwner /\ Consecutive(facts, wire.events) /\ account \in Nat
BY BrowserReadsAssumption DEF ReadsInv, ReadTypes, Wires, ListHolds

\* A list that has been asked for, or says that it is not there, claims nothing.
LEMMA ListClaimsNothing ==
    ASSUME NEW f \in Nat, NEW w, NEW l, Consecutive(f, w.events), ~w.up => w.events = << >> /\ l.error, l.buffered = {}, l.loading \/ l.error
    PROVE  ListHolds(f, w, l)
BY DEF ListHolds

LEMMA ListChange ==
    ASSUME ReadsInv, client = "rooms", Change
    PROVE  ReadsInv'
<1>1. /\ ReadTypes /\ facts \in Nat /\ wire \in Wires /\ wire.events \in Seq(Message) /\ list \in RoomList /\ loads \subseteq Reads
      /\ \A l \in loads : l.data = None
      /\ reads \in 0..MaxReads /\ breaks \in Nat /\ ListHolds(facts, wire, list) /\ Consecutive(facts, wire.events)
  BY ListNow
<1>2. UNCHANGED <<client, view, owner, journal, loads, list, account, reads, breaks>> /\ Happens
  BY DEF Change
<1>3. /\ facts' = facts + 1 /\ facts' \in Nat /\ wire' \in Wires /\ wire'.up = wire.up
      /\ ~wire.up => wire' = wire
      /\ wire.up => wire'.events = Append(wire.events, [is |-> "change", number |-> facts + 1])
  BY <1>1, <1>2, MessageSent DEF Wires
<1>4. CASE wire.up
  <2>. DEFINE m == [is |-> "change", number |-> facts + 1]
              es == Append(wire.events, m)
  <2>1. Follows(facts, m, facts')
    BY <1>1, <1>3 DEF Follows, Message
  <2>2. wire'.events = es
    BY <1>3, <1>4
  <2>. HIDE DEF m
  <2>3. Consecutive(facts', es) /\ LastDelivered(facts', es) = LastDelivered(facts, wire.events)
    BY <1>1, <1>3, <2>1, NumbersSent
  <2>. HIDE DEF es
  <2>4. ListHolds(facts', wire', list)
    BY <1>1, <1>3, <1>4, <2>2, <2>3 DEF ListHolds
  <2>. QED  BY <1>1, <1>2, <1>3, <2>4, ListRemains
<1>5. CASE ~wire.up
  <2>1. wire' = wire /\ wire.events = << >> /\ list.error
    BY <1>1, <1>3, <1>5 DEF ListHolds
  <2>2. \A n \in list.buffered : n <= facts'
    BY <1>1, <1>3, <2>1 DEF ListHolds, LastDelivered, RoomList
  <2>3. Consecutive(facts', << >>)
    BY DEF Consecutive
  <2>4. ListHolds(facts', wire', list)
    BY <1>5, <2>1, <2>2, <2>3 DEF ListHolds, LastDelivered
  <2>. QED  BY <1>1, <1>2, <1>3, <2>4, ListRemains
<1>. QED  BY <1>4, <1>5

LEMMA ListAsked ==
    ASSUME ReadsInv, client = "rooms", RefreshList
    PROVE  ReadsInv'
<1>1. /\ ReadTypes /\ facts \in Nat /\ wire \in Wires /\ list \in RoomList /\ loads \subseteq Reads
      /\ \A l \in loads : l.data = None
      /\ reads \in 0..MaxReads /\ MaxReads \in Nat /\ breaks \in Nat /\ Consecutive(facts, wire.events)
  BY ListNow
<1>. DEFINE load == [sequence |-> list.generation + 1, of |-> 0, data |-> None]
<1>2. /\ wire.up /\ reads < MaxReads /\ reads' = reads + 1 /\ list' = ReadList(list) /\ loads' = loads \cup {load}
      /\ UNCHANGED <<client, facts, wire, view, owner, journal, account, breaks>>
  BY DEF RefreshList
<1>3. load \in Reads /\ load.data = None
  BY <1>1 DEF Reads, RoomList, Datum
<1>. HIDE DEF load
<1>4. list' \in RoomList /\ list'.loading = TRUE /\ list'.buffered = {}
  BY <1>1, <1>2, ReadListFields
<1>5. ListHolds(facts, wire, list')
  BY <1>1, <1>2, <1>4, ListClaimsNothing
<1>. QED  BY <1>1, <1>2, <1>3, <1>4, <1>5, ListRemains

LEMMA ListServed ==
    ASSUME ReadsInv, client = "rooms", ServeList
    PROVE  ReadsInv'
<1>1. /\ ReadTypes /\ facts \in Nat /\ wire \in Wires /\ wire.events \in Seq(Message) /\ wire.up \in BOOLEAN /\ list \in RoomList /\ loads \subseteq Reads
      /\ \A l \in loads : l.data = None
      /\ reads \in 0..MaxReads /\ breaks \in Nat /\ ListHolds(facts, wire, list) /\ Consecutive(facts, wire.events)
  BY ListNow
<1>2. PICK l \in loads : loads' = loads \ {l} /\ wire' = [wire EXCEPT !.events = Append(@, [is |-> "list", number |-> facts, generation |-> l.sequence])]
  BY DEF ServeList
<1>3. wire.up /\ UNCHANGED <<client, facts, view, owner, journal, list, account, reads, breaks>>
  BY DEF ServeList
<1>. DEFINE m == [is |-> "list", number |-> facts, generation |-> l.sequence]
            es == Append(wire.events, m)
<1>4. Follows(facts, m, facts)
  <2>1. l.sequence \in Nat
    BY <1>1 DEF Reads
  <2>. QED  BY <1>1, <2>1 DEF Follows, Message
<1>5. wire' = [wire EXCEPT !.events = es]
  BY <1>2
<1>. HIDE DEF m
<1>6. Consecutive(facts, es) /\ LastDelivered(facts, es) = LastDelivered(facts, wire.events) /\ es \in Seq(Message)
  <2>1. m \in Message
    BY <1>4 DEF Follows
  <2>2. Consecutive(facts, es) /\ LastDelivered(facts, es) = LastDelivered(facts, wire.events)
    BY <1>1, <1>4, NumbersSent
  <2>. QED  BY <1>1, <2>1, <2>2
<1>. HIDE DEF es
<1>7. wire' \in Wires /\ wire'.up = wire.up /\ wire'.events = es
  BY <1>1, <1>5, <1>6 DEF Wires
<1>8. ListHolds(facts, wire', list)
  BY <1>1, <1>3, <1>6, <1>7 DEF ListHolds
<1>9. loads' \subseteq Reads /\ \A k \in loads' : k.data = None
  BY <1>1, <1>2
<1>. QED  BY <1>1, <1>3, <1>7, <1>8, <1>9, ListRemains

LEMMA ListTimesOut ==
    ASSUME ReadsInv, client = "rooms", TimeOut
    PROVE  ReadsInv'
<1>1. /\ ReadTypes /\ facts \in Nat /\ wire \in Wires /\ list \in RoomList /\ loads \subseteq Reads
      /\ \A l \in loads : l.data = None
      /\ reads \in 0..MaxReads /\ breaks \in Nat /\ Consecutive(facts, wire.events) /\ ListHolds(facts, wire, list)
  BY ListNow
<1>2. list' = Lost(list) /\ UNCHANGED <<client, facts, wire, view, owner, journal, loads, account, reads, breaks>>
  BY DEF TimeOut, Lost
<1>3. list' \in RoomList /\ list'.error = TRUE /\ list'.buffered = {}
  BY <1>1, <1>2, LostFields
<1>4. ~wire.up => wire.events = << >> /\ list'.error
  BY <1>1, <1>3 DEF ListHolds
<1>5. ListHolds(facts, wire, list')
  BY <1>1, <1>3, <1>4, ListClaimsNothing
<1>. QED  BY <1>1, <1>2, <1>3, <1>5, ListRemains

LEMMA UntoldTimesOut ==
    ASSUME ReadsInv, client # "rooms", TimeOut
    PROVE  ReadsInv'
<1>1. ReadTypes /\ list \in RoomList
  BY DEF ReadsInv, ReadTypes
<1>2. list' = Lost(list) /\ UNCHANGED <<client, facts, wire, view, owner, journal, loads, account, reads, breaks>>
  BY DEF TimeOut, Lost
<1>3. list' \in RoomList
  BY <1>1, <1>2, LostFields
<1>. QED  BY <1>2, <1>3 DEF ReadsInv, ReadTypes

LEMMA ListBreaks ==
    ASSUME ReadsInv, client = "rooms", Break
    PROVE  ReadsInv'
<1>1. /\ ReadTypes /\ facts \in Nat /\ list \in RoomList /\ reads \in 0..MaxReads /\ breaks \in Nat
  BY ListNow
<1>2. /\ list' = Lost(list) /\ loads' = {} /\ breaks' = breaks + 1 /\ wire' = [up |-> FALSE, events |-> << >>]
      /\ UNCHANGED <<client, facts, view, owner, journal, account, reads>>
  BY DEF Break, Lost
<1>3. list' \in RoomList /\ list'.error = TRUE /\ list'.buffered = {}
  BY <1>1, <1>2, LostFields
<1>4. << >> \in Seq(Message)
  OBVIOUS
<1>5. wire' \in Wires /\ wire'.up = FALSE /\ wire'.events = << >>
  BY <1>2, <1>4 DEF Wires
<1>6. Consecutive(facts, << >>)
  BY DEF Consecutive
<1>7. ListHolds(facts, wire', list')
  BY <1>1, <1>3, <1>5, <1>6, ListClaimsNothing
<1>. QED  BY <1>1, <1>2, <1>3, <1>5, <1>7, ListRemains

LEMMA ListReopens ==
    ASSUME ReadsInv, client = "rooms", Reopen
    PROVE  ReadsInv'
<1>1. /\ ReadTypes /\ facts \in Nat /\ wire \in Wires /\ list \in RoomList /\ MaxReads \in Nat
      /\ reads \in 0..MaxReads /\ breaks \in Nat /\ Consecutive(facts, wire.events) /\ ListHolds(facts, wire, list)
  BY ListNow
<1>. DEFINE load == [sequence |-> list.generation + 1, of |-> 0, data |-> None]
<1>2. /\ ~wire.up /\ wire' = [wire EXCEPT !.up = TRUE] /\ reads < MaxReads /\ reads' = reads + 1 /\ list' = ReadList(list)
      /\ loads' = {load} /\ UNCHANGED <<client, facts, view, owner, journal, account, breaks>>
  BY DEF Reopen
<1>3. load \in Reads /\ load.data = None
  BY <1>1 DEF Reads, RoomList, Datum
<1>. HIDE DEF load
<1>4. list' \in RoomList /\ list'.loading = TRUE /\ list'.buffered = {}
  BY <1>1, <1>2, ReadListFields
<1>5. wire' \in Wires /\ wire'.up = TRUE /\ wire'.events = wire.events
  BY <1>1, <1>2 DEF Wires
<1>6. ListHolds(facts, wire', list')
  BY <1>1, <1>4, <1>5, ListClaimsNothing
<1>. QED  BY <1>1, <1>2, <1>3, <1>4, <1>5, <1>6, ListRemains

\* The list takes the next number, or its own answer.
LEMMA ListTakes ==
    ASSUME ReadsInv, client = "rooms", Event
    PROVE  ReadsInv'
<1>1. /\ ReadTypes /\ facts \in Nat /\ wire \in Wires /\ wire.events \in Seq(Message) /\ wire.up \in BOOLEAN /\ list \in RoomList /\ loads \subseteq Reads
      /\ \A l \in loads : l.data = None
      /\ reads \in 0..MaxReads /\ breaks \in Nat /\ ListHolds(facts, wire, list) /\ Consecutive(facts, wire.events)
  BY ListNow
<1>. DEFINE e == Head(wire.events)
            n == e.number
            old == LastDelivered(facts, wire.events)
<1>2. /\ wire.events # << >> /\ wire' = [wire EXCEPT !.events = Tail(@)]
      /\ UNCHANGED <<client, facts, journal, account, breaks, view, loads, reads, owner>>
      /\ list' = IF e.is = "list" THEN IF e.generation = list.generation THEN TakeList(n) ELSE list
                 ELSE Applied(Buffering(list, n), n)
  BY DEF Event, KeepView, Buffering
<1>3. wire' \in Wires /\ wire'.up = wire.up /\ wire'.events = Tail(wire.events)
  BY <1>1, <1>2, OneDelivered
<1>4. /\ n \in Nat /\ Consecutive(facts, wire'.events) /\ LastDelivered(facts, wire'.events) = n
      /\ old = n - (IF e.is = "change" THEN 1 ELSE 0) /\ (e.is = "change" => n >= 1) /\ e.is \in {"change", "list"}
  <2>1. /\ e \in Message /\ n \in Nat /\ (e.is = "change" => n >= 1)
        /\ Consecutive(facts, Tail(wire.events)) /\ LastDelivered(facts, Tail(wire.events)) = n
        /\ old = n - (IF e.is = "change" THEN 1 ELSE 0)
    BY <1>1, <1>2, NumbersTaken
  <2>2. e.is \in {"change", "list"}
    BY <2>1 DEF Message
  <2>. QED  BY <1>3, <2>1, <2>2
<1>5. /\ ~wire.up => wire.events = << >> /\ list.error
      /\ \A k \in list.buffered : k <= old
      /\ list.known /\ ~list.loading /\ ~list.error => list.seen = 1..old /\ list.revision = old
  BY <1>1 DEF ListHolds
<1>6. wire.up
  BY <1>2, <1>5
<1>. HIDE DEF e, n, old
<1>7. CASE e.is = "list"
  <2>1. old = n
    BY <1>4, <1>7
  <2>2. CASE e.generation # list.generation
    <3>1. list' = list
      BY <1>2, <1>7, <2>2
    <3>2. ListHolds(facts', wire', list')
      BY <1>2, <1>3, <1>4, <1>5, <1>6, <2>1, <3>1 DEF ListHolds
    <3>. QED  BY <1>1, <1>2, <1>3, <3>1, <3>2, ListRemains
  <2>3. CASE e.generation = list.generation
    <3>1. {k \in list.buffered : k > n} = {}
      <4>1. \A k \in list.buffered : k \in Nat
        BY <1>1 DEF RoomList
      <4>. QED  BY <1>4, <1>5, <2>1, <4>1
    <3>2. list' = Held(list, n)
      BY <1>2, <1>7, <2>3, <3>1 DEF TakeList, Held
    <3>3. list' \in RoomList /\ list'.revision = n /\ list'.seen = 1..n /\ list'.buffered = {}
      BY <1>1, <1>4, <3>2, HeldFields
    <3>4. ListHolds(facts', wire', list')
      BY <1>2, <1>3, <1>4, <1>6, <3>3 DEF ListHolds
    <3>. QED  BY <1>1, <1>2, <1>3, <3>3, <3>4, ListRemains
  <2>. QED  BY <2>2, <2>3
<1>8. CASE e.is = "change"
  <2>. DEFINE kept == Buffering(list, n)
  <2>1. /\ kept \in RoomList /\ kept.buffered \subseteq list.buffered \cup {n}
        /\ kept.loading = list.loading /\ kept.error = list.error /\ kept.known = list.known
        /\ kept.revision = list.revision /\ kept.seen = list.seen
    BY <1>1, <1>4, KeptFields
  <2>2. list' = Applied(kept, n)
    BY <1>2, <1>8
  <2>. HIDE DEF kept
  <2>3. /\ list' \in RoomList /\ list'.buffered = kept.buffered
        /\ list'.loading = kept.loading /\ list'.error = kept.error /\ list'.known = kept.known
        /\ kept.known /\ ~(n <= kept.revision) => list'.revision = n /\ list'.seen = kept.seen \cup {n}
    BY <1>4, <2>1, <2>2, AppliedFields
  <2>4. old = n - 1 /\ old \in Nat /\ n >= 1
    BY <1>4, <1>8
  <2>5. \A k \in list'.buffered : k <= n
    <3>1. \A k \in list'.buffered : k \in Nat /\ (k <= old \/ k = n)
      BY <1>1, <1>4, <1>5, <2>1, <2>3 DEF RoomList
    <3>. QED  BY <1>4, <2>4, <3>1
  <2>6. list'.known /\ ~list'.loading /\ ~list'.error => list'.seen = 1..n /\ list'.revision = n
    <3>. HAVE list'.known /\ ~list'.loading /\ ~list'.error
    <3>1. kept.seen = 1..old /\ kept.revision = old /\ kept.known
      BY <1>5, <2>1, <2>3
    <3>2. ~(n <= kept.revision)
      BY <1>4, <2>4, <3>1
    <3>3. list'.revision = n /\ list'.seen = (1..old) \cup {n}
      BY <2>3, <3>1, <3>2
    <3>4. (1..old) \cup {n} = 1..n
      BY <1>4, <2>4
    <3>. QED  BY <3>3, <3>4
  <2>7. ListHolds(facts', wire', list')
    BY <1>2, <1>3, <1>4, <1>6, <2>5, <2>6 DEF ListHolds
  <2>. QED  BY <1>1, <1>2, <1>3, <2>3, <2>7, ListRemains
<1>. QED  BY <1>4, <1>7, <1>8

------------------------------------------------------------------------------
(* Reads: the theorems *)

LEMMA ReadsStart ==
    ASSUME ReadsInit
    PROVE  ReadsInv
<1>1. /\ client \in {"feed", "actor", "unhinted", "rooms"} /\ facts = 0 /\ wire = [up |-> TRUE, events |-> << >>]
      /\ view = FreshView /\ owner = IdleOwner /\ journal = "empty" /\ loads = {} /\ list = OfflineList /\ account = 0 /\ reads = 0 /\ breaks = 0
  BY DEF ReadsInit
<1>2. << >> \in Seq(Message) /\ None \in Datum /\ MaxReads \in Nat
  BY BrowserReadsAssumption DEF Datum
<1>3. wire \in [up: BOOLEAN, events: Seq(Message)]
  BY <1>1, <1>2
<1>4. view \in ShownView /\ owner \in OwnerState /\ list \in RoomList
  BY <1>1, <1>2 DEF FreshView, IdleOwner, OfflineList, ShownView, ViewStatus, OwnerState, RoomList
<1>5. ReadTypes
  BY <1>1, <1>2, <1>3, <1>4 DEF ReadTypes, JournalState
<1>6. /\ view.status = "idle" /\ view.of = 0 /\ ~owner.dirty /\ owner.action = "none" /\ owner.since = 0
  BY <1>1 DEF FreshView, IdleOwner
<1>7. ViewInOrder(view, owner, loads, account) /\ HintHolds(facts, wire, view, owner, loads, account) /\ ActsAreSeen(view, owner, loads, account)
  BY <1>1, <1>6 DEF ViewInOrder, HintHolds, ActsAreSeen, Acting
<1>8. ListHolds(facts, wire, list)
  BY <1>1 DEF ListHolds, Consecutive, OfflineList
<1>. QED  BY <1>1, <1>5, <1>6, <1>7, <1>8 DEF ReadsInv

LEMMA ReadsStep ==
    ASSUME ReadsInv, ReadsNext
    PROVE  ReadsInv'
<1>1. CASE client = "rooms"
  <2>1. view = FreshView /\ owner = IdleOwner /\ \A l \in loads : l.data = None
    BY <1>1 DEF ReadsInv
  <2>2. /\ ~ServeRead /\ ~Refresh /\ ~Loaded /\ ~SwitchAccount
        /\ ~Heartbeat /\ ~Focus /\ ~OtherSends /\ ~OtherEnds /\ ~ConfirmedLater
    BY <1>1, <2>1 DEF ServeRead, Refresh, Loaded, SwitchAccount, Heartbeat, Focus, OtherSends, OtherEnds, ConfirmedLater
  <2>3. ~LoadFailed /\ ~BeginAct /\ ~Perform /\ ~ConfirmAct
    BY <2>1 DEF LoadFailed, BeginAct, Perform, ConfirmAct, FreshView, IdleOwner
  <2>. QED  BY <1>1, <2>2, <2>3, ListChange, ListAsked, ListServed, ListTimesOut, ListTakes, ListBreaks, ListReopens DEF ReadsNext
<1>2. CASE client # "rooms"
  <2>1. ~RefreshList /\ ~ServeList
    BY <1>2 DEF RefreshList, ServeList
  <2>2. CASE TimeOut
    BY <1>2, <2>2, UntoldTimesOut
  <2>. QED
    BY <1>2, <2>1, <2>2, ChangeKeeps, ServeReadKeeps, RefreshKeeps, LoadedKeeps, LoadFailedKeeps, ActKeeps, ConfirmReadKeeps,
       HeartbeatKeeps, OthersKeep, ConfirmedLaterKeeps, SwitchAccountKeeps, ToldEvent, BreakUntold, ReopenTells DEF ReadsNext
<1>. QED  BY <1>1, <1>2

\* However reads, hints, actions, changes of account and broken connections overlap: a hint is kept or on its way until
\* it is answered, only the newest read is shown, and the changes of the list are delivered without a gap
\* (ReadResource.js, GameLogFeed, FriendsClient, RoomListClient).
THEOREM ReadsInvariance == ReadsSpec => []ReadsInv
<1>1. ReadsInit => ReadsInv
  BY ReadsStart
<1>2. ReadsInv /\ [ReadsNext]_readVars => ReadsInv'
  <2>. SUFFICES ASSUME ReadsInv, [ReadsNext]_readVars PROVE ReadsInv'
    OBVIOUS
  <2>1. CASE ReadsNext
    BY <2>1, ReadsStep
  <2>2. CASE UNCHANGED readVars
    BY <2>2 DEF readVars, ReadsInv, ReadTypes
  <2>. QED  BY <2>1, <2>2
<1>. QED  BY <1>1, <1>2, PTL DEF ReadsSpec

\* A settled view that is told of changes shows the last one, no view shows what another account was shown, an action is
\* seen once it is confirmed, and a list of rooms that claims to be there misses no change (ReadResource.js, RoomListClient).
THEOREM WhatIsShownIsCurrent == ReadsSpec => []ReadsAreCurrent
<1>1. ReadsInv => ReadsAreCurrent
  <2>. SUFFICES ASSUME ReadsInv PROVE ReadsAreCurrent
    OBVIOUS
  <2>1. HintsAreNotLost
    <3>. SUFFICES ASSUME client \in {"feed", "actor"}, ViewSettled, reads < MaxReads, ~owner.missed PROVE view.data = facts
      BY DEF HintsAreNotLost
    <3>1. HintHolds(facts, wire, view, owner, loads, account) /\ owner \in OwnerState
      BY DEF ReadsInv, ReadTypes
    <3>2. ~owner.dirty /\ ~Acting(owner)
      BY <3>1 DEF HintHolds, ViewSettled, Acting, OwnerState
    <3>. QED  BY <3>1, <3>2 DEF HintHolds, ViewSettled
  <2>2. ViewsAreOwn
    <3>1. view.status = "ready" => view.of = account
      BY DEF ReadsInv, ViewInOrder, FreshView
    <3>2. client # "rooms" /\ view.status = "ready" /\ owner.action = "none" => view.data >= owner.since
      BY DEF ReadsInv, ActsAreSeen, Acting
    <3>. QED  BY <3>1, <3>2 DEF ViewsAreOwn
  <2>3. ListIsComplete
    <3>. SUFFICES ASSUME client = "rooms", list.known, ~list.loading, ~list.error
         PROVE  (\E n \in 0..facts : list.seen = 1..n) /\ (wire.events = << >> => list.seen = 1..facts)
      BY DEF ListIsComplete
    <3>1. facts \in Nat /\ wire.events \in Seq(Message) /\ ListHolds(facts, wire, list) /\ Consecutive(facts, wire.events)
      BY ListNow
    <3>2. LastDelivered(facts, wire.events) \in 0..facts
      BY <3>1, NumbersDelivered
    <3>3. list.seen = 1..LastDelivered(facts, wire.events)
      BY <3>1 DEF ListHolds
    <3>4. wire.events = << >> => LastDelivered(facts, wire.events) = facts
      BY DEF LastDelivered
    <3>. QED  BY <3>2, <3>3, <3>4
  <2>. QED  BY <2>1, <2>2, <2>3 DEF ReadsAreCurrent
<1>. QED  BY <1>1, ReadsInvariance, PTL

------------------------------------------------------------------------------
(* Accounts: the inductive invariant *)

UserRow == [guest: BOOLEAN, expires: Nat, retired: BOOLEAN, version: Nat]
Token == [of: Player, guest: BOOLEAN, exp: Nat]
Tokens == Token \cup {NoToken}
UserProfile == [id: Player, guest: BOOLEAN, version: Nat]
Profiles == UserProfile \cup {NoProfile}
Reply == [status: Nat, user: Profiles, token: Tokens]
Requests == [number: Nat, kind: {"me", "upgrade", "privacy", "login"}, token: Token, expected: Nat, served: BOOLEAN, answer: Reply]
PageScope == [generation: Nat, token: Tokens, id: Player \cup {NoOne}]
Stage == {"off", "restore", "submit", "read", "write", "needsRefresh", "check", "post", "confirm"}
Sending == Stage \ {"needsRefresh"}
FlowState == [stage: Stage, call: Nat, scope: PageScope, refused: BOOLEAN]
PageIdentity == [token: Tokens, user: Profiles, generation: Nat]
Choice == [applied: Nat, overruling: BOOLEAN]

AccountTypes ==
    /\ row \in [Player -> UserRow] /\ grants \in [Player -> Nat] /\ days \in Nat
    /\ admitted \subseteq Player /\ online \subseteq Player /\ cleanup \in Player \cup {NoOne}
    /\ tab \in PageIdentity /\ flow \in [Flow -> FlowState] /\ requests \subseteq Requests /\ asked \in Nat
    /\ chosen \in [Player -> Choice]

\* A token opens an account no longer than the row of a guest lasts.
Backed(t, users) == t # NoToken => (users[t.of].guest => t.exp <= users[t.of].expires)

\* A retired guest had expired; nobody is retired, or about to be, who is connected or connecting.
RetiringHolds ==
    /\ \A u \in Player : row[u].retired => row[u].guest /\ row[u].expires < days /\ u \notin online \cup admitted
    /\ \A u \in admitted : row[u].guest => row[u].expires >= days
    /\ cleanup # NoOne => /\ row[cleanup].guest /\ ~row[cleanup].retired /\ row[cleanup].expires < days
                          /\ cleanup \notin online \cup admitted

\* The page shows the account its token opens, at a revision the account has had.
IdentityHolds(t, users) ==
    /\ Backed(t.token, users)
    /\ t.user # NoProfile => t.user.id = t.token.of /\ t.user.version <= users[t.token.of].version

\* An answer is about the account that asked, and what it says has been so.
AnswerHolds(a, u, users) ==
    a.status = 200 =>
        /\ a.user # NoProfile /\ a.user.id = u /\ a.user.version <= users[u].version /\ (~a.user.guest => ~users[u].guest)
        /\ a.token # NoToken => a.token.of = u /\ Backed(a.token, users)

\* A choice that could still take effect was made on the revision there is; one that was overtaken was not.
RequestHolds(c, users, ch, n) ==
    /\ c.number <= n /\ AnswerHolds(c.answer, c.token.of, users)
    /\ c.kind = "login" /\ c.answer.status = 200 => c.answer.token # NoToken
    /\ c.kind = "privacy" /\ ~c.served =>
           /\ c.expected <= users[c.token.of].version
           /\ c.number < ch[c.token.of].applied => c.expected < users[c.token.of].version

\* Within a generation the page has tokens of one account only.
ScopeHolds(s, t) ==
    /\ s.generation <= t.generation
    /\ s.generation = t.generation /\ s.token # NoToken /\ t.token # NoToken => s.token.of = t.token.of

\* A flow awaits the request that it sent.
FlowHolds(f, w, reqs, t, n) ==
    /\ w.call <= n /\ ScopeHolds(w.scope, t)
    /\ w.stage \notin {"off", "needsRefresh"} =>
           \A c \in reqs : c.number = w.call => IF f = "auth" THEN c.kind = "login" ELSE c.token = w.scope.token
    /\ f = "upgrade" => w.stage # "needsRefresh"
    /\ f = "upgrade" /\ w.stage # "off" => w.scope.token # NoToken /\ w.scope.id = w.scope.token.of

AccountsInv ==
    /\ AccountTypes /\ RetiringHolds /\ IdentityHolds(tab, row)
    /\ \A u \in Player : grants[u] = (IF row[u].guest THEN 0 ELSE 1)
    /\ told.is = "saved" => told.of \in Player /\ ~row[told.of].guest
    /\ dropped.cleared = dropped.rejected
    /\ \A u \in Player : ~chosen[u].overruling /\ chosen[u].applied <= asked
    /\ \A c \in requests : RequestHolds(c, row, chosen, asked)
    /\ \A f \in Flow : FlowHolds(f, flow[f], requests, tab, asked)

------------------------------------------------------------------------------
(* Accounts: what the server does with a row *)

RowGrows(old, new) ==
    /\ new \in UserRow /\ old.version <= new.version /\ new.retired = old.retired
    /\ new.guest => old.guest /\ old.expires <= new.expires

LEMMA UpdatedFields ==
    ASSUME NEW r \in UserRow
    PROVE  /\ Updated(r) \in UserRow /\ Updated(r).version = r.version + 1
           /\ Updated(r).guest = r.guest /\ Updated(r).expires = r.expires /\ Updated(r).retired = r.retired
<1>. DEFINE next == r.version + 1
<1>1. next \in Nat
  BY DEF UserRow
<1>2. Updated(r) = [r EXCEPT !.version = next]
  BY DEF Updated
<1>. HIDE DEF next
<1>3. /\ Updated(r) \in UserRow /\ Updated(r).version = next
      /\ Updated(r).guest = r.guest /\ Updated(r).expires = r.expires /\ Updated(r).retired = r.retired
  BY <1>1, <1>2 DEF UserRow
<1>. QED  BY <1>3 DEF next

LEMMA LifetimeIsLong == Lifetime \in Nat /\ Renewal \in Nat /\ 0 < Renewal /\ Renewal < Lifetime
BY AccountsAssumption

\* authorizeAccount: what a guest has left never gets less, and is more than a moment.
LEMMA AuthorizedFields ==
    ASSUME days \in Nat, NEW r \in UserRow, NEW renew \in BOOLEAN
    PROVE  /\ Authorized(r, renew) \in UserRow /\ Authorized(r, renew).guest = r.guest /\ Authorized(r, renew).retired = r.retired
           /\ r.version <= Authorized(r, renew).version /\ r.expires <= Authorized(r, renew).expires
           /\ r.guest => Authorized(r, renew).expires > days
           /\ r.guest /\ renew => Authorized(r, renew).expires >= days + Lifetime
<1>. DEFINE until == days + Lifetime
            longer == [r EXCEPT !.expires = until]
            limit == days + (IF renew THEN Lifetime ELSE Renewal)
<1>1. /\ Lifetime \in Nat /\ Renewal \in Nat /\ 0 < Renewal /\ Renewal < Lifetime
  BY LifetimeIsLong
<1>2. until \in Nat /\ limit \in Nat /\ days < limit /\ limit <= until /\ (renew => limit = until) /\ until = days + Lifetime
  BY <1>1
<1>3. Authorized(r, renew) = IF r.guest /\ r.expires <= limit THEN Updated(longer) ELSE r
  BY DEF Authorized
<1>. HIDE DEF until, limit
<1>4. r.guest \in BOOLEAN /\ r.expires \in Nat /\ r.version \in Nat
  BY DEF UserRow
<1>5. longer \in UserRow /\ longer.guest = r.guest /\ longer.retired = r.retired /\ longer.version = r.version /\ longer.expires = until
  BY <1>2 DEF UserRow
<1>. HIDE DEF longer
<1>6. /\ Updated(longer) \in UserRow /\ Updated(longer).version = r.version + 1
      /\ Updated(longer).guest = r.guest /\ Updated(longer).expires = until /\ Updated(longer).retired = r.retired
  BY <1>5, UpdatedFields
<1>7. CASE r.guest /\ r.expires <= limit
  <2>1. Authorized(r, renew) = Updated(longer)
    BY <1>3, <1>7
  <2>2. r.expires <= until /\ until > days
    BY <1>2, <1>4, <1>7
  <2>. QED  BY <1>2, <1>4, <1>6, <2>1, <2>2
<1>8. CASE ~(r.guest /\ r.expires <= limit)
  <2>1. Authorized(r, renew) = r
    BY <1>3, <1>8
  <2>2. r.guest => r.expires > days /\ (renew => r.expires >= until)
    BY <1>2, <1>4, <1>8
  <2>. QED  BY <1>2, <1>4, <2>1, <2>2
<1>. QED  BY <1>7, <1>8

LEMMA AuthorizedGrows ==
    ASSUME days \in Nat, NEW r \in UserRow, NEW renew \in BOOLEAN
    PROVE  RowGrows(r, Authorized(r, renew))
BY AuthorizedFields DEF RowGrows

LEMMA GrowsOn ==
    ASSUME NEW r \in UserRow, NEW s \in UserRow, NEW t \in UserRow, RowGrows(r, s), RowGrows(s, t)
    PROVE  RowGrows(r, t)
BY DEF RowGrows, UserRow

LEMMA ProfileFields ==
    ASSUME NEW u \in Player, NEW r \in UserRow
    PROVE  /\ Profile(u, r) \in UserProfile /\ Profile(u, r).id = u /\ Profile(u, r).guest = r.guest
           /\ Profile(u, r).version = r.version /\ Profile(u, r) # NoProfile
<1>1. NoOne \notin Player
  BY AccountsAssumption
<1>. QED  BY <1>1 DEF Profile, UserProfile, UserRow, NoProfile

LEMMA SignedFields ==
    ASSUME days \in Nat, NEW u \in Player, NEW r \in UserRow
    PROVE  /\ SignToken(u, r) \in Token /\ SignToken(u, r).of = u /\ SignToken(u, r) # NoToken
           /\ r.guest => SignToken(u, r).exp = days + Lifetime
<1>1. NoOne \notin Player /\ Lifetime \in Nat
  BY AccountsAssumption, LifetimeIsLong
<1>2. days + Lifetime \in Nat /\ Forever \in Nat
  BY <1>1 DEF Forever
<1>. QED  BY <1>1, <1>2 DEF SignToken, Token, UserRow, NoToken

\* What a request may do to the row r, and what it answers.
AnswerOf(a, u, r) ==
    a.status = 200 =>
        /\ a.user # NoProfile /\ a.user.id = u /\ a.user.version <= r.version /\ (~a.user.guest => ~r.guest)
        /\ a.token # NoToken => a.token.of = u /\ (r.guest => a.token.exp <= r.expires)

OutcomeHolds(o, c, r) ==
    /\ RowGrows(r, o.row) /\ (r.retired => o.row = r)
    /\ o.grant = (IF r.guest /\ ~o.row.guest THEN 1 ELSE 0)
    /\ o.answer \in Reply /\ AnswerOf(o.answer, c.token.of, o.row)
    /\ c.kind = "login" /\ o.answer.status = 200 => o.answer.token # NoToken
    /\ c.kind = "privacy" /\ o.answer.status = 200 => r.version <= c.expected /\ r.version < o.row.version

\* The row after the request was authorized.
Opened(r, s) == s \in UserRow /\ RowGrows(r, s) /\ s.guest = r.guest /\ (r.retired => s = r)

LEMMA OpenedAt ==
    ASSUME days \in Nat, NEW r \in UserRow, ~r.retired, NEW renew \in BOOLEAN
    PROVE  Opened(r, Authorized(r, renew))
BY AuthorizedFields, AuthorizedGrows DEF Opened

LEMMA OpenedAsIs ==
    ASSUME NEW r \in UserRow
    PROVE  Opened(r, r)
BY DEF Opened, RowGrows, UserRow

LEMMA DeniedOutcome ==
    ASSUME NEW c \in Requests, NEW r \in UserRow, NEW s, Opened(r, s), NEW status \in Nat \ {200}
    PROVE  OutcomeHolds(Unchanged(s, status), c, r)
<1>1. Denied(status) \in Reply /\ Denied(status).status = status
  BY DEF Denied, Unconfirmed, Reply, Profiles, Tokens
<1>2. /\ Unchanged(s, status).row = s /\ Unchanged(s, status).grant = 0 /\ Unchanged(s, status).answer = Denied(status)
  BY DEF Unchanged
<1>3. s.guest = r.guest /\ r.guest \in BOOLEAN /\ RowGrows(r, s) /\ (r.retired => s = r)
  BY DEF Opened, UserRow
<1>. HIDE DEF Unchanged
<1>4. AnswerOf(Denied(status), c.token.of, s)
  BY <1>1 DEF AnswerOf
<1>. QED  BY <1>1, <1>2, <1>3, <1>4 DEF OutcomeHolds

LEMMA MeOutcome ==
    ASSUME days \in Nat, NEW c \in Requests, c.kind = "me", NEW r \in UserRow, ~r.retired, NEW s, Opened(r, s)
    PROVE  OutcomeHolds(Me(c, s), c, r)
<1>. DEFINE renews == c.token.exp - days < Renewal \/ c.token.guest # s.guest
            new == IF renews THEN Authorized(s, TRUE) ELSE s
            u == c.token.of
            t == IF renews THEN SignToken(u, new) ELSE NoToken
            p == Profile(u, new)
            a == [status |-> 200, user |-> p, token |-> t]
<1>1. s \in UserRow /\ RowGrows(r, s) /\ s.guest = r.guest /\ r.guest \in BOOLEAN /\ u \in Player /\ TRUE \in BOOLEAN
  BY DEF Opened, UserRow, Requests, Token
<1>2. Me(c, s) = [row |-> new, grant |-> 0, answer |-> a]
  BY DEF Me
<1>. HIDE DEF renews
<1>3. new \in UserRow /\ RowGrows(s, new) /\ new.guest = s.guest /\ (renews /\ new.guest => new.expires >= days + Lifetime)
  <2>1. CASE renews
    <3>1. new = Authorized(s, TRUE)
      BY <2>1
    <3>2. /\ Authorized(s, TRUE) \in UserRow /\ Authorized(s, TRUE).guest = s.guest
          /\ s.guest => Authorized(s, TRUE).expires >= days + Lifetime
      BY <1>1, AuthorizedFields
    <3>3. RowGrows(s, Authorized(s, TRUE))
      BY <1>1, AuthorizedGrows
    <3>. QED  BY <3>1, <3>2, <3>3
  <2>2. CASE ~renews
    BY <1>1, <2>2, OpenedAsIs DEF Opened
  <2>. QED  BY <2>1, <2>2
<1>. HIDE DEF new
<1>4. RowGrows(r, new)
  BY <1>1, <1>3, GrowsOn
<1>5. /\ t \in Tokens
      /\ t # NoToken => t.of = u /\ (new.guest => t.exp <= new.expires)
  <2>1. CASE renews
    <3>1. SignToken(u, new) \in Token /\ SignToken(u, new).of = u /\ (new.guest => SignToken(u, new).exp = days + Lifetime)
      BY <1>1, <1>3, SignedFields
    <3>2. Lifetime \in Nat
      BY LifetimeIsLong
    <3>. QED  BY <1>3, <2>1, <3>1, <3>2 DEF Tokens, UserRow
  <2>2. CASE ~renews
    BY <2>2 DEF Tokens
  <2>. QED  BY <2>1, <2>2
<1>. HIDE DEF t
<1>6. /\ p \in UserProfile /\ p.id = u /\ p.guest = new.guest /\ p.version = new.version /\ p # NoProfile
  BY <1>1, <1>3, ProfileFields
<1>. HIDE DEF p, u
<1>7. a \in Reply /\ AnswerOf(a, u, new)
  <2>1. a.status = 200 /\ a.user = p /\ a.token = t
    OBVIOUS
  <2>2. a \in Reply
    BY <1>5, <1>6 DEF Reply, Profiles
  <2>. HIDE DEF a
  <2>3. new.version \in Nat
    BY <1>3 DEF UserRow
  <2>. QED  BY <1>5, <1>6, <2>1, <2>2, <2>3 DEF AnswerOf
<1>. HIDE DEF a
<1>8. Me(c, s).row = new /\ Me(c, s).grant = 0 /\ Me(c, s).answer = a
  BY <1>2
<1>. QED  BY <1>1, <1>3, <1>4, <1>7, <1>8 DEF OutcomeHolds, u

\* A conversion: the row is updated twice, and is no guest's any more.
Converted(r) == Updated(Updated([r EXCEPT !.guest = FALSE, !.expires = Forever]))

LEMMA ConvertedFields ==
    ASSUME NEW r \in UserRow
    PROVE  /\ Converted(r) \in UserRow /\ Converted(r).guest = FALSE /\ Converted(r).retired = r.retired /\ RowGrows(r, Converted(r))
<1>. DEFINE r1a == [r EXCEPT !.guest = FALSE]
            r2a == [r1a EXCEPT !.expires = Forever]
<1>1. Forever \in Nat
  BY DEF Forever
<1>2. Converted(r) = Updated(Updated(r2a))
  BY DEF Converted
<1>3. r1a \in UserRow /\ r1a.guest = FALSE /\ r1a.retired = r.retired /\ r1a.version = r.version
  BY DEF UserRow
<1>. HIDE DEF r1a
<1>4. r2a \in UserRow /\ r2a.guest = FALSE /\ r2a.retired = r.retired /\ r2a.version = r.version
  BY <1>1, <1>3 DEF UserRow
<1>. HIDE DEF r2a
<1>. DEFINE r3a == Updated(r2a)
<1>5. r3a \in UserRow /\ r3a.guest = FALSE /\ r3a.retired = r.retired /\ r3a.version = r2a.version + 1
  BY <1>4, UpdatedFields
<1>. HIDE DEF r3a
<1>6. /\ Updated(r3a) \in UserRow /\ Updated(r3a).guest = FALSE /\ Updated(r3a).retired = r.retired
      /\ Updated(r3a).version = r3a.version + 1
  BY <1>5, UpdatedFields
<1>7. r.version \in Nat /\ Converted(r) = Updated(r3a)
  BY <1>2 DEF r3a, UserRow
<1>8. r.version <= Converted(r).version
  BY <1>4, <1>5, <1>6, <1>7
<1>. QED  BY <1>6, <1>7, <1>8 DEF RowGrows

LEMMA UpgradeOutcome ==
    ASSUME days \in Nat, NEW c \in Requests, c.kind = "upgrade", NEW r \in UserRow, ~r.retired, NEW s, Opened(r, s)
    PROVE  OutcomeHolds(Upgrade(c, s), c, r)
<1>1. CASE ~s.guest
  <2>1. Upgrade(c, s) = Unchanged(s, 400) /\ 400 \in Nat \ {200}
    BY <1>1 DEF Upgrade
  <2>. QED  BY <2>1, DeniedOutcome
<1>2. CASE s.guest
  <2>. DEFINE u == c.token.of
              new == Converted(s)
              p == Profile(u, new)
              t == SignToken(u, new)
              a == [status |-> 200, user |-> p, token |-> t]
  <2>1. s \in UserRow /\ RowGrows(r, s) /\ s.guest = r.guest /\ u \in Player
    BY DEF Opened, Requests, Token
  <2>2. Upgrade(c, s) = [row |-> new, grant |-> 1, answer |-> a]
    BY <1>2 DEF Upgrade, Converted
  <2>3. new \in UserRow /\ new.guest = FALSE /\ RowGrows(s, new)
    BY <2>1, ConvertedFields
  <2>. HIDE DEF new
  <2>4. RowGrows(r, new)
    BY <2>1, <2>3, GrowsOn
  <2>5. /\ p \in UserProfile /\ p.id = u /\ p.guest = FALSE /\ p.version = new.version /\ p # NoProfile
    BY <2>1, <2>3, ProfileFields
  <2>6. t \in Token /\ t.of = u
    BY <2>1, <2>3, SignedFields
  <2>. HIDE DEF p, t, u
  <2>7. a \in Reply
    BY <2>5, <2>6 DEF Reply, Profiles, Tokens
  <2>8. a.status = 200 /\ a.user = p /\ a.token = t
    OBVIOUS
  <2>. HIDE DEF a
  <2>9. new.version \in Nat
    BY <2>3 DEF UserRow
  <2>10. AnswerOf(a, u, new)
    BY <2>3, <2>5, <2>6, <2>8, <2>9 DEF AnswerOf
  <2>11. Upgrade(c, s).row = new /\ Upgrade(c, s).grant = 1 /\ Upgrade(c, s).answer = a
    BY <2>2
  <2>. QED  BY <1>2, <2>1, <2>3, <2>4, <2>7, <2>10, <2>11 DEF OutcomeHolds, u
<1>. QED  BY <1>1, <1>2

LEMMA PrivacyOutcome ==
    ASSUME NEW c \in Requests, c.kind = "privacy", NEW r \in UserRow, ~r.retired, NEW s, Opened(r, s)
    PROVE  OutcomeHolds(Privacy(c, s), c, r)
<1>1. CASE s.version # c.expected
  <2>1. Privacy(c, s) = Unchanged(s, 409) /\ 409 \in Nat \ {200}
    BY <1>1 DEF Privacy
  <2>. QED  BY <2>1, DeniedOutcome
<1>2. CASE s.version = c.expected
  <2>. DEFINE u == c.token.of
              new == Updated(s)
              p == Profile(u, new)
              a == [Denied(200) EXCEPT !.user = p]
  <2>1. s \in UserRow /\ RowGrows(r, s) /\ s.guest = r.guest /\ r.guest \in BOOLEAN /\ u \in Player
    BY DEF Opened, Requests, Token, UserRow
  <2>2. Privacy(c, s) = [row |-> new, grant |-> 0, answer |-> a]
    BY <1>2 DEF Privacy
  <2>3. new \in UserRow /\ new.version = s.version + 1 /\ new.guest = s.guest /\ new.expires = s.expires /\ new.retired = s.retired
    BY <2>1, UpdatedFields
  <2>. HIDE DEF new
  <2>4. r.version \in Nat /\ s.version \in Nat /\ r.version <= s.version /\ RowGrows(s, new)
    BY <2>1, <2>3 DEF RowGrows, UserRow
  <2>5. RowGrows(r, new)
    BY <2>1, <2>3, <2>4, GrowsOn
  <2>6. /\ p \in UserProfile /\ p.id = u /\ p.guest = new.guest /\ p.version = new.version /\ p # NoProfile
    BY <2>1, <2>3, ProfileFields
  <2>. HIDE DEF p, u
  <2>7. a \in Reply /\ a.status = 200 /\ a.user = p /\ a.token = NoToken
    BY <2>6 DEF Denied, Unconfirmed, Reply, Profiles, Tokens
  <2>. HIDE DEF a
  <2>8. AnswerOf(a, u, new)
    BY <2>3, <2>4, <2>6, <2>7 DEF AnswerOf
  <2>9. Privacy(c, s).row = new /\ Privacy(c, s).grant = 0 /\ Privacy(c, s).answer = a
    BY <2>2
  <2>10. r.version <= c.expected /\ r.version < new.version
    BY <1>2, <2>3, <2>4
  <2>. QED  BY <2>1, <2>3, <2>5, <2>7, <2>8, <2>9, <2>10 DEF OutcomeHolds, u
<1>. QED  BY <1>1, <1>2

LEMMA LoginOutcome ==
    ASSUME days \in Nat, NEW c \in Requests, c.kind = "login", NEW r \in UserRow
    PROVE  OutcomeHolds(Login(c, r), c, r)
<1>1. CASE r.guest
  <2>1. Login(c, r) = Unchanged(r, 400) /\ 400 \in Nat \ {200} /\ Opened(r, r)
    BY <1>1, OpenedAsIs DEF Login
  <2>. QED  BY <2>1, DeniedOutcome
<1>2. CASE ~r.guest
  <2>. DEFINE u == c.token.of
              p == Profile(u, r)
              t == SignToken(u, r)
              a == [status |-> 200, user |-> p, token |-> t]
  <2>1. u \in Player /\ RowGrows(r, r) /\ r.version \in Nat
    BY OpenedAsIs DEF Opened, Requests, Token, UserRow
  <2>2. Login(c, r) = [row |-> r, grant |-> 0, answer |-> a]
    BY <1>2 DEF Login
  <2>3. /\ p \in UserProfile /\ p.id = u /\ p.version = r.version /\ p # NoProfile
    BY <2>1, ProfileFields
  <2>4. t \in Token /\ t.of = u /\ t # NoToken
    BY <2>1, SignedFields
  <2>. HIDE DEF p, t, u
  <2>5. a \in Reply
    BY <2>3, <2>4 DEF Reply, Profiles, Tokens
  <2>6. a.status = 200 /\ a.user = p /\ a.token = t
    OBVIOUS
  <2>. HIDE DEF a
  <2>7. AnswerOf(a, u, r)
    BY <1>2, <2>1, <2>3, <2>4, <2>6 DEF AnswerOf
  <2>8. Login(c, r).row = r /\ Login(c, r).grant = 0 /\ Login(c, r).answer = a
    BY <2>2
  <2>. QED  BY <1>2, <2>1, <2>4, <2>5, <2>6, <2>7, <2>8 DEF OutcomeHolds, u
<1>. QED  BY <1>1, <1>2

LEMMA OutcomesHold ==
    ASSUME AccountTypes, NEW c \in Requests, NEW o \in Outcomes(c)
    PROVE  OutcomeHolds(o, c, row[c.token.of])
<1>. DEFINE r == row[c.token.of]
            s == Authorized(r, FALSE)
<1>1. c.token.of \in Player /\ r \in UserRow /\ days \in Nat /\ c.kind \in {"me", "upgrade", "privacy", "login"}
  BY DEF AccountTypes, Requests, Token
<1>2. Opened(r, r) /\ (~r.retired => Opened(r, s))
  <2>1. FALSE \in BOOLEAN
    OBVIOUS
  <2>2. Opened(r, r)
    BY <1>1, OpenedAsIs
  <2>3. ~r.retired => Opened(r, s)
    BY <1>1, <2>1, OpenedAt
  <2>. QED  BY <2>2, <2>3
<1>3. 401 \in Nat \ {200} /\ 409 \in Nat \ {200}
  OBVIOUS
<1>4. CASE c.kind = "login"
  <2>1. o = Unchanged(r, 401) \/ o = Login(c, r)
    BY <1>4 DEF Outcomes
  <2>2. OutcomeHolds(Unchanged(r, 401), c, r)
    BY <1>1, <1>2, <1>3, DeniedOutcome
  <2>3. OutcomeHolds(Login(c, r), c, r)
    BY <1>1, <1>4, LoginOutcome
  <2>. QED  BY <2>1, <2>2, <2>3
<1>5. CASE c.kind # "login" /\ ~ValidToken(c.token)
  <2>1. o = Unchanged(r, 401)
    BY <1>5 DEF Outcomes
  <2>2. OutcomeHolds(Unchanged(r, 401), c, r)
    BY <1>1, <1>2, <1>3, DeniedOutcome
  <2>. QED  BY <2>1, <2>2
<1>6. CASE c.kind # "login" /\ ValidToken(c.token)
  <2>1. ~r.retired
    BY <1>6 DEF ValidToken
  <2>2. Opened(r, s)
    BY <1>2, <2>1
  <2>3. CASE c.kind = "upgrade"
    <3>1. o = Upgrade(c, s) \/ o = Unchanged(s, 409)
      BY <1>6, <2>3 DEF Outcomes
    <3>. HIDE DEF s, r
    <3>2. OutcomeHolds(Upgrade(c, s), c, r)
      BY <1>1, <2>1, <2>2, <2>3, UpgradeOutcome
    <3>3. OutcomeHolds(Unchanged(s, 409), c, r)
      BY <1>1, <2>2, <1>3, DeniedOutcome
    <3>4. OutcomeHolds(o, c, r)
      BY <3>1, <3>2, <3>3
    <3>. QED  BY <3>4 DEF r
  <2>4. CASE c.kind = "privacy"
    <3>1. o = Privacy(c, s)
      BY <1>6, <2>4 DEF Outcomes
    <3>. HIDE DEF s, r
    <3>2. OutcomeHolds(Privacy(c, s), c, r)
      BY <1>1, <2>1, <2>2, <2>4, PrivacyOutcome
    <3>3. OutcomeHolds(o, c, r)
      BY <3>1, <3>2
    <3>. QED  BY <3>3 DEF r
  <2>5. CASE c.kind = "me"
    <3>1. o = Me(c, s)
      BY <1>6, <2>5 DEF Outcomes
    <3>. HIDE DEF s, r
    <3>2. OutcomeHolds(Me(c, s), c, r)
      BY <1>1, <2>1, <2>2, <2>5, MeOutcome
    <3>3. OutcomeHolds(o, c, r)
      BY <3>1, <3>2
    <3>. QED  BY <3>3 DEF r
  <2>. QED  BY <1>1, <1>6, <2>3, <2>4, <2>5
<1>. QED  BY <1>4, <1>5, <1>6

------------------------------------------------------------------------------
(* Accounts: the steps of the server *)

\* Rows only go forward: revisions grow, a guest's time too, and whoever is registered stays so.
Later(old, new) ==
    /\ new \in [Player -> UserRow]
    /\ \A u \in Player : /\ old[u].version <= new[u].version
                         /\ new[u].guest => old[u].guest /\ old[u].expires <= new[u].expires

LEMMA BackedStill ==
    ASSUME NEW old \in [Player -> UserRow], NEW new, Later(old, new), NEW t \in Tokens, Backed(t, old)
    PROVE  Backed(t, new)
<1>1. CASE t = NoToken
  BY <1>1 DEF Backed
<1>2. CASE t # NoToken
  <2>1. t.of \in Player /\ t.exp \in Nat
    BY <1>2 DEF Tokens, Token
  <2>2. /\ old[t.of].expires \in Nat /\ new[t.of].expires \in Nat
        /\ new[t.of].guest => old[t.of].guest /\ old[t.of].expires <= new[t.of].expires
    BY <2>1 DEF Later, UserRow
  <2>. QED  BY <1>2, <2>1, <2>2 DEF Backed
<1>. QED  BY <1>1, <1>2

LEMMA IdentityStill ==
    ASSUME NEW old \in [Player -> UserRow], NEW new, Later(old, new), NEW t \in PageIdentity, IdentityHolds(t, old)
    PROVE  IdentityHolds(t, new)
<1>1. t.token \in Tokens /\ t.user \in Profiles
  BY DEF PageIdentity
<1>2. Backed(t.token, new)
  BY <1>1, BackedStill DEF IdentityHolds
<1>3. ASSUME t.user # NoProfile PROVE t.user.version <= new[t.token.of].version
  <2>1. t.user.id = t.token.of /\ t.user.version <= old[t.token.of].version
    BY <1>3 DEF IdentityHolds
  <2>2. t.token.of \in Player /\ t.user.version \in Nat
    BY <1>1, <1>3, <2>1 DEF Profiles, UserProfile
  <2>3. old[t.token.of].version \in Nat /\ new[t.token.of].version \in Nat /\ old[t.token.of].version <= new[t.token.of].version
    BY <2>2 DEF Later, UserRow
  <2>. QED  BY <2>1, <2>2, <2>3
<1>. QED  BY <1>2, <1>3 DEF IdentityHolds

LEMMA AnswerStill ==
    ASSUME NEW old \in [Player -> UserRow], NEW new, Later(old, new), NEW a \in Reply, NEW u \in Player, AnswerHolds(a, u, old)
    PROVE  AnswerHolds(a, u, new)
<1>. SUFFICES ASSUME a.status = 200 PROVE AnswerHolds(a, u, new)
  BY DEF AnswerHolds
<1>1. /\ a.user # NoProfile /\ a.user.id = u /\ a.user.version <= old[u].version /\ (~a.user.guest => ~old[u].guest)
      /\ a.token # NoToken => a.token.of = u /\ Backed(a.token, old)
  BY DEF AnswerHolds
<1>2. a.user.version \in Nat /\ a.token \in Tokens
  BY <1>1 DEF Reply, Profiles, UserProfile
<1>3. /\ old[u].version \in Nat /\ new[u].version \in Nat /\ old[u].version <= new[u].version
      /\ new[u].guest => old[u].guest
  BY DEF Later, UserRow
<1>4. a.token # NoToken => Backed(a.token, new)
  BY <1>1, <1>2, BackedStill
<1>. QED  BY <1>1, <1>2, <1>3, <1>4 DEF AnswerHolds

LEMMA RequestStill ==
    ASSUME NEW old \in [Player -> UserRow], NEW new, Later(old, new), NEW c \in Requests, NEW ch \in [Player -> Choice], NEW n \in Nat,
           RequestHolds(c, old, ch, n)
    PROVE  RequestHolds(c, new, ch, n)
<1>. DEFINE u == c.token.of
<1>1. u \in Player /\ c.answer \in Reply /\ c.expected \in Nat
  BY DEF Requests, Token
<1>2. AnswerHolds(c.answer, u, old)
  BY DEF RequestHolds
<1>3. old[u].version \in Nat /\ new[u].version \in Nat /\ old[u].version <= new[u].version
  BY <1>1 DEF Later, UserRow
<1>. HIDE DEF u
<1>4. AnswerHolds(c.answer, u, new)
  BY <1>1, <1>2, AnswerStill
<1>. QED  BY <1>1, <1>3, <1>4 DEF RequestHolds, u

\* What remains to be shown of a step of the server that no request asked for.
LEMMA ServerRemains ==
    ASSUME AccountsInv, Later(row, row'), grants' \in [Player -> Nat], \A u \in Player : grants'[u] = (IF row'[u].guest THEN 0 ELSE 1),
           days' \in Nat, admitted' \subseteq Player, online' \subseteq Player, cleanup' \in Player \cup {NoOne}, RetiringHolds',
           UNCHANGED <<tab, flow, requests, asked, told, dropped, chosen>>
    PROVE  AccountsInv'
<1>1. /\ AccountTypes /\ row \in [Player -> UserRow] /\ tab \in PageIdentity /\ IdentityHolds(tab, row)
      /\ requests \subseteq Requests /\ chosen \in [Player -> Choice] /\ asked \in Nat
  BY DEF AccountsInv, AccountTypes
<1>2. AccountTypes'
  BY <1>1 DEF AccountTypes, Later
<1>3. IdentityHolds(tab, row')
  BY <1>1, IdentityStill
<1>4. \A c \in requests : RequestHolds(c, row', chosen, asked)
  <2>. TAKE c \in requests
  <2>1. RequestHolds(c, row, chosen, asked) /\ c \in Requests
    BY <1>1 DEF AccountsInv
  <2>. QED  BY <1>1, <2>1, RequestStill
<1>5. told.is = "saved" => told.of \in Player /\ ~row'[told.of].guest
  BY DEF AccountsInv, Later
<1>. QED  BY <1>2, <1>3, <1>4, <1>5 DEF AccountsInv

LEMMA OneRowLater ==
    ASSUME row \in [Player -> UserRow], NEW u \in Player, NEW n \in UserRow, row' = [row EXCEPT ![u] = n],
           row[u].version <= n.version, n.guest => row[u].guest /\ row[u].expires <= n.expires
    PROVE  Later(row, row') /\ row'[u] = n /\ \A v \in Player \ {u} : row'[v] = row[v]
<1>1. row' \in [Player -> UserRow] /\ row'[u] = n /\ \A v \in Player \ {u} : row'[v] = row[v]
  OBVIOUS
<1>2. \A v \in Player : row[v].version \in Nat /\ row[v].expires \in Nat
  BY DEF UserRow
<1>3. \A v \in Player \ {u} : row'[v] = row[v] /\ row[v].version <= row[v].version /\ row[v].expires <= row[v].expires
  BY <1>1, <1>2
<1>. QED  BY <1>1, <1>3 DEF Later

LEMMA RowsStay ==
    ASSUME row \in [Player -> UserRow], row' = row
    PROVE  Later(row, row')
<1>1. \A v \in Player : row[v].version \in Nat /\ row[v].expires \in Nat
  BY DEF UserRow
<1>. QED  BY <1>1 DEF Later

LEMMA ServerNow ==
    ASSUME AccountsInv
    PROVE  /\ row \in [Player -> UserRow] /\ grants \in [Player -> Nat] /\ days \in Nat /\ admitted \subseteq Player /\ online \subseteq Player
           /\ cleanup \in Player \cup {NoOne} /\ NoOne \notin Player /\ RetiringHolds
           /\ \A u \in Player : grants[u] = (IF row[u].guest THEN 0 ELSE 1)
           /\ \A u \in Player : row[u] \in UserRow /\ row[u].expires \in Nat /\ row[u].version \in Nat /\ row[u].guest \in BOOLEAN
BY AccountsAssumption DEF AccountsInv, AccountTypes, UserRow

\* authorizeAccount at the handshake: whoever is admitted is not expired, and no cleanup holds the row.
LEMMA HandshakeKeeps ==
    ASSUME AccountsInv, Handshake
    PROVE  AccountsInv'
<1>. DEFINE u == tab.token.of
            n == Authorized(row[u], FALSE)
<1>1. /\ tab.token # NoToken /\ ~row[u].retired /\ cleanup # u /\ row' = [row EXCEPT ![u] = n] /\ admitted' = admitted \cup {u}
      /\ UNCHANGED <<grants, days, online, cleanup, tab, flow, requests, asked, told, dropped, chosen>>
  BY DEF Handshake, ValidToken
<1>2. u \in Player
  BY <1>1 DEF AccountsInv, AccountTypes, PageIdentity, Tokens, Token
<1>3. /\ row \in [Player -> UserRow] /\ grants \in [Player -> Nat] /\ days \in Nat /\ admitted \subseteq Player /\ online \subseteq Player
      /\ cleanup \in Player \cup {NoOne} /\ RetiringHolds /\ row[u] \in UserRow
      /\ \A v \in Player : grants[v] = (IF row[v].guest THEN 0 ELSE 1)
  BY <1>2, ServerNow
<1>. HIDE DEF u
<1>4. /\ n \in UserRow /\ n.guest = row[u].guest /\ n.retired = row[u].retired
      /\ row[u].version <= n.version /\ row[u].expires <= n.expires /\ (row[u].guest => n.expires > days)
  <2>1. FALSE \in BOOLEAN
    OBVIOUS
  <2>. QED  BY <1>3, <2>1, AuthorizedFields
<1>. HIDE DEF n
<1>5. Later(row, row') /\ row'[u] = n /\ \A v \in Player \ {u} : row'[v] = row[v]
  BY <1>1, <1>2, <1>3, <1>4, OneRowLater
<1>6. \A v \in Player : grants'[v] = (IF row'[v].guest THEN 0 ELSE 1)
  <2>. TAKE v \in Player
  <2>1. row'[v].guest = row[v].guest
    BY <1>4, <1>5
  <2>. QED  BY <1>1, <1>3, <2>1
<1>7. RetiringHolds'
  <2>1. \A v \in Player : row'[v].retired => row'[v].guest /\ row'[v].expires < days /\ v \notin online \cup admitted'
    <3>. TAKE v \in Player
    <3>1. CASE v = u
      BY <1>1, <1>4, <1>5, <3>1
    <3>2. CASE v # u
      BY <1>1, <1>3, <1>5, <3>2 DEF RetiringHolds
    <3>. QED  BY <3>1, <3>2
  <2>2. \A v \in admitted' : row'[v].guest => row'[v].expires >= days
    <3>. TAKE v \in admitted'
    <3>1. CASE v = u
      BY <1>3, <1>4, <1>5, <3>1 DEF UserRow
    <3>2. CASE v # u
      BY <1>1, <1>3, <1>5, <3>2 DEF RetiringHolds
    <3>. QED  BY <3>1, <3>2
  <2>3. cleanup # NoOne => /\ row'[cleanup].guest /\ ~row'[cleanup].retired /\ row'[cleanup].expires < days
                           /\ cleanup \notin online \cup admitted'
    BY <1>1, <1>3, <1>5 DEF RetiringHolds
  <2>. QED  BY <1>1, <2>1, <2>2, <2>3 DEF RetiringHolds
<1>8. admitted' \subseteq Player
  BY <1>1, <1>2, <1>3
<1>. QED  BY <1>1, <1>3, <1>5, <1>6, <1>7, <1>8, ServerRemains

LEMMA RegisterKeeps ==
    ASSUME AccountsInv, NEW u \in Player, Register(u) \/ HangUp(u)
    PROVE  AccountsInv'
<1>1. /\ row \in [Player -> UserRow] /\ grants \in [Player -> Nat] /\ days \in Nat /\ admitted \subseteq Player /\ online \subseteq Player
      /\ cleanup \in Player \cup {NoOne} /\ RetiringHolds
      /\ \A v \in Player : grants[v] = (IF row[v].guest THEN 0 ELSE 1)
  BY ServerNow
<1>2. /\ admitted' \subseteq admitted /\ online' \subseteq online \cup admitted
      /\ UNCHANGED <<row, grants, days, cleanup, tab, flow, requests, asked, told, dropped, chosen>>
  BY DEF Register, HangUp
<1>3. RetiringHolds'
  BY <1>1, <1>2 DEF RetiringHolds
<1>4. Later(row, row')
  BY <1>1, <1>2, RowsStay
<1>. QED  BY <1>1, <1>2, <1>3, <1>4, ServerRemains

LEMMA NextDayKeeps ==
    ASSUME AccountsInv, NextDay
    PROVE  AccountsInv'
<1>1. /\ row \in [Player -> UserRow] /\ grants \in [Player -> Nat] /\ days \in Nat /\ admitted \subseteq Player /\ online \subseteq Player
      /\ cleanup \in Player \cup {NoOne} /\ RetiringHolds
      /\ \A v \in Player : grants[v] = (IF row[v].guest THEN 0 ELSE 1)
      /\ \A v \in Player : row[v].expires \in Nat
  BY ServerNow
<1>2. /\ admitted = {} /\ days' \in EventDay /\ days < days'
      /\ UNCHANGED <<row, grants, admitted, online, cleanup, tab, flow, requests, asked, told, dropped, chosen>>
  BY DEF NextDay
<1>3. days' \in Nat
  BY <1>2, AccountsAssumption
<1>4. \A v \in Player : row[v].expires < days => row[v].expires < days'
  BY <1>1, <1>2, <1>3
<1>5. RetiringHolds'
  BY <1>1, <1>2, <1>4 DEF RetiringHolds
<1>6. Later(row, row')
  BY <1>1, <1>2, RowsStay
<1>. QED  BY <1>1, <1>2, <1>3, <1>5, <1>6, ServerRemains

\* An admitted guest has time left, so the cleanup does not find it expired.
LEMMA LockGuestKeeps ==
    ASSUME AccountsInv, NEW u \in Player, LockGuest(u)
    PROVE  AccountsInv'
<1>1. /\ row \in [Player -> UserRow] /\ grants \in [Player -> Nat] /\ days \in Nat /\ admitted \subseteq Player /\ online \subseteq Player
      /\ RetiringHolds /\ row[u].expires \in Nat
      /\ \A v \in Player : grants[v] = (IF row[v].guest THEN 0 ELSE 1)
  BY ServerNow
<1>2. /\ row[u].guest /\ ~row[u].retired /\ row[u].expires < days /\ u \notin online /\ cleanup' = u
      /\ UNCHANGED <<row, grants, days, admitted, online, tab, flow, requests, asked, told, dropped, chosen>>
  BY DEF LockGuest
<1>3. u \notin admitted
  BY <1>1, <1>2 DEF RetiringHolds
<1>4. RetiringHolds'
  BY <1>1, <1>2, <1>3 DEF RetiringHolds
<1>5. Later(row, row')
  BY <1>1, <1>2, RowsStay
<1>. QED  BY <1>1, <1>2, <1>4, <1>5, ServerRemains

LEMMA RetireGuestKeeps ==
    ASSUME AccountsInv, RetireGuest
    PROVE  AccountsInv'
<1>. DEFINE gone == [row[cleanup] EXCEPT !.retired = TRUE]
            n == Updated(gone)
<1>1. /\ cleanup # NoOne /\ cleanup' = NoOne /\ row' = (IF cleanup \in online THEN row ELSE [row EXCEPT ![cleanup] = n])
      /\ UNCHANGED <<grants, days, admitted, online, tab, flow, requests, asked, told, dropped, chosen>>
  BY DEF RetireGuest
<1>2. /\ row \in [Player -> UserRow] /\ grants \in [Player -> Nat] /\ days \in Nat /\ admitted \subseteq Player /\ online \subseteq Player
      /\ cleanup \in Player /\ RetiringHolds /\ row[cleanup] \in UserRow
      /\ \A v \in Player : grants[v] = (IF row[v].guest THEN 0 ELSE 1)
  BY <1>1, ServerNow
<1>3. /\ row[cleanup].guest /\ row[cleanup].expires < days /\ cleanup \notin online \cup admitted
  BY <1>1, <1>2 DEF RetiringHolds
<1>4. gone \in UserRow /\ gone.guest = row[cleanup].guest /\ gone.expires = row[cleanup].expires /\ gone.version = row[cleanup].version
  BY <1>2 DEF UserRow
<1>. HIDE DEF gone
<1>5. n \in UserRow /\ n.guest = gone.guest /\ n.expires = gone.expires /\ n.version = gone.version + 1
  BY <1>4, UpdatedFields
<1>. HIDE DEF n
<1>6. row[cleanup].version <= n.version /\ row[cleanup].expires <= n.expires
  BY <1>2, <1>4, <1>5 DEF UserRow
<1>7. row' = [row EXCEPT ![cleanup] = n]
  BY <1>1, <1>3
<1>8. Later(row, row') /\ row'[cleanup] = n /\ \A v \in Player \ {cleanup} : row'[v] = row[v]
  BY <1>2, <1>4, <1>5, <1>6, <1>7, OneRowLater
<1>9. \A v \in Player : row'[v].guest = row[v].guest /\ row'[v].expires = row[v].expires
  BY <1>4, <1>5, <1>8
<1>10. \A v \in Player : grants'[v] = (IF row'[v].guest THEN 0 ELSE 1)
  BY <1>1, <1>2, <1>9
<1>11. RetiringHolds'
  BY <1>1, <1>2, <1>3, <1>8, <1>9 DEF RetiringHolds
<1>12. cleanup' \in Player \cup {NoOne}
  BY <1>1
<1>. QED  BY <1>1, <1>2, <1>8, <1>10, <1>11, <1>12, ServerRemains

LEMMA ConvertElsewhereKeeps ==
    ASSUME AccountsInv, NEW u \in Player, ConvertElsewhere(u)
    PROVE  AccountsInv'
<1>. DEFINE n == Converted(row[u])
<1>1. /\ cleanup # u /\ row[u].guest /\ ~row[u].retired
      /\ UNCHANGED <<days, admitted, online, cleanup, tab, flow, requests, asked, told, dropped, chosen>>
  BY DEF ConvertElsewhere
<1>2. row' = [row EXCEPT ![u] = n] /\ grants' = [grants EXCEPT ![u] = @ + 1]
  BY <1>1 DEF ConvertElsewhere, Upgrade, Converted
<1>3. /\ row \in [Player -> UserRow] /\ grants \in [Player -> Nat] /\ days \in Nat /\ admitted \subseteq Player /\ online \subseteq Player
      /\ cleanup \in Player \cup {NoOne} /\ RetiringHolds /\ row[u] \in UserRow
      /\ \A v \in Player : grants[v] = (IF row[v].guest THEN 0 ELSE 1)
  BY ServerNow
<1>4. n \in UserRow /\ n.guest = FALSE /\ n.retired = row[u].retired /\ RowGrows(row[u], n)
  BY <1>3, ConvertedFields
<1>. HIDE DEF n
<1>5. row[u].version <= n.version
  BY <1>4 DEF RowGrows
<1>6. Later(row, row') /\ row'[u] = n /\ \A v \in Player \ {u} : row'[v] = row[v]
  BY <1>2, <1>3, <1>4, <1>5, OneRowLater
<1>7. grants[u] = 0 /\ grants' \in [Player -> Nat] /\ grants'[u] = 1 /\ \A v \in Player \ {u} : grants'[v] = grants[v]
  <2>1. grants[u] = 0
    BY <1>1, <1>3
  <2>. QED  BY <1>2, <1>3, <2>1
<1>8. \A v \in Player : grants'[v] = (IF row'[v].guest THEN 0 ELSE 1)
  BY <1>3, <1>4, <1>6, <1>7
<1>9. RetiringHolds'
  BY <1>1, <1>3, <1>4, <1>6 DEF RetiringHolds
<1>. QED  BY <1>1, <1>3, <1>6, <1>7, <1>8, <1>9, ServerRemains

\* A request that has been answered.
Answered(c, a) == [c EXCEPT !.served = TRUE, !.answer = a]

LEMMA AnsweredFields ==
    ASSUME NEW c \in Requests, NEW a \in Reply
    PROVE  /\ Answered(c, a) \in Requests /\ Answered(c, a).number = c.number /\ Answered(c, a).kind = c.kind
           /\ Answered(c, a).token = c.token /\ Answered(c, a).served = TRUE /\ Answered(c, a).answer = a
<1>. DEFINE c1 == [c EXCEPT !.served = TRUE]
<1>1. Answered(c, a) = [c1 EXCEPT !.answer = a]
  BY DEF Answered
<1>2. c1 \in Requests /\ c1.number = c.number /\ c1.kind = c.kind /\ c1.token = c.token /\ c1.served = TRUE
  BY DEF Requests
<1>. HIDE DEF c1
<1>. QED  BY <1>1, <1>2 DEF Requests

\* The last choice of an account, when c takes effect.
Chosen(ch, u, k) == [ch EXCEPT ![u] = [applied |-> k, overruling |-> @.overruling \/ k < @.applied]]

LEMMA ChosenFields ==
    ASSUME NEW ch \in [Player -> Choice], NEW u \in Player, NEW k \in Nat, ~ch[u].overruling, ~(k < ch[u].applied)
    PROVE  /\ Chosen(ch, u, k) \in [Player -> Choice] /\ Chosen(ch, u, k)[u].applied = k /\ ~Chosen(ch, u, k)[u].overruling
           /\ \A v \in Player \ {u} : Chosen(ch, u, k)[v] = ch[v]
<1>. DEFINE over == ch[u].overruling \/ k < ch[u].applied
            new == [applied |-> k, overruling |-> over]
<1>1. over = FALSE
  BY DEF Choice
<1>2. new \in Choice /\ new.applied = k /\ new.overruling = FALSE
  BY <1>1 DEF Choice
<1>3. Chosen(ch, u, k) = [ch EXCEPT ![u] = new]
  BY DEF Chosen
<1>. HIDE DEF over, new
<1>. QED  BY <1>2, <1>3

\* The choice of privacy that takes effect is not older than the last one that did.
LEMMA ServedChoices ==
    ASSUME AccountsInv, NEW c \in requests, ~c.served, NEW o, OutcomeHolds(o, c, row[c.token.of]),
           c.kind = "privacy", o.answer.status = 200, NEW ch, ch = Chosen(chosen, c.token.of, c.number)
    PROVE  /\ ch \in [Player -> Choice] /\ ch[c.token.of].applied = c.number
           /\ \A v \in Player : ~ch[v].overruling /\ ch[v].applied <= asked
           /\ \A v \in Player \ {c.token.of} : ch[v] = chosen[v]
<1>. DEFINE u == c.token.of
<1>1. /\ c \in Requests /\ u \in Player /\ chosen \in [Player -> Choice] /\ c.number \in Nat /\ c.expected \in Nat /\ row \in [Player -> UserRow]
      /\ RequestHolds(c, row, chosen, asked)
      /\ \A v \in Player : ~chosen[v].overruling /\ chosen[v].applied <= asked
  BY DEF AccountsInv, AccountTypes, Requests, Token
<1>2. row[u].version \in Nat /\ row[u].version <= c.expected
  BY <1>1 DEF OutcomeHolds, UserRow
<1>3. c.number <= asked /\ (c.number < chosen[u].applied => c.expected < row[u].version)
  BY <1>1 DEF RequestHolds
<1>4. ~chosen[u].overruling /\ ~(c.number < chosen[u].applied)
  BY <1>1, <1>2, <1>3
<1>5. ch = Chosen(chosen, u, c.number)
  OBVIOUS
<1>. HIDE DEF u
<1>6. ch \in [Player -> Choice] /\ ch[u].applied = c.number /\ ~ch[u].overruling /\ \A v \in Player \ {u} : ch[v] = chosen[v]
  BY <1>1, <1>4, <1>5, ChosenFields
<1>7. \A v \in Player : ~ch[v].overruling /\ ch[v].applied <= asked
  BY <1>1, <1>3, <1>6
<1>. QED  BY <1>6, <1>7 DEF u

LEMMA ServeRequestKeeps ==
    ASSUME AccountsInv, ServeRequest
    PROVE  AccountsInv'
<1>1. PICK c \in requests : ~c.served /\ cleanup # c.token.of /\
          \E o \in Outcomes(c) :
                  /\ row' = [row EXCEPT ![c.token.of] = o.row] /\ grants' = [grants EXCEPT ![c.token.of] = @ + o.grant]
                  /\ requests' = (requests \ {c}) \cup {[c EXCEPT !.served = TRUE, !.answer = o.answer]}
                  /\ chosen' = IF c.kind # "privacy" \/ o.answer.status # 200 THEN chosen
                              ELSE [chosen EXCEPT ![c.token.of] = [applied |-> c.number, overruling |-> @.overruling \/ c.number < @.applied]]
  BY DEF ServeRequest
<1>2. PICK o \in Outcomes(c) :
                  /\ row' = [row EXCEPT ![c.token.of] = o.row] /\ grants' = [grants EXCEPT ![c.token.of] = @ + o.grant]
                  /\ requests' = (requests \ {c}) \cup {[c EXCEPT !.served = TRUE, !.answer = o.answer]}
                  /\ chosen' = IF c.kind # "privacy" \/ o.answer.status # 200 THEN chosen
                              ELSE [chosen EXCEPT ![c.token.of] = [applied |-> c.number, overruling |-> @.overruling \/ c.number < @.applied]]
  BY <1>1
<1>3. UNCHANGED <<days, admitted, online, cleanup, tab, flow, asked, told, dropped>>
  BY DEF ServeRequest
<1>4. /\ AccountTypes /\ c \in Requests /\ requests \subseteq Requests /\ c.token.of \in Player /\ c.kind \in {"me", "upgrade", "privacy", "login"}
      /\ chosen \in [Player -> Choice] /\ asked \in Nat /\ tab \in PageIdentity /\ IdentityHolds(tab, row)
  BY DEF AccountsInv, AccountTypes, Requests, Token
<1>5. OutcomeHolds(o, c, row[c.token.of])
  BY <1>4, OutcomesHold
<1>. DEFINE u == c.token.of
            n == o.row
            a == o.answer
            c2 == Answered(c, a)
<1>6. /\ row \in [Player -> UserRow] /\ grants \in [Player -> Nat] /\ days \in Nat /\ admitted \subseteq Player /\ online \subseteq Player
      /\ cleanup \in Player \cup {NoOne} /\ RetiringHolds /\ row[u] \in UserRow /\ row[u].guest \in BOOLEAN
      /\ \A v \in Player : grants[v] = (IF row[v].guest THEN 0 ELSE 1)
  BY <1>4, ServerNow
<1>7. /\ n \in UserRow /\ row[u].version <= n.version /\ n.retired = row[u].retired /\ (row[u].retired => n = row[u])
      /\ n.guest => row[u].guest /\ row[u].expires <= n.expires
      /\ o.grant = (IF row[u].guest /\ ~n.guest THEN 1 ELSE 0)
      /\ a \in Reply /\ AnswerOf(a, u, n) /\ (c.kind = "login" /\ a.status = 200 => a.token # NoToken)
      /\ c.kind = "privacy" /\ a.status = 200 => row[u].version <= c.expected /\ row[u].version < n.version
  BY <1>5 DEF OutcomeHolds, RowGrows
<1>8. /\ row' = [row EXCEPT ![u] = n] /\ grants' = [grants EXCEPT ![u] = @ + o.grant]
      /\ requests' = (requests \ {c}) \cup {c2}
  BY <1>2 DEF Answered
<1>9. /\ c2 \in Requests /\ c2.number = c.number /\ c2.kind = c.kind /\ c2.token = c.token /\ c2.served = TRUE /\ c2.answer = a
  BY <1>4, <1>7, AnsweredFields
<1>10. /\ chosen' \in [Player -> Choice] /\ \A v \in Player : ~chosen'[v].overruling /\ chosen'[v].applied <= asked
       /\ \A v \in Player : chosen'[v] = chosen[v] \/ (v = u /\ chosen'[v].applied = c.number /\ c.kind = "privacy" /\ a.status = 200)
  <2>1. CASE c.kind # "privacy" \/ a.status # 200
    BY <1>2, <1>4, <2>1 DEF AccountsInv
  <2>2. CASE c.kind = "privacy" /\ a.status = 200
    <3>1. chosen' = Chosen(chosen, c.token.of, c.number)
      BY <1>2, <2>2 DEF Chosen
    <3>2. /\ chosen' \in [Player -> Choice] /\ chosen'[c.token.of].applied = c.number
          /\ \A v \in Player : ~chosen'[v].overruling /\ chosen'[v].applied <= asked
          /\ \A v \in Player \ {c.token.of} : chosen'[v] = chosen[v]
      <4>. DEFINE ch == Chosen(chosen, c.token.of, c.number)
      <4>1. ch = Chosen(chosen, c.token.of, c.number) /\ ~c.served /\ c.kind = "privacy" /\ o.answer.status = 200
        BY <1>1, <2>2
      <4>. HIDE DEF ch
      <4>2. /\ ch \in [Player -> Choice] /\ ch[c.token.of].applied = c.number
            /\ \A v \in Player : ~ch[v].overruling /\ ch[v].applied <= asked
            /\ \A v \in Player \ {c.token.of} : ch[v] = chosen[v]
        BY <1>5, <4>1, ServedChoices
      <4>3. chosen' = ch
        BY <3>1, <4>1
      <4>. QED  BY <4>2, <4>3
    <3>. QED  BY <2>2, <3>2
  <2>. QED  BY <2>1, <2>2
<1>11. u \in Player /\ cleanup # u
  BY <1>1, <1>4
<1>. HIDE DEF n, a, c2
<1>12. RequestHolds(c, row, chosen, asked)
  BY DEF AccountsInv
<1>. DEFINE paid == o.grant
<1>13. paid \in Nat /\ grants' = [grants EXCEPT ![u] = @ + paid] /\ paid = (IF row[u].guest /\ ~n.guest THEN 1 ELSE 0)
  BY <1>7, <1>8
<1>. HIDE DEF paid
<1>14. Later(row, row') /\ row'[u] = n /\ \A v \in Player \ {u} : row'[v] = row[v]
  BY <1>6, <1>7, <1>8, <1>11, OneRowLater
<1>15. grants' \in [Player -> Nat] /\ \A v \in Player : grants'[v] = (IF row'[v].guest THEN 0 ELSE 1)
  <2>1. grants' \in [Player -> Nat] /\ grants'[u] = grants[u] + paid /\ \A v \in Player \ {u} : grants'[v] = grants[v]
    BY <1>6, <1>11, <1>13
  <2>2. grants'[u] = (IF n.guest THEN 0 ELSE 1)
    BY <1>6, <1>7, <1>11, <1>13, <2>1
  <2>. QED  BY <1>6, <1>14, <2>1, <2>2
<1>16. RetiringHolds'
  <2>1. \A v \in Player : row'[v].retired => row'[v].guest /\ row'[v].expires < days /\ v \notin online \cup admitted
    BY <1>6, <1>7, <1>14 DEF RetiringHolds
  <2>2. \A v \in admitted : row'[v].guest => row'[v].expires >= days
    <3>. TAKE v \in admitted
    <3>1. v \in Player /\ row[v].expires \in Nat /\ row'[v].expires \in Nat
      BY <1>6, <1>14 DEF Later, UserRow
    <3>2. row'[v].guest => row[v].guest /\ row[v].expires <= row'[v].expires
      BY <1>14, <3>1 DEF Later
    <3>. QED  BY <1>6, <3>1, <3>2 DEF RetiringHolds
  <2>3. cleanup # NoOne => row'[cleanup] = row[cleanup]
    BY <1>6, <1>11, <1>14
  <2>. QED  BY <1>3, <1>6, <2>1, <2>2, <2>3 DEF RetiringHolds
<1>17. IdentityHolds(tab, row')
  BY <1>4, <1>6, <1>14, IdentityStill
<1>18. told.is = "saved" => told.of \in Player /\ ~row'[told.of].guest
  BY <1>14 DEF AccountsInv, Later
<1>19. \A d \in requests' : d \in Requests /\ RequestHolds(d, row', chosen', asked)
  <2>. TAKE d \in requests'
  <2>1. CASE d = c2
    <3>1. AnswerHolds(a, u, row')
      BY <1>7, <1>14 DEF AnswerOf, AnswerHolds, Backed
    <3>. QED  BY <1>7, <1>9, <1>12, <2>1, <3>1 DEF RequestHolds
  <2>2. CASE d # c2
    <3>1. d \in requests /\ d \in Requests /\ RequestHolds(d, row, chosen, asked)
      BY <1>4, <1>8, <2>2 DEF AccountsInv
    <3>2. RequestHolds(d, row', chosen, asked)
      BY <1>4, <1>6, <1>14, <3>1, RequestStill
    <3>3. d.token.of \in Player /\ d.expected \in Nat /\ row[d.token.of].version \in Nat /\ row'[d.token.of].version \in Nat
      BY <1>6, <1>14, <3>1 DEF Requests, Token, Later, UserRow
    <3>4. CASE chosen'[d.token.of] = chosen[d.token.of]
      BY <3>1, <3>2, <3>4 DEF RequestHolds
    <3>5. CASE chosen'[d.token.of] # chosen[d.token.of]
      <4>1. d.token.of = u /\ row[u].version < n.version
        BY <1>7, <1>10, <3>3, <3>5
      <4>2. d.kind = "privacy" /\ ~d.served => d.expected <= row[u].version
        BY <3>1, <4>1 DEF RequestHolds
      <4>3. d.kind = "privacy" /\ ~d.served => d.expected < row'[d.token.of].version
        BY <1>14, <3>3, <4>1, <4>2
      <4>. QED  BY <3>1, <3>2, <4>3 DEF RequestHolds
    <3>. QED  BY <3>4, <3>5
  <2>. QED  BY <2>1, <2>2
<1>20. \A f \in Flow : FlowHolds(f, flow[f], requests', tab, asked)
  <2>. TAKE f \in Flow
  <2>1. FlowHolds(f, flow[f], requests, tab, asked)
    BY DEF AccountsInv
  <2>2. \A d \in requests' : \E e \in requests : d.number = e.number /\ d.kind = e.kind /\ d.token = e.token
    BY <1>1, <1>8, <1>9
  <2>. QED  BY <2>1, <2>2 DEF FlowHolds
<1>21. AccountTypes'
  BY <1>3, <1>4, <1>10, <1>14, <1>15, <1>19 DEF AccountTypes, Later
<1>. QED  BY <1>3, <1>10, <1>15, <1>16, <1>17, <1>18, <1>19, <1>20, <1>21 DEF AccountsInv

------------------------------------------------------------------------------
(* Accounts: the page *)

\* The page keeps its account, or has begun a generation.
SameAccount(old, new) ==
    new.generation = old.generation /\ (new.token = NoToken <=> old.token = NoToken) /\ new.token.of = old.token.of
Succeeds(old, new) == SameAccount(old, new) \/ old.generation < new.generation

LEMMA PageNow ==
    ASSUME AccountsInv
    PROVE  /\ AccountTypes /\ row \in [Player -> UserRow] /\ tab \in PageIdentity /\ flow \in [Flow -> FlowState] /\ requests \subseteq Requests
           /\ asked \in Nat /\ chosen \in [Player -> Choice] /\ IdentityHolds(tab, row) /\ NoOne \notin Player
           /\ tab.token \in Tokens /\ tab.user \in Profiles /\ tab.generation \in Nat
           /\ \A c \in requests : c \in Requests /\ RequestHolds(c, row, chosen, asked)
           /\ \A f \in Flow : flow[f] \in FlowState /\ FlowHolds(f, flow[f], requests, tab, asked)
BY AccountsAssumption DEF AccountsInv, AccountTypes, PageIdentity

LEMMA FlowStill ==
    ASSUME NEW f \in Flow, NEW w \in FlowState, NEW old \in PageIdentity, NEW new \in PageIdentity, NEW n \in Nat, NEW m \in Nat,
           NEW sent, NEW pending \in SUBSET Requests, FlowHolds(f, w, sent, old, n), n <= m,
           \A c \in pending : c \in sent \/ c.number > n, Succeeds(old, new)
    PROVE  FlowHolds(f, w, pending, new, m)
<1>1. /\ w.call \in Nat /\ w.scope.generation \in Nat /\ old.generation \in Nat /\ new.generation \in Nat /\ w.call <= n
      /\ ScopeHolds(w.scope, old)
  BY DEF FlowState, PageScope, PageIdentity, FlowHolds
<1>2. ScopeHolds(w.scope, new)
  BY <1>1 DEF ScopeHolds, Succeeds, SameAccount
<1>3. \A c \in pending : c.number = w.call => c \in sent
  <2>1. \A c \in pending : c.number \in Nat
    BY DEF Requests
  <2>. QED  BY <1>1, <2>1
<1>. QED  BY <1>1, <1>2, <1>3 DEF FlowHolds

LEMMA FlowIdle ==
    ASSUME NEW f \in Flow, NEW pending, NEW t \in PageIdentity, NEW n \in Nat
    PROVE  Idling \in FlowState /\ FlowHolds(f, Idling, pending, t, n)
BY DEF Idling, FlowState, Stage, PageScope, Tokens, PageIdentity, FlowHolds, ScopeHolds

LEMMA RequestFields ==
    ASSUME AccountsInv, NEW kind \in {"me", "upgrade", "privacy", "login"}, NEW token \in Token,
           kind = "privacy" => tab.user # NoProfile /\ token = tab.token, NEW c, c = Request(kind, token)
    PROVE  /\ c \in Requests /\ c.number = asked + 1 /\ c.kind = kind /\ c.token = token
           /\ RequestHolds(c, row, chosen, asked + 1)
<1>1. /\ asked \in Nat /\ tab.user \in Profiles /\ IdentityHolds(tab, row) /\ chosen \in [Player -> Choice]
  BY PageNow
<1>2. tab.user.version \in Nat /\ Unconfirmed \in Reply /\ Unconfirmed.status = 0
  BY <1>1 DEF Profiles, UserProfile, NoProfile, Unconfirmed, Reply, Tokens
<1>3. /\ c \in Requests /\ c.number = asked + 1 /\ c.kind = kind /\ c.token = token /\ c.answer = Unconfirmed
      /\ c.expected = tab.user.version
  BY <1>1, <1>2 DEF Request, Requests
<1>4. token.of \in Player
  BY DEF Token
<1>5. kind = "privacy" => c.expected <= row[token.of].version
  BY <1>1, <1>3 DEF IdentityHolds
<1>6. chosen[token.of].applied <= asked /\ chosen[token.of].applied \in Nat
  BY <1>1, <1>4 DEF AccountsInv, Choice
<1>7. ~(c.number < chosen[token.of].applied) /\ c.number <= asked + 1
  BY <1>1, <1>3, <1>6
<1>8. AnswerHolds(c.answer, token.of, row) /\ c.answer.status # 200
  BY <1>2, <1>3 DEF AnswerHolds
<1>. QED  BY <1>3, <1>5, <1>7, <1>8 DEF RequestHolds

\* What remains to be shown of a step of the page.
LEMMA PageRemains ==
    ASSUME AccountsInv, UNCHANGED databaseVars, chosen' = chosen, tab' \in PageIdentity, IdentityHolds(tab', row),
           told'.is = "saved" => told'.of \in Player /\ ~row[told'.of].guest, dropped'.cleared = dropped'.rejected,
           asked' \in Nat, asked <= asked', requests' \subseteq Requests,
           \A c \in requests' : c \in requests \/ RequestHolds(c, row, chosen, asked'),
           flow' \in [Flow -> FlowState], \A f \in Flow : FlowHolds(f, flow'[f], requests', tab', asked')
    PROVE  AccountsInv'
<1>1. UNCHANGED <<row, grants, days, admitted, online, cleanup, chosen>>
  BY DEF databaseVars
<1>2. AccountTypes'
  BY <1>1 DEF AccountsInv, AccountTypes
<1>3. RetiringHolds' /\ \A u \in Player : grants'[u] = (IF row'[u].guest THEN 0 ELSE 1)
  BY <1>1 DEF AccountsInv, RetiringHolds
<1>4. \A u \in Player : ~chosen'[u].overruling /\ chosen'[u].applied <= asked'
  <2>. TAKE u \in Player
  <2>1. ~chosen[u].overruling /\ chosen[u].applied <= asked /\ chosen[u].applied \in Nat /\ asked \in Nat
    BY DEF AccountsInv, AccountTypes, Choice
  <2>. QED  BY <2>1
<1>5. \A c \in requests' : RequestHolds(c, row', chosen', asked')
  <2>. TAKE c \in requests'
  <2>1. CASE c \in requests
    <3>1. RequestHolds(c, row, chosen, asked) /\ c.number \in Nat /\ asked \in Nat
      BY <2>1 DEF AccountsInv, AccountTypes, Requests
    <3>. QED  BY <1>1, <3>1 DEF RequestHolds
  <2>2. CASE c \notin requests
    BY <1>1, <2>2
  <2>. QED  BY <2>1, <2>2
<1>. QED  BY <1>1, <1>2, <1>3, <1>4, <1>5 DEF AccountsInv

\* A flow ends.
LEMMA EndsKeeps ==
    ASSUME AccountsInv, NEW f \in Flow, UNCHANGED databaseVars, chosen' = chosen, Off(f), requests' \subseteq requests,
           tab' \in PageIdentity, IdentityHolds(tab', row), Succeeds(tab, tab'),
           told'.is = "saved" => told'.of \in Player /\ ~row[told'.of].guest, dropped'.cleared = dropped'.rejected
    PROVE  AccountsInv'
<1>1. /\ tab \in PageIdentity /\ flow \in [Flow -> FlowState] /\ requests \subseteq Requests /\ asked \in Nat
      /\ \A g \in Flow : flow[g] \in FlowState /\ FlowHolds(g, flow[g], requests, tab, asked)
  BY PageNow
<1>2. flow' = [flow EXCEPT ![f] = Idling] /\ asked' = asked
  BY DEF Off
<1>3. Idling \in FlowState /\ FlowHolds(f, Idling, requests', tab', asked)
  BY <1>1, FlowIdle
<1>4. flow' \in [Flow -> FlowState] /\ flow'[f] = Idling /\ \A g \in Flow \ {f} : flow'[g] = flow[g]
  BY <1>1, <1>2, <1>3
<1>5. \A g \in Flow \ {f} : FlowHolds(g, flow[g], requests', tab', asked)
  <2>. TAKE g \in Flow \ {f}
  <2>1. g \in Flow /\ flow[g] \in FlowState /\ FlowHolds(g, flow[g], requests, tab, asked) /\ asked <= asked
    BY <1>1
  <2>2. requests' \in SUBSET Requests /\ \A c \in requests' : c \in requests \/ c.number > asked
    BY <1>1
  <2>. QED  BY <1>1, <2>1, <2>2, FlowStill
<1>6. \A g \in Flow : FlowHolds(g, flow'[g], requests', tab', asked')
  BY <1>2, <1>3, <1>4, <1>5
<1>. QED  BY <1>1, <1>2, <1>4, <1>6, PageRemains

\* A flow sends a request, with the token the page has when it is sent.
Sends(f, stage, kind, scope, refused, token) ==
    /\ stage \in Sending /\ kind \in {"me", "upgrade", "privacy", "login"} /\ scope \in PageScope /\ refused \in BOOLEAN /\ token \in Token
    /\ Dispatch(f, stage, kind, scope, refused) /\ requests' \subseteq requests \cup {Request(kind, token)}
    /\ UNCHANGED <<databaseVars, told, dropped, chosen>>
    /\ kind = "privacy" => tab.user # NoProfile /\ token = tab.token
    /\ tab' \in PageIdentity /\ IdentityHolds(tab', row) /\ Succeeds(tab, tab') /\ scope.generation = tab'.generation /\ scope.token = tab'.token
    /\ f = "auth" => kind = "login"
    /\ f # "auth" => token = scope.token
    /\ f = "upgrade" => scope.token # NoToken /\ scope.id = scope.token.of

LEMMA SendsKeeps ==
    ASSUME AccountsInv, NEW f \in Flow, NEW stage, NEW kind, NEW scope, NEW refused, NEW token, Sends(f, stage, kind, scope, refused, token)
    PROVE  AccountsInv'
<1>. DEFINE c == Request(kind, token)
<1>0. /\ stage \in Sending /\ kind \in {"me", "upgrade", "privacy", "login"} /\ scope \in PageScope /\ refused \in BOOLEAN /\ token \in Token
      /\ Dispatch(f, stage, kind, scope, refused) /\ requests' \subseteq requests \cup {c} /\ c = Request(kind, token)
      /\ UNCHANGED databaseVars /\ UNCHANGED <<told, dropped>> /\ chosen' = chosen
      /\ kind = "privacy" => tab.user # NoProfile /\ token = tab.token
      /\ tab' \in PageIdentity /\ IdentityHolds(tab', row) /\ Succeeds(tab, tab') /\ scope.generation = tab'.generation /\ scope.token = tab'.token
      /\ f = "auth" => kind = "login"
      /\ f # "auth" => token = scope.token
      /\ f = "upgrade" => scope.token # NoToken /\ scope.id = scope.token.of
  BY DEF Sends
<1>. HIDE DEF c
<1>1. /\ tab \in PageIdentity /\ flow \in [Flow -> FlowState] /\ requests \subseteq Requests /\ asked \in Nat
      /\ \A g \in Flow : flow[g] \in FlowState /\ FlowHolds(g, flow[g], requests, tab, asked)
      /\ \A d \in requests : d \in Requests /\ RequestHolds(d, row, chosen, asked)
  BY PageNow
<1>. DEFINE w == [stage |-> stage, call |-> asked + 1, scope |-> scope, refused |-> refused]
<1>2. asked' = asked + 1 /\ flow' = [flow EXCEPT ![f] = w]
  BY <1>0 DEF Dispatch
<1>3. w \in FlowState /\ w.call = asked + 1 /\ w.scope = scope /\ w.stage # "needsRefresh"
  BY <1>0, <1>1 DEF FlowState, Sending
<1>. HIDE DEF w
<1>4. /\ c \in Requests /\ c.number = asked + 1 /\ c.kind = kind /\ c.token = token
      /\ RequestHolds(c, row, chosen, asked + 1)
  BY <1>0, RequestFields
<1>5. \A d \in requests : d.number \in Nat /\ d.number <= asked
  BY <1>1 DEF RequestHolds, Requests
<1>6. FlowHolds(f, w, requests', tab', asked')
  <2>1. \A d \in requests' : d.number = w.call => d = c
    BY <1>0, <1>1, <1>3, <1>5
  <2>2. ScopeHolds(scope, tab')
    BY <1>0 DEF ScopeHolds, PageScope, PageIdentity
  <2>3. w.call <= asked'
    BY <1>1, <1>2, <1>3
  <2>. QED  BY <1>0, <1>3, <1>4, <2>1, <2>2, <2>3 DEF FlowHolds
<1>7. flow' \in [Flow -> FlowState] /\ flow'[f] = w /\ \A g \in Flow \ {f} : flow'[g] = flow[g]
  BY <1>1, <1>2, <1>3
<1>8. requests' \in SUBSET Requests /\ asked' \in Nat /\ asked <= asked'
  BY <1>0, <1>1, <1>2, <1>4
<1>9. \A g \in Flow \ {f} : FlowHolds(g, flow[g], requests', tab', asked')
  <2>. TAKE g \in Flow \ {f}
  <2>1. g \in Flow /\ flow[g] \in FlowState /\ FlowHolds(g, flow[g], requests, tab, asked)
    BY <1>1
  <2>2. \A d \in requests' : d \in requests \/ d.number > asked
    BY <1>0, <1>1, <1>4
  <2>. QED  BY <1>0, <1>1, <1>8, <2>1, <2>2, FlowStill
<1>10. \A g \in Flow : FlowHolds(g, flow'[g], requests', tab', asked')
  BY <1>6, <1>7, <1>9
<1>11. \A d \in requests' : d \in requests \/ RequestHolds(d, row, chosen, asked')
  BY <1>0, <1>2, <1>4
<1>12. (told'.is = "saved" => told'.of \in Player /\ ~row[told'.of].guest) /\ dropped'.cleared = dropped'.rejected
  BY <1>0 DEF AccountsInv
<1>. QED  BY <1>0, <1>7, <1>8, <1>10, <1>11, <1>12, PageRemains

Awaiting(f) == flow[f].stage \notin {"off", "needsRefresh"}

\* What a flow learns with status 200 is an answer to the request it sent.
LEMMA LearnedAnswer ==
    ASSUME AccountsInv, NEW f \in Flow \ {"auth"}, Awaiting(f), NEW a \in Learned(f), a.status = 200
    PROVE  a \in Reply /\ flow[f].scope.token \in Token /\ AnswerHolds(a, flow[f].scope.token.of, row)
<1>1. /\ FlowHolds(f, flow[f], requests, tab, asked)
      /\ \A c \in requests : c \in Requests /\ RequestHolds(c, row, chosen, asked)
  BY PageNow
<1>2. a # Unconfirmed
  BY DEF Unconfirmed
<1>3. PICK c \in requests : c.number = flow[f].call /\ a = c.answer
  BY <1>2 DEF Learned
<1>4. c.token = flow[f].scope.token
  BY <1>1, <1>3 DEF FlowHolds, Awaiting
<1>. QED  BY <1>1, <1>3, <1>4 DEF RequestHolds, Requests

LEMMA LearnedLogin ==
    ASSUME AccountsInv, flow["auth"].stage = "submit", NEW a \in Learned("auth"), a.status = 200
    PROVE  a \in Reply /\ a.token # NoToken /\ \E u \in Player : AnswerHolds(a, u, row)
<1>1. /\ "auth" \in Flow /\ FlowHolds("auth", flow["auth"], requests, tab, asked)
      /\ \A c \in requests : c \in Requests /\ RequestHolds(c, row, chosen, asked)
  BY PageNow DEF Flow
<1>2. a # Unconfirmed
  BY DEF Unconfirmed
<1>3. PICK c \in requests : c.number = flow["auth"].call /\ a = c.answer
  BY <1>2 DEF Learned
<1>4. c.kind = "login"
  BY <1>1, <1>3 DEF FlowHolds
<1>. QED  BY <1>1, <1>3, <1>4 DEF RequestHolds, Requests, Token

\* The page with another profile and another token.
Renewing(t, p, k) == [t EXCEPT !.user = p, !.token = k]

LEMMA TabFields ==
    ASSUME NEW t \in PageIdentity, NEW p \in Profiles, NEW k \in Tokens
    PROVE  /\ Renewing(t, p, k) \in PageIdentity /\ Renewing(t, p, k).user = p /\ Renewing(t, p, k).token = k
           /\ Renewing(t, p, k).generation = t.generation
<1>. DEFINE t1 == [t EXCEPT !.user = p]
<1>1. Renewing(t, p, k) = [t1 EXCEPT !.token = k]
  BY DEF Renewing
<1>2. t1 \in PageIdentity /\ t1.user = p /\ t1.generation = t.generation
  BY DEF PageIdentity
<1>. HIDE DEF t1
<1>. QED  BY <1>1, <1>2 DEF PageIdentity

\* accept: whatever is learned late, the page stays one account's, at a revision that has been.
LEMMA AcceptHolds ==
    ASSUME AccountsInv, NEW f \in Flow \ {"auth"}, Awaiting(f), NEW a \in Learned(f), a.status = 200,
           NEW t, t = Accept(a, flow[f].scope)
    PROVE  t \in PageIdentity /\ IdentityHolds(t, row) /\ SameAccount(tab, t) /\ (t.user = NoProfile => tab.user = NoProfile)
<1>. DEFINE s == flow[f].scope
            u == s.token.of
            refuses == \/ ~IsCurrent(s) \/ s.token = NoToken \/ tab.token = NoToken
                       \/ tab.user.id \notin {NoOne, a.user.id} \/ (tab.user.id # NoOne /\ a.user.version < tab.user.version)
            p == IF tab.user.id = NoOne \/ a.user.version > tab.user.version THEN a.user ELSE tab.user
            k == IF a.token # NoToken /\ s.token = tab.token THEN a.token ELSE tab.token
<1>1. a \in Reply /\ s.token \in Token /\ AnswerHolds(a, u, row)
  BY LearnedAnswer
<1>2. /\ tab \in PageIdentity /\ IdentityHolds(tab, row) /\ tab.token \in Tokens /\ tab.user \in Profiles
      /\ FlowHolds(f, flow[f], requests, tab, asked)
  BY PageNow
<1>3. t = IF refuses THEN tab ELSE [tab EXCEPT !.user = p, !.token = k]
  BY DEF Accept
<1>4. /\ a.user # NoProfile /\ a.user.id = u /\ a.user.version <= row[u].version
      /\ a.token # NoToken => a.token.of = u /\ Backed(a.token, row)
      /\ a.user \in Profiles /\ a.token \in Tokens
  BY <1>1 DEF AnswerHolds, Reply
<1>5. ASSUME ~refuses PROVE tab.token.of = u /\ tab.token # NoToken
  BY <1>1, <1>2, <1>5 DEF FlowHolds, ScopeHolds, IsCurrent
<1>. HIDE DEF refuses
<1>6. CASE refuses
  BY <1>2, <1>3, <1>6 DEF SameAccount
<1>7. CASE ~refuses
  <2>1. tab.token.of = u /\ tab.token # NoToken
    BY <1>5, <1>7
  <2>2. p \in Profiles /\ (p = a.user \/ p = tab.user) /\ (p = NoProfile => tab.user = NoProfile)
    BY <1>2, <1>4
  <2>3. k \in Tokens /\ (k = tab.token \/ (k = a.token /\ a.token # NoToken))
    BY <1>2, <1>4
  <2>. HIDE DEF p, k, u
  <2>4. p # NoProfile => p.id = u /\ p.version <= row[u].version
    BY <1>2, <1>4, <2>1, <2>2 DEF IdentityHolds
  <2>5. k # NoToken /\ k.of = u /\ Backed(k, row)
    BY <1>2, <1>4, <2>1, <2>3 DEF IdentityHolds
  <2>6. t \in PageIdentity /\ t.user = p /\ t.token = k /\ t.generation = tab.generation
    <3>1. t = Renewing(tab, p, k)
      BY <1>3, <1>7 DEF Renewing
    <3>2. /\ Renewing(tab, p, k) \in PageIdentity /\ Renewing(tab, p, k).user = p /\ Renewing(tab, p, k).token = k
          /\ Renewing(tab, p, k).generation = tab.generation
      BY <1>2, <2>2, <2>3, TabFields
    <3>. QED  BY <3>1, <3>2
  <2>. QED  BY <2>1, <2>2, <2>4, <2>5, <2>6 DEF IdentityHolds, SameAccount
<1>. QED  BY <1>6, <1>7

LEMMA TabStays ==
    ASSUME AccountsInv
    PROVE  /\ tab \in PageIdentity /\ IdentityHolds(tab, row) /\ SameAccount(tab, tab) /\ Succeeds(tab, tab)
           /\ told.is = "saved" => told.of \in Player /\ ~row[told.of].guest
           /\ dropped.cleared = dropped.rejected
BY PageNow DEF SameAccount, Succeeds, AccountsInv

\* The page of nobody.
LEMMA NobodysPage ==
    ASSUME AccountsInv, NEW t, t = [token |-> NoToken, user |-> NoProfile, generation |-> tab.generation + 1]
    PROVE  t \in PageIdentity /\ IdentityHolds(t, row) /\ Succeeds(tab, t)
<1>1. tab.generation \in Nat
  BY PageNow
<1>. QED  BY <1>1 DEF PageIdentity, Tokens, Profiles, IdentityHolds, Backed, Succeeds

LEMMA CaptureFields ==
    ASSUME AccountsInv
    PROVE  /\ Capture \in PageScope /\ Capture.generation = tab.generation /\ Capture.token = tab.token /\ Capture.id = tab.user.id
           /\ tab.user # NoProfile => tab.token \in Token /\ tab.token # NoToken /\ tab.user.id = tab.token.of
           /\ tab.token # NoToken => tab.token \in Token
<1>1. tab.token \in Tokens /\ tab.user \in Profiles /\ tab.generation \in Nat /\ IdentityHolds(tab, row) /\ NoOne \notin Player
  BY PageNow
<1>2. tab.user.id \in Player \cup {NoOne} /\ (tab.user # NoProfile => tab.user.id \in Player)
  <2>1. CASE tab.user = NoProfile
    BY <2>1 DEF NoProfile
  <2>2. CASE tab.user \in UserProfile
    BY <2>2 DEF UserProfile
  <2>. QED  BY <1>1, <2>1, <2>2 DEF Profiles
<1>3. tab.user # NoProfile => tab.user.id = tab.token.of /\ tab.token # NoToken
  BY <1>1, <1>2 DEF IdentityHolds, NoToken
<1>. QED  BY <1>1, <1>2, <1>3 DEF Capture, PageScope, Tokens

LEMMA RequestSent ==
    ASSUME AccountsInv, NEW f \in Flow \ {"auth"}, NEW stage \in Sending, NEW kind \in {"me", "upgrade", "privacy"},
           Dispatch(f, stage, kind, Capture, FALSE), requests' \subseteq requests \cup {Request(kind, tab.token)},
           UNCHANGED <<databaseVars, tab, told, dropped, chosen>>, tab.token # NoToken,
           kind = "privacy" \/ f = "upgrade" => tab.user # NoProfile
    PROVE  AccountsInv'
<1>1. /\ Capture \in PageScope /\ Capture.generation = tab.generation /\ Capture.token = tab.token /\ Capture.id = tab.user.id
      /\ tab.user # NoProfile => tab.token \in Token /\ tab.token # NoToken /\ tab.user.id = tab.token.of
      /\ tab.token \in Token
  BY CaptureFields
<1>2. tab \in PageIdentity /\ IdentityHolds(tab, row) /\ Succeeds(tab, tab)
  BY TabStays
<1>3. Sends(f, stage, kind, Capture, FALSE, tab.token)
  BY <1>1, <1>2 DEF Sends
<1>. QED  BY <1>3, SendsKeeps

\* Boot, Observe, Choose and Check send with the identity the page has.
LEMMA AskingKeeps ==
    ASSUME AccountsInv, Boot \/ Observe \/ Choose \/ Check
    PROVE  AccountsInv'
<1>1. tab.user # NoProfile => tab.token # NoToken
  BY CaptureFields
<1>2. /\ {"boot", "profile", "settings", "upgrade"} \subseteq Flow \ {"auth"} /\ {"restore", "read", "write", "check"} \subseteq Sending
      /\ "me" \in {"me", "upgrade", "privacy"} /\ "privacy" \in {"me", "upgrade", "privacy"}
  BY DEF Flow, Stage, Sending
<1>3. CASE Boot
  <2>1. /\ tab.token # NoToken /\ Dispatch("boot", "restore", "me", Capture, FALSE) /\ requests' = requests \cup {Request("me", tab.token)}
        /\ UNCHANGED <<databaseVars, tab, told, dropped, chosen>>
    BY <1>3 DEF Boot
  <2>. QED  BY <1>2, <2>1, RequestSent
<1>4. CASE Observe
  <2>1. /\ tab.user # NoProfile /\ Dispatch("profile", "read", "me", Capture, FALSE) /\ requests' = requests \cup {Request("me", tab.token)}
        /\ UNCHANGED <<databaseVars, tab, told, dropped, chosen>>
    BY <1>4 DEF Observe
  <2>. QED  BY <1>1, <1>2, <2>1, RequestSent
<1>5. CASE Choose
  <2>1. /\ tab.user # NoProfile /\ Dispatch("settings", "write", "privacy", Capture, FALSE) /\ requests' = requests \cup {Request("privacy", tab.token)}
        /\ UNCHANGED <<databaseVars, tab, told, dropped, chosen>>
    BY <1>5 DEF Choose
  <2>. QED  BY <1>1, <1>2, <2>1, RequestSent
<1>6. CASE Check
  <2>1. /\ tab.user # NoProfile /\ Dispatch("upgrade", "check", "me", Capture, FALSE) /\ requests' = requests \cup {Request("me", tab.token)}
        /\ UNCHANGED <<databaseVars, tab, told, dropped, chosen>>
    <3>1. NoProfile.guest = FALSE
      BY DEF NoProfile
    <3>2. tab.user # NoProfile
      BY <1>6, <3>1 DEF Check
    <3>. QED  BY <1>6, <3>2 DEF Check
  <2>. QED  BY <1>1, <1>2, <2>1, RequestSent
<1>. QED  BY <1>3, <1>4, <1>5, <1>6

LEMMA ReadSettingsKeeps ==
    ASSUME AccountsInv, ReadSettings
    PROVE  AccountsInv'
<1>1. "settings" \in Flow \ {"auth"} /\ "read" \in Sending /\ "me" \in {"me", "upgrade", "privacy"}
  BY DEF Flow, Stage, Sending
<1>2. /\ tab.token # NoToken /\ Dispatch("settings", "read", "me", Capture, FALSE)
      /\ requests' \subseteq requests \cup {Request("me", tab.token)}
      /\ UNCHANGED <<databaseVars, tab, told, dropped, chosen>>
  BY DEF ReadSettings, CallsWithout
<1>. QED  BY <1>1, <1>2, RequestSent

\* AuthenticationFlow.submit begins a generation; the account of the page stays until it is answered.
LEMMA SubmitKeeps ==
    ASSUME AccountsInv, NEW u \in Player, Submit(u)
    PROVE  AccountsInv'
<1>1. /\ Capture \in PageScope /\ Capture.generation = tab.generation /\ Capture.token = tab.token
  BY CaptureFields
<1>2. tab \in PageIdentity /\ IdentityHolds(tab, row) /\ tab.generation \in Nat
  BY PageNow
<1>. DEFINE next == tab.generation + 1
            scope == [Capture EXCEPT !.generation = next]
            token == [NoToken EXCEPT !.of = u]
<1>3. /\ tab' = [tab EXCEPT !.generation = next] /\ Dispatch("auth", "submit", "login", scope, FALSE)
      /\ requests' = requests \cup {Request("login", token)} /\ UNCHANGED <<databaseVars, told, dropped, chosen>>
  <2>1. scope = [Capture EXCEPT !.generation = @ + 1]
    BY <1>1
  <2>. HIDE DEF scope
  <2>. QED  BY <2>1 DEF Submit
<1>4. next \in Nat /\ tab.generation < next
  BY <1>2
<1>. HIDE DEF next
<1>5. tab' \in PageIdentity /\ tab'.generation = next /\ tab'.token = tab.token /\ tab'.user = tab.user
  BY <1>2, <1>3, <1>4 DEF PageIdentity
<1>6. scope \in PageScope /\ scope.generation = next /\ scope.token = tab.token
  BY <1>1, <1>4 DEF PageScope
<1>7. token \in Token
  BY DEF NoToken, Token
<1>. HIDE DEF scope, token
<1>8. IdentityHolds(tab', row) /\ Succeeds(tab, tab')
  BY <1>2, <1>4, <1>5 DEF IdentityHolds, Succeeds
<1>9. "auth" \in Flow /\ "submit" \in Sending
  BY DEF Flow, Stage, Sending
<1>10. Sends("auth", "submit", "login", scope, FALSE, token)
  BY <1>3, <1>5, <1>6, <1>7, <1>8, <1>9 DEF Sends
<1>. QED  BY <1>9, <1>10, SendsKeeps

\* The session is signed out only of the token that was found rejected.
LEMMA BootedKeeps ==
    ASSUME AccountsInv, Booted
    PROVE  AccountsInv'
<1>. DEFINE scope == flow["boot"].scope
<1>1. PICK a \in Learned("boot") :
           LET clears == a.status = 401 /\ IsCurrent(scope) /\ tab.token = scope.token IN
           /\ clears => tab.generation < MaxScopes
           /\ tab' = IF clears THEN [token |-> NoToken, user |-> NoProfile, generation |-> tab.generation + 1]
                     ELSE IF a.status = 200 THEN Accept(a, scope) ELSE tab
           /\ dropped' = IF clears THEN [rejected |-> scope.token, cleared |-> tab.token] ELSE dropped
  BY DEF Booted
<1>2. flow["boot"].stage = "restore" /\ requests' = CallsWithout("boot") /\ Off("boot") /\ UNCHANGED <<databaseVars, told, chosen>>
  BY DEF Booted
<1>3. "boot" \in Flow \ {"auth"} /\ Awaiting("boot") /\ requests' \subseteq requests
  BY <1>2 DEF Flow, Awaiting, CallsWithout
<1>4. dropped'.cleared = dropped'.rejected
  BY <1>1, TabStays
<1>5. tab' \in PageIdentity /\ IdentityHolds(tab', row) /\ Succeeds(tab, tab')
  <2>1. CASE tab' = [token |-> NoToken, user |-> NoProfile, generation |-> tab.generation + 1]
    BY <2>1, NobodysPage
  <2>2. CASE tab' = tab
    BY <2>2, TabStays
  <2>3. CASE a.status = 200 /\ tab' = Accept(a, scope)
    <3>1. tab' \in PageIdentity /\ IdentityHolds(tab', row) /\ SameAccount(tab, tab')
      BY <1>3, <2>3, AcceptHolds
    <3>. QED  BY <3>1 DEF Succeeds
  <2>. QED  BY <1>1, <2>1, <2>2, <2>3
<1>6. told'.is = "saved" => told'.of \in Player /\ ~row[told'.of].guest
  BY <1>2, TabStays
<1>. QED  BY <1>2, <1>3, <1>4, <1>5, <1>6, EndsKeeps

LEMMA SubmittedKeeps ==
    ASSUME AccountsInv, Submitted
    PROVE  AccountsInv'
<1>1. PICK a \in Learned("auth") :
           LET establishes == a.status = 200 /\ IsCurrent(flow["auth"].scope) IN
           /\ establishes => tab.generation < MaxScopes
           /\ tab' = IF establishes THEN [token |-> a.token, user |-> a.user, generation |-> tab.generation + 1] ELSE tab
  BY DEF Submitted
<1>2. flow["auth"].stage = "submit" /\ requests' = CallsWithout("auth") /\ Off("auth") /\ UNCHANGED <<databaseVars, told, dropped, chosen>>
  BY DEF Submitted
<1>3. "auth" \in Flow /\ requests' \subseteq requests
  BY DEF Flow, CallsWithout, Submitted
<1>4. tab' \in PageIdentity /\ IdentityHolds(tab', row) /\ Succeeds(tab, tab')
  <2>1. CASE tab' = tab
    BY <2>1, TabStays
  <2>2. CASE a.status = 200 /\ tab' = [token |-> a.token, user |-> a.user, generation |-> tab.generation + 1]
    <3>1. a \in Reply /\ a.token # NoToken /\ \E u \in Player : AnswerHolds(a, u, row)
      BY <1>2, <2>2, LearnedLogin
    <3>2. PICK u \in Player : AnswerHolds(a, u, row)
      BY <3>1
    <3>3. /\ a.user \in Profiles /\ a.token \in Tokens /\ a.user.id = u /\ a.token.of = u /\ a.user.version <= row[u].version
          /\ Backed(a.token, row) /\ tab.generation \in Nat
      BY <2>2, <3>1, <3>2, PageNow DEF AnswerHolds, Reply
    <3>4. tab' \in PageIdentity /\ tab'.token = a.token /\ tab'.user = a.user /\ tab.generation < tab'.generation
      BY <2>2, <3>3 DEF PageIdentity
    <3>. QED  BY <3>3, <3>4 DEF IdentityHolds, Succeeds
  <2>. QED  BY <1>1, <2>1, <2>2
<1>5. (told'.is = "saved" => told'.of \in Player /\ ~row[told'.of].guest) /\ dropped'.cleared = dropped'.rejected
  BY <1>2, TabStays
<1>. QED  BY <1>2, <1>3, <1>4, <1>5, EndsKeeps

LEMMA ReconciledKeeps ==
    ASSUME AccountsInv, ProfileReconciled
    PROVE  AccountsInv'
<1>1. PICK a \in Learned("profile") : tab' = IF a.status = 200 THEN Accept(a, flow["profile"].scope) ELSE tab
  BY DEF ProfileReconciled
<1>2. flow["profile"].stage = "read" /\ requests' = CallsWithout("profile") /\ Off("profile") /\ UNCHANGED <<databaseVars, told, dropped, chosen>>
  BY DEF ProfileReconciled
<1>3. "profile" \in Flow \ {"auth"} /\ Awaiting("profile") /\ requests' \subseteq requests
  BY <1>2 DEF Flow, Awaiting, CallsWithout
<1>4. tab' \in PageIdentity /\ IdentityHolds(tab', row) /\ Succeeds(tab, tab')
  <2>1. CASE a.status # 200
    BY <1>1, <2>1, TabStays
  <2>2. CASE a.status = 200
    <3>1. tab' \in PageIdentity /\ IdentityHolds(tab', row) /\ SameAccount(tab, tab')
      BY <1>1, <1>3, <2>2, AcceptHolds
    <3>. QED  BY <3>1 DEF Succeeds
  <2>. QED  BY <2>1, <2>2
<1>5. (told'.is = "saved" => told'.of \in Player /\ ~row[told'.of].guest) /\ dropped'.cleared = dropped'.rejected
  BY <1>2, TabStays
<1>. QED  BY <1>2, <1>3, <1>4, <1>5, EndsKeeps

LEMMA ResetSettingsKeeps ==
    ASSUME AccountsInv, ResetSettings
    PROVE  AccountsInv'
<1>1. Off("settings") /\ UNCHANGED <<databaseVars, tab, requests, told, dropped, chosen>>
  BY DEF ResetSettings
<1>2. "settings" \in Flow /\ requests' \subseteq requests
  BY <1>1 DEF Flow
<1>3. /\ tab' \in PageIdentity /\ IdentityHolds(tab', row) /\ Succeeds(tab, tab') /\ dropped'.cleared = dropped'.rejected
      /\ told'.is = "saved" => told'.of \in Player /\ ~row[told'.of].guest
  BY <1>1, TabStays
<1>. QED  BY <1>1, <1>2, <1>3, EndsKeeps

\* SignOut and a settings read that failed end no flow.
LEMMA FlowsStay ==
    ASSUME AccountsInv, UNCHANGED databaseVars, chosen' = chosen, UNCHANGED <<told, dropped, asked>>, requests' \subseteq requests,
           tab' \in PageIdentity, IdentityHolds(tab', row), Succeeds(tab, tab'), NEW w \in [Flow -> FlowState], flow' = w,
           \A f \in Flow : FlowHolds(f, w[f], requests, tab, asked)
    PROVE  AccountsInv'
<1>1. /\ tab \in PageIdentity /\ requests \subseteq Requests /\ asked \in Nat
  BY PageNow
<1>2. \A f \in Flow : FlowHolds(f, flow'[f], requests', tab', asked')
  <2>. TAKE f \in Flow
  <2>1. w[f] \in FlowState /\ FlowHolds(f, w[f], requests, tab, asked) /\ asked <= asked
    BY <1>1
  <2>2. requests' \in SUBSET Requests /\ \A c \in requests' : c \in requests \/ c.number > asked
    BY <1>1
  <2>3. FlowHolds(f, w[f], requests', tab', asked)
    BY <1>1, <2>1, <2>2, FlowStill
  <2>. QED  BY <2>3
<1>3. (told'.is = "saved" => told'.of \in Player /\ ~row[told'.of].guest) /\ dropped'.cleared = dropped'.rejected
  BY TabStays
<1>. QED  BY <1>1, <1>2, <1>3, PageRemains

LEMMA SignOutKeeps ==
    ASSUME AccountsInv, SignOut
    PROVE  AccountsInv'
<1>1. /\ tab' = [token |-> NoToken, user |-> NoProfile, generation |-> tab.generation + 1]
      /\ UNCHANGED databaseVars /\ chosen' = chosen /\ UNCHANGED <<told, dropped, asked>> /\ flow' = flow /\ requests' \subseteq requests
  BY DEF SignOut
<1>2. tab' \in PageIdentity /\ IdentityHolds(tab', row) /\ Succeeds(tab, tab')
  BY <1>1, NobodysPage
<1>3. flow \in [Flow -> FlowState] /\ \A f \in Flow : FlowHolds(f, flow[f], requests, tab, asked)
  BY PageNow
<1>. QED  BY <1>1, <1>2, <1>3, FlowsStay

LEMMA SettingsReadKeeps ==
    ASSUME AccountsInv, SettingsRead
    PROVE  AccountsInv'
<1>1. PICK a \in Learned("settings") :
           IF a.status = 200 THEN tab' = Accept(a, flow["settings"].scope) /\ Off("settings")
           ELSE tab' = tab /\ asked' = asked /\ flow' = [flow EXCEPT !["settings"].stage = "needsRefresh"]
  BY DEF SettingsRead
<1>2. flow["settings"].stage = "read" /\ requests' = CallsWithout("settings") /\ UNCHANGED <<databaseVars, told, dropped, chosen>>
  BY DEF SettingsRead
<1>3. "settings" \in Flow \ {"auth"} /\ Awaiting("settings") /\ requests' \subseteq requests
  BY <1>2 DEF Flow, Awaiting, CallsWithout
<1>4. CASE a.status = 200
  <2>1. tab' = Accept(a, flow["settings"].scope) /\ Off("settings")
    BY <1>1, <1>4
  <2>2. tab' \in PageIdentity /\ IdentityHolds(tab', row) /\ SameAccount(tab, tab')
    BY <1>3, <1>4, <2>1, AcceptHolds
  <2>3. Succeeds(tab, tab')
    BY <2>2 DEF Succeeds
  <2>4. (told'.is = "saved" => told'.of \in Player /\ ~row[told'.of].guest) /\ dropped'.cleared = dropped'.rejected
    BY <1>2, TabStays
  <2>. QED  BY <1>2, <1>3, <2>1, <2>2, <2>3, <2>4, EndsKeeps
<1>5. CASE a.status # 200
  <2>. DEFINE old == flow["settings"]
              back == [old EXCEPT !.stage = "needsRefresh"]
              w == [flow EXCEPT !["settings"] = back]
  <2>1. tab' = tab /\ asked' = asked /\ flow' = w
    BY <1>1, <1>5
  <2>2. /\ flow \in [Flow -> FlowState] /\ \A f \in Flow : FlowHolds(f, flow[f], requests, tab, asked)
    BY PageNow
  <2>3. back \in FlowState /\ back.stage = "needsRefresh" /\ back.call = old.call /\ back.scope = old.scope
    <3>1. old \in FlowState
      BY <1>3, <2>2
    <3>. HIDE DEF old
    <3>. QED  BY <3>1 DEF FlowState, Stage
  <2>4. FlowHolds("settings", back, requests, tab, asked)
    <3>1. FlowHolds("settings", old, requests, tab, asked)
      BY <1>3, <2>2
    <3>. HIDE DEF back, old
    <3>. QED  BY <2>3, <3>1 DEF FlowHolds
  <2>. HIDE DEF back
  <2>5. w \in [Flow -> FlowState] /\ w["settings"] = back /\ \A f \in Flow \ {"settings"} : w[f] = flow[f]
    BY <1>3, <2>2, <2>3
  <2>. HIDE DEF w
  <2>6. \A f \in Flow : FlowHolds(f, w[f], requests, tab, asked)
    BY <2>2, <2>4, <2>5
  <2>7. /\ tab' \in PageIdentity /\ IdentityHolds(tab', row) /\ Succeeds(tab, tab')
    BY <2>1, TabStays
  <2>8. UNCHANGED databaseVars /\ chosen' = chosen /\ UNCHANGED <<told, dropped, asked>>
    BY <1>2, <2>1
  <2>. QED  BY <1>3, <2>1, <2>5, <2>6, <2>7, <2>8, FlowsStay
<1>. QED  BY <1>4, <1>5

------------------------------------------------------------------------------
(* Accounts: the conversion of a guest, and the theorems *)

LEMMA RenewedHolds ==
    ASSUME AccountsInv, Awaiting("upgrade"), NEW a \in Learned("upgrade"), NEW t, t = Renewed(a)
    PROVE  t \in PageIdentity /\ IdentityHolds(t, row) /\ SameAccount(tab, t) /\ (t.user = NoProfile => tab.user = NoProfile)
<1>1. CASE t = tab
  BY <1>1, TabStays
<1>2. CASE a.status = 200 /\ t = Accept(a, flow["upgrade"].scope)
  <2>1. "upgrade" \in Flow \ {"auth"}
    BY DEF Flow
  <2>. QED  BY <1>2, <2>1, AcceptHolds
<1>. QED  BY <1>1, <1>2 DEF Renewed

LEMMA EndUpgradeKeeps ==
    ASSUME AccountsInv, NEW t, NEW what, EndUpgrade(t, what), UNCHANGED <<databaseVars, dropped, chosen>>,
           t \in PageIdentity, IdentityHolds(t, row), SameAccount(tab, t),
           what = "saved" => flow["upgrade"].scope.id \in Player /\ ~row[flow["upgrade"].scope.id].guest
    PROVE  AccountsInv'
<1>1. tab' = t /\ told' = [of |-> flow["upgrade"].scope.id, is |-> what] /\ Off("upgrade") /\ requests' = CallsWithout("upgrade")
  BY DEF EndUpgrade, Tell
<1>2. told'.of = flow["upgrade"].scope.id /\ told'.is = what
  BY <1>1
<1>3. "upgrade" \in Flow /\ requests' \subseteq requests
  BY <1>1 DEF Flow, CallsWithout
<1>4. (told'.is = "saved" => told'.of \in Player /\ ~row[told'.of].guest) /\ dropped'.cleared = dropped'.rejected
  BY <1>2, TabStays
<1>5. Succeeds(tab, tab')
  BY <1>1 DEF Succeeds
<1>. QED  BY <1>1, <1>3, <1>4, <1>5, EndsKeeps

LEMMA UnsavedKeeps ==
    ASSUME AccountsInv, NEW t, NEW what, what # "saved", EndUpgrade(t, what), UNCHANGED <<databaseVars, dropped, chosen>>,
           t \in PageIdentity, IdentityHolds(t, row), SameAccount(tab, t)
    PROVE  AccountsInv'
<1>1. what = "saved" => flow["upgrade"].scope.id \in Player /\ ~row[flow["upgrade"].scope.id].guest
  OBVIOUS
<1>. QED  BY <1>1, EndUpgradeKeeps

\* The next request of the conversion carries the token that the last answer may have renewed.
LEMMA ProceedKeeps ==
    ASSUME AccountsInv, Awaiting("upgrade"), SameIdentity(flow["upgrade"].scope), NEW a \in Learned("upgrade"),
           NEW stage \in Sending, NEW kind \in {"me", "upgrade"}, NEW refused \in BOOLEAN, Proceed(a, stage, kind, refused),
           UNCHANGED <<databaseVars, dropped, chosen>>
    PROVE  AccountsInv'
<1>. DEFINE renewed == Renewed(a)
            scope == [generation |-> renewed.generation, token |-> renewed.token, id |-> renewed.user.id]
            token == renewed.token
<1>1. /\ tab' = renewed /\ told' = told /\ Dispatch("upgrade", stage, kind, scope, refused)
      /\ requests' \subseteq requests \cup {Request(kind, token)}
  BY DEF Proceed, CallsWithout
<1>2. renewed \in PageIdentity /\ IdentityHolds(renewed, row) /\ SameAccount(tab, renewed) /\ (renewed.user = NoProfile => tab.user = NoProfile)
  BY RenewedHolds
<1>. HIDE DEF renewed
<1>3. tab.token # NoToken /\ tab.user.id = tab.token.of
  <2>1. /\ "upgrade" \in Flow /\ FlowHolds("upgrade", flow["upgrade"], requests, tab, asked)
    BY PageNow DEF Flow
  <2>2. Capture = flow["upgrade"].scope /\ Capture.token = tab.token /\ Capture.id = tab.user.id
    BY CaptureFields DEF SameIdentity
  <2>. QED  BY <2>1, <2>2 DEF FlowHolds, Awaiting
<1>4. tab.user # NoProfile
  <2>1. tab.token \in Tokens /\ NoOne \notin Player
    BY PageNow
  <2>2. tab.token.of \in Player
    BY <1>3, <2>1 DEF Tokens, Token
  <2>3. NoProfile.id = NoOne
    BY DEF NoProfile
  <2>. QED  BY <1>3, <2>1, <2>2, <2>3
<1>5. /\ token = renewed.token /\ token \in Token /\ token # NoToken
      /\ renewed.user.id = token.of /\ token.of \in Player /\ renewed.generation \in Nat /\ renewed.token \in Tokens
  <2>1. renewed.token # NoToken /\ renewed.user # NoProfile /\ renewed.token \in Tokens /\ renewed.generation \in Nat
    BY <1>2, <1>3, <1>4 DEF SameAccount, PageIdentity
  <2>2. renewed.user.id = renewed.token.of
    BY <1>2, <2>1 DEF IdentityHolds
  <2>. QED  BY <2>1, <2>2 DEF Tokens, Token
<1>6. scope \in PageScope /\ scope.generation = renewed.generation /\ scope.token = renewed.token /\ scope.id = token.of
  BY <1>5 DEF PageScope
<1>. HIDE DEF scope, token
<1>7. "upgrade" \in Flow /\ Succeeds(tab, renewed)
  BY <1>2 DEF Flow, Succeeds
<1>8. Sends("upgrade", stage, kind, scope, refused, token)
  BY <1>1, <1>2, <1>5, <1>6, <1>7 DEF Sends
<1>. QED  BY <1>7, <1>8, SendsKeeps

LEMMA UpgradeStepKeeps ==
    ASSUME AccountsInv, UpgradeStep
    PROVE  AccountsInv'
<1>. DEFINE stage == flow["upgrade"].stage
            scope == flow["upgrade"].scope
<1>1. PICK a \in Learned("upgrade") :
           LET shown == a.status = 200
               saved == shown /\ ~a.user.guest IN
           IF ~SameIdentity(scope) THEN EndUpgrade(tab, "superseded")
           ELSE IF saved THEN ConfirmSaved(a)
           ELSE IF stage = "check" THEN IF shown THEN Proceed(a, "post", "upgrade", FALSE) ELSE EndUpgrade(tab, "pending")
           ELSE IF stage = "post" THEN Proceed(a, "confirm", "me", a.status \in 400..499)
           ELSE EndUpgrade(Renewed(a), IF shown /\ flow["upgrade"].refused THEN "rejected" ELSE "pending")
  BY DEF UpgradeStep
<1>2. Awaiting("upgrade") /\ UNCHANGED <<databaseVars, dropped, chosen>> /\ "upgrade" \in Flow \ {"auth"}
  <2>1. "upgrade" \in Flow \ {"auth"}
    BY DEF Flow
  <2>2. flow["upgrade"].stage # "needsRefresh"
    BY <2>1, PageNow DEF FlowHolds
  <2>. QED  BY <2>1, <2>2 DEF UpgradeStep, Awaiting
<1>3. tab \in PageIdentity /\ IdentityHolds(tab, row) /\ SameAccount(tab, tab)
  BY TabStays
<1>4. CASE EndUpgrade(tab, "superseded") \/ EndUpgrade(tab, "pending")
  <2>1. "superseded" # "saved" /\ "pending" # "saved"
    OBVIOUS
  <2>. QED  BY <1>2, <1>3, <1>4, <2>1, UnsavedKeeps
<1>5. CASE a.status = 200 /\ ~a.user.guest /\ ConfirmSaved(a)
  <2>1. EndUpgrade(Accept(a, scope), "saved")
    BY <1>5 DEF ConfirmSaved, EndUpgrade
  <2>2. Accept(a, scope) \in PageIdentity /\ IdentityHolds(Accept(a, scope), row) /\ SameAccount(tab, Accept(a, scope))
    BY <1>2, <1>5, AcceptHolds
  <2>3. a \in Reply /\ scope.token \in Token /\ AnswerHolds(a, scope.token.of, row)
    BY <1>2, <1>5, LearnedAnswer
  <2>4. scope.id = scope.token.of
    BY <1>2, PageNow DEF FlowHolds, Awaiting
  <2>5. scope.id \in Player /\ ~row[scope.id].guest
    BY <1>5, <2>3, <2>4 DEF AnswerHolds, Token
  <2>. QED  BY <1>2, <2>1, <2>2, <2>5, EndUpgradeKeeps
<1>6. CASE SameIdentity(scope) /\ (Proceed(a, "post", "upgrade", FALSE) \/ Proceed(a, "confirm", "me", a.status \in 400..499))
  <2>. DEFINE refused == a.status \in 400..499
  <2>1. "post" \in Sending /\ "confirm" \in Sending /\ "me" \in {"me", "upgrade"} /\ "upgrade" \in {"me", "upgrade"} /\ FALSE \in BOOLEAN
    BY DEF Stage, Sending
  <2>4. refused \in BOOLEAN
    OBVIOUS
  <2>5. Proceed(a, "post", "upgrade", FALSE) \/ Proceed(a, "confirm", "me", refused)
    BY <1>6
  <2>. HIDE DEF refused
  <2>2. CASE Proceed(a, "post", "upgrade", FALSE)
    BY <1>2, <1>6, <2>1, <2>2, ProceedKeeps
  <2>3. CASE Proceed(a, "confirm", "me", refused)
    BY <1>2, <1>6, <2>1, <2>3, <2>4, ProceedKeeps
  <2>. QED  BY <2>2, <2>3, <2>5
<1>7. CASE EndUpgrade(Renewed(a), "rejected") \/ EndUpgrade(Renewed(a), "pending")
  <2>1. "rejected" # "saved" /\ "pending" # "saved"
    OBVIOUS
  <2>. DEFINE t == Renewed(a)
  <2>2. t \in PageIdentity /\ IdentityHolds(t, row) /\ SameAccount(tab, t)
    BY <1>2, RenewedHolds
  <2>3. EndUpgrade(t, "rejected") \/ EndUpgrade(t, "pending")
    BY <1>7
  <2>. HIDE DEF t
  <2>4. CASE EndUpgrade(t, "rejected")
    BY <1>2, <2>1, <2>2, <2>4, UnsavedKeeps
  <2>5. CASE EndUpgrade(t, "pending")
    BY <1>2, <2>1, <2>2, <2>5, UnsavedKeeps
  <2>. QED  BY <2>3, <2>4, <2>5
<1>. QED  BY <1>1, <1>4, <1>5, <1>6, <1>7

LEMMA AccountsStart ==
    ASSUME AccountsInit
    PROVE  AccountsInv
<1>1. /\ row = [u \in Player |-> [guest |-> u \in Guest, expires |-> IF u \in Guest THEN Lifetime ELSE Forever, retired |-> FALSE, version |-> 0]]
      /\ grants = [u \in Player |-> IF u \in Guest THEN 0 ELSE 1]
      /\ days = 0 /\ admitted = {} /\ online = {} /\ cleanup = NoOne /\ asked = 0
      /\ told = [of |-> NoOne, is |-> "nothing"] /\ dropped = [rejected |-> NoToken, cleared |-> NoToken]
      /\ chosen = [u \in Player |-> [applied |-> 0, overruling |-> FALSE]]
  BY DEF AccountsInit
<1>2. Guest \subseteq Player /\ NoOne \notin Player /\ Lifetime \in Nat /\ Renewal \in Nat /\ Renewal < Lifetime /\ Forever \in Nat
  BY AccountsAssumption, LifetimeIsLong DEF Forever
<1>3. /\ row \in [Player -> UserRow]
      /\ \A u \in Player : /\ row[u].guest = (u \in Guest) /\ ~row[u].retired /\ row[u].version = 0
                           /\ u \in Guest => row[u].expires = Lifetime
                           /\ row[u] \in UserRow
  BY <1>1, <1>2 DEF UserRow
<1>4. grants \in [Player -> Nat] /\ \A u \in Player : grants[u] = (IF row[u].guest THEN 0 ELSE 1)
  BY <1>1, <1>3
<1>5. chosen \in [Player -> Choice] /\ \A u \in Player : ~chosen[u].overruling /\ chosen[u].applied = 0
  BY <1>1 DEF Choice
<1>6. PICK u \in Guest : \E shown \in {NoProfile, Profile(u, row[u])} :
           tab = [token |-> [SignToken(u, row[u]) EXCEPT !.exp = @ - Renewal], user |-> shown, generation |-> 0]
  BY DEF AccountsInit
<1>7. PICK shown \in {NoProfile, Profile(u, row[u])} :
           tab = [token |-> [SignToken(u, row[u]) EXCEPT !.exp = @ - Renewal], user |-> shown, generation |-> 0]
  BY <1>6
<1>. DEFINE token == [SignToken(u, row[u]) EXCEPT !.exp = @ - Renewal]
<1>8. token \in Token /\ token.of = u /\ token.exp = Lifetime - Renewal /\ u \in Player
  <2>1. u \in Player /\ row[u] \in UserRow /\ days \in Nat /\ row[u].guest
    BY <1>1, <1>2, <1>3
  <2>2. SignToken(u, row[u]) \in Token /\ SignToken(u, row[u]).of = u /\ SignToken(u, row[u]).exp = days + Lifetime
    BY <2>1, SignedFields
  <2>. DEFINE old == SignToken(u, row[u])
              left == old.exp - Renewal
  <2>3. left \in Nat /\ left = Lifetime - Renewal
    BY <1>1, <1>2, <2>2
  <2>4. token = [old EXCEPT !.exp = left] /\ old \in Token /\ old.of = u
    BY <2>2
  <2>. HIDE DEF left, old, token
  <2>5. token \in Token /\ token.of = u /\ token.exp = left
    BY <2>3, <2>4 DEF Token
  <2>. QED  BY <2>1, <2>3, <2>5
<1>9. Profile(u, row[u]) \in UserProfile /\ Profile(u, row[u]).id = u /\ Profile(u, row[u]).version = 0
  BY <1>3, <1>8, ProfileFields
<1>10. tab = [token |-> token, user |-> shown, generation |-> 0]
  BY <1>7
<1>. HIDE DEF token
<1>11. tab.token = token /\ tab.user = shown /\ tab.generation = 0 /\ token # NoToken
  BY <1>2, <1>8, <1>10 DEF NoToken
<1>12. tab \in PageIdentity
  BY <1>7, <1>8, <1>9, <1>10 DEF PageIdentity, Tokens, Profiles
<1>13. IdentityHolds(tab, row)
  <2>1. Backed(token, row)
    BY <1>2, <1>3, <1>8 DEF Backed
  <2>2. shown # NoProfile => shown.id = u /\ shown.version = 0
    BY <1>7, <1>9
  <2>3. row[u].version = 0
    BY <1>3, <1>8
  <2>. QED  BY <1>8, <1>11, <2>1, <2>2, <2>3 DEF IdentityHolds
<1>14. RetiringHolds
  BY <1>1, <1>3 DEF RetiringHolds
<1>15. \A f \in Flow : Idling \in FlowState /\ FlowHolds(f, Idling, requests, tab, asked)
  BY <1>1, <1>12, FlowIdle
<1>16. /\ requests \subseteq Requests /\ \A c \in requests : RequestHolds(c, row, chosen, asked)
       /\ flow \in [Flow -> FlowState] /\ \A f \in Flow : FlowHolds(f, flow[f], requests, tab, asked)
  <2>1. CASE flow = [f \in Flow |-> Idling] /\ requests = {}
    BY <1>15, <2>1
  <2>2. CASE /\ tab.user # NoProfile /\ requests = {[Request("privacy", tab.token) EXCEPT !.number = 0]}
             /\ flow = [f \in Flow |-> IF f = "settings" THEN [Idling EXCEPT !.stage = "needsRefresh", !.scope = Capture] ELSE Idling]
    <3>. DEFINE r0 == Request("privacy", tab.token)
                c == [r0 EXCEPT !.number = 0]
                w == [Idling EXCEPT !.stage = "needsRefresh", !.scope = Capture]
    <3>1. Unconfirmed \in Reply /\ Unconfirmed.status = 0
      BY DEF Unconfirmed, Reply, Tokens, Profiles
    <3>2. tab.user.version = 0 /\ tab.user.id = u
      BY <1>7, <1>9, <1>11, <2>2
    <3>3. /\ c \in Requests /\ c.number = 0 /\ c.kind = "privacy" /\ c.token = token /\ c.expected = 0 /\ c.answer = Unconfirmed
      <4>1. r0 \in Requests /\ r0.kind = "privacy" /\ r0.token = token /\ r0.expected = 0 /\ r0.answer = Unconfirmed
        BY <1>1, <1>8, <1>11, <3>1, <3>2 DEF Request, Requests
      <4>. HIDE DEF r0
      <4>. QED  BY <4>1 DEF Requests
    <3>. HIDE DEF c
    <3>4. RequestHolds(c, row, chosen, asked)
      BY <1>1, <1>3, <1>5, <1>8, <3>1, <3>3 DEF RequestHolds, AnswerHolds
    <3>5. Capture \in PageScope /\ Capture.generation = 0 /\ Capture.token = token
      BY <1>8, <1>11, <3>2 DEF Capture, PageScope, Tokens
    <3>6. w \in FlowState /\ w.stage = "needsRefresh" /\ w.call = 0 /\ w.scope = Capture
      BY <3>5 DEF Idling, FlowState, Stage
    <3>. HIDE DEF w
    <3>7. FlowHolds("settings", w, requests, tab, asked)
      BY <1>1, <1>11, <3>5, <3>6 DEF FlowHolds, ScopeHolds
    <3>8. requests = {c} /\ flow = [f \in Flow |-> IF f = "settings" THEN w ELSE Idling]
      BY <2>2 DEF c, w
    <3>9. flow \in [Flow -> FlowState] /\ \A f \in Flow : flow[f] = IF f = "settings" THEN w ELSE Idling
      BY <1>15, <3>6, <3>8
    <3>. QED  BY <1>15, <3>3, <3>4, <3>7, <3>8, <3>9
  <2>. QED  BY <2>1, <2>2 DEF AccountsInit
<1>17. AccountTypes
  BY <1>1, <1>3, <1>4, <1>5, <1>12, <1>16 DEF AccountTypes
<1>18. \A v \in Player : ~chosen[v].overruling /\ chosen[v].applied <= asked
  BY <1>1, <1>5
<1>19. told.is # "saved" /\ dropped.cleared = dropped.rejected
  BY <1>1
<1>. QED  BY <1>4, <1>13, <1>14, <1>16, <1>17, <1>18, <1>19 DEF AccountsInv

LEMMA AccountsStep ==
    ASSUME AccountsInv, AccountsNext
    PROVE  AccountsInv'
<1>1. CASE ServeRequest \/ Handshake \/ NextDay \/ RetireGuest
  BY <1>1, ServeRequestKeeps, HandshakeKeeps, NextDayKeeps, RetireGuestKeeps
<1>2. CASE \E u \in Player : Register(u) \/ HangUp(u) \/ LockGuest(u) \/ Submit(u) \/ ConvertElsewhere(u)
  BY <1>2, RegisterKeeps, LockGuestKeeps, SubmitKeeps, ConvertElsewhereKeeps
<1>3. CASE Boot \/ Observe \/ Choose \/ Check
  BY <1>3, AskingKeeps
<1>4. CASE Booted \/ Submitted \/ SignOut \/ ProfileReconciled
  BY <1>4, BootedKeeps, SubmittedKeeps, SignOutKeeps, ReconciledKeeps
<1>5. CASE ReadSettings \/ SettingsRead \/ ResetSettings \/ UpgradeStep
  BY <1>5, ReadSettingsKeeps, SettingsReadKeeps, ResetSettingsKeeps, UpgradeStepKeeps
<1>. QED  BY <1>1, <1>2, <1>3, <1>4, <1>5 DEF AccountsNext

\* Rows only grow, tokens are backed by them, answers are about who asked and were
\* true when they were given, and a choice that was overtaken was made on a revision
\* that is gone. (authorizeAccount, updateProfilePrivacy, AccountSession.accept)
THEOREM AccountsInvariance == AccountsSpec => []AccountsInv
<1>1. AccountsInit => AccountsInv
  BY AccountsStart
<1>2. AccountsInv /\ [AccountsNext]_accountsVars => AccountsInv'
  <2>1. ASSUME AccountsInv, AccountsNext PROVE AccountsInv'
    BY <2>1, AccountsStep
  <2>2. ASSUME AccountsInv, UNCHANGED accountsVars PROVE AccountsInv'
    <3>1. UNCHANGED <<row, grants, days, admitted, online, cleanup>>
      BY <2>2 DEF accountsVars
    <3>2. UNCHANGED <<tab, flow, requests, asked, told, dropped, chosen>>
      BY <2>2 DEF accountsVars
    <3>3. AccountTypes'
      BY <2>2, <3>1, <3>2 DEF AccountsInv, AccountTypes
    <3>4. RetiringHolds' /\ \A u \in Player : grants'[u] = (IF row'[u].guest THEN 0 ELSE 1)
      BY <2>2, <3>1 DEF AccountsInv, RetiringHolds
    <3>. QED  BY <2>2, <3>1, <3>2, <3>3, <3>4 DEF AccountsInv
  <2>. QED  BY <2>1, <2>2
<1>. QED  BY <1>1, <1>2, PTL DEF AccountsSpec

\* Whatever is answered late, lost or overtaken, and however the cleanup interleaves
\* with a guest's return: no guest is retired whose token still opens the account or
\* who is connected, a guest is converted once and never told so in vain, the page
\* shows one account at a revision it has had, its bootstrap drops only the token it
\* found rejected, and no choice of privacy overrules a later one.
\* (guestCleanup, authorizeAccount, upgradeGuest, AccountSession, createAccountUpgrade)
THEOREM NoAccountIsLostOrMixed == AccountsSpec => []AccountsAreSound
<1>1. AccountsInv => AccountsAreSound
  <2>. SUFFICES ASSUME AccountsInv PROVE AccountsAreSound
    OBVIOUS
  <2>1. /\ row \in [Player -> UserRow] /\ IdentityHolds(tab, row) /\ tab.token \in Tokens /\ tab.user \in Profiles /\ NoOne \notin Player
        /\ days \in Nat
    BY PageNow DEF AccountTypes
  <2>2. RetiredGuestsAreGone
    <3>. SUFFICES ASSUME NEW u \in Player, row[u].retired
                  PROVE  u \notin online \cup admitted /\ ~(tab.token.of = u /\ tab.token.exp > days)
      BY DEF RetiredGuestsAreGone
    <3>1. row[u].guest /\ row[u].expires < days /\ u \notin online \cup admitted
      BY DEF AccountsInv, RetiringHolds
    <3>2. ASSUME tab.token.of = u PROVE ~(tab.token.exp > days)
      <4>1. tab.token # NoToken
        BY <2>1, <3>2 DEF NoToken
      <4>2. tab.token \in Token
        BY <2>1, <4>1 DEF Tokens
      <4>3. tab.token.exp <= row[u].expires
        BY <2>1, <3>1, <3>2, <4>1 DEF IdentityHolds, Backed
      <4>4. tab.token.exp \in Nat /\ row[u].expires \in Nat
        BY <2>1, <4>2 DEF Token, UserRow
      <4>. QED  BY <2>1, <3>1, <4>3, <4>4
    <3>. QED  BY <3>1, <3>2
  <2>3. ConversionsAreTrue
    BY DEF AccountsInv, ConversionsAreTrue
  <2>4. IdentityIsWhole
    <3>1. tab.user = NoProfile => tab.user.id = NoOne
      BY DEF NoProfile
    <3>2. tab.user # NoProfile => tab.user.id = tab.token.of /\ tab.user.version <= row[tab.user.id].version
      BY <2>1 DEF IdentityHolds
    <3>3. dropped.cleared = dropped.rejected
      BY DEF AccountsInv
    <3>. QED  BY <3>1, <3>2, <3>3 DEF IdentityIsWhole
  <2>5. ChoicesStand
    BY DEF AccountsInv, ChoicesStand
  <2>. QED  BY <2>2, <2>3, <2>4, <2>5 DEF AccountsAreSound
<1>. QED  BY <1>1, AccountsInvariance, PTL

------------------------------------------------------------------------------
(* The chat: the inductive invariant *)

ChatMessage == [from: {"me", "other"}, key: Nat, text: Nat]
ChatRequests == [is: {"history", "send"}, stage: {"asked", "created"}, call: Nat, before: Nat, key: Nat, text: Nat, row: Nat]
ChatEvents == [is: {"message", "ack", "page"}, call: Nat, result: {"ok", "refused", "unavailable"}, messages: SUBSET Nat, more: BOOLEAN]
ChatLoads == [call: Nat, older: BOOLEAN, newest: Nat]
ChatStates ==
    [shown: SUBSET Nat, online: BOOLEAN, loaded: BOOLEAN, load: ChatLoads, failed: BOOLEAN, more: BOOLEAN, draft: Nat, pending: Nat,
     call: Nat, delivery: {"idle", "sending", "uncertain"}, unread: Nat, visible: BOOLEAN, seen: Nat, since: Nat]

ChatTypes ==
    /\ messages \in Seq(ChatMessage) /\ open \subseteq DOMAIN messages /\ silent \subseteq Kept
    /\ chatRequests \subseteq ChatRequests
    /\ link \in [up: BOOLEAN, events: Seq(ChatEvents)]
    /\ chat \in ChatStates /\ chat.shown \subseteq Kept
    /\ made \in [requests: Nat, texts: Nat, breaks: Nat]

OwnMessages == {i \in DOMAIN messages : Own(i)}

\* Every text but the one in the input is in the table once; that one is under the
\* identifier it is sent with.
TextsHold ==
    /\ chat.draft <= made.texts /\ chat.pending <= made.requests /\ chat.call <= made.requests
    /\ chat.draft = 0 => chat.pending = 0
    /\ OwnMessages \cap open = {}
    /\ \A i \in OwnMessages :
           /\ messages[i].text \in 1..made.texts /\ messages[i].key \in 1..made.requests
           /\ messages[i].text = chat.draft <=> messages[i].key = chat.pending
    /\ \A i, j \in OwnMessages : messages[i].text = messages[j].text \/ messages[i].key = messages[j].key => i = j
    /\ \A t \in 1..made.texts : t # chat.draft => \E i \in OwnMessages : messages[i].text = t

Asked(c) == c.is = "send" /\ c.stage = "asked"
IsRecorded(k) == \E i \in OwnMessages : messages[i].key = k

\* What is still to be sent is the text in the input, or is there already; no send is
\* younger than the one whose answer is awaited.
RequestsHold ==
    /\ \A c \in chatRequests : c.call \in 1..made.requests
    /\ \A c, d \in chatRequests : c.call = d.call => c = d
    /\ \A c \in chatRequests : Asked(c) =>
           /\ c.key \in 1..made.requests /\ c.text \in 1..made.texts
           /\ (c.key = chat.pending /\ c.text = chat.draft) \/ IsRecorded(c.key)
           /\ chat.call # 0 => c.call <= chat.call
    /\ \A c \in chatRequests : c.is = "send" /\ c.stage = "created" => c.row \in OwnMessages
    /\ \A c \in chatRequests : c.is = "history" /\ c.call = chat.load.call /\ ~chat.load.older => c.before = 0

\* A refusal that is listened to is the last word on its identifier.
RefusalIsFinal(e) ==
    e.is = "ack" /\ e.result = "refused" /\ e.call = chat.call =>
        ~IsRecorded(chat.pending) /\ \A c \in chatRequests : Asked(c) => c.key # chat.pending

Since(e) == IF e.more THEN Oldest(e) ELSE 1
Announced(i, k, events) == \E j \in DOMAIN events : j > k /\ events[j].is = "message" /\ i \in events[j].messages

\* What a page leaves out is older, or not announced yet, or announced after it.
PageIsWhole(k, events) ==
    LET e == events[k] IN
    e.is = "page" /\ e.result = "ok" =>
        /\ e.more => e.messages # {}
        /\ e.call = chat.load.call /\ ~chat.load.older =>
               \A i \in Kept : i >= Since(e) => i \in e.messages \cup silent \/ Announced(i, k, events)

EventHolds(e) ==
    /\ e.result = "ok" => e.messages \subseteq Kept
    /\ e.is = "message" => e.result = "ok" /\ \E i \in e.messages : e.messages = {i}
    /\ e.is # "message" => e.call \in 1..made.requests
    /\ RefusalIsFinal(e)

EventsHold ==
    /\ ~link.up => link.events = << >> /\ chat.since = 0
    /\ chat.load.call <= made.requests
    /\ \A k \in DOMAIN link.events : EventHolds(link.events[k]) /\ PageIsWhole(k, link.events)

\* What is unread is counted, and nothing is unread while the chat is visible.
ReadingHolds(c) ==
    /\ ~c.visible /\ c.seen > 0 => c.unread = Cardinality(Unseen(c))
    /\ c.visible => c.unread = 0 /\ \A i \in c.shown : i <= c.seen

ChatInv == ChatTypes /\ TextsHold /\ RequestsHold /\ EventsHold /\ WindowIsCurrent /\ ReadingHolds(chat)

LEMMA LeastNatural ==
    ASSUME NEW S \in SUBSET Nat, S # {}
    PROVE  \E n \in S : \A m \in S : n <= m
<1>. DEFINE Less == {p \in Nat \X Nat : p[1] < p[2]}
<1>1. IsWellFoundedOn(Less, Nat)
  BY NatLessThanWellFounded DEF OpToRel
<1>2. PICK n \in S : \A m \in S : <<m, n>> \notin Less
  <2>. HIDE DEF Less
  <2>. QED  BY <1>1, WFMin
<1>3. \A m \in S : n <= m
  <2>. SUFFICES ASSUME NEW m \in S, m < n PROVE FALSE
    OBVIOUS
  <2>1. <<m, n>> \in Nat \X Nat /\ <<m, n>>[1] = m /\ <<m, n>>[2] = n
    OBVIOUS
  <2>. QED  BY <1>2, <2>1 DEF Less
<1>. QED  BY <1>3

LEMMA MinIsLeast ==
    ASSUME NEW S \in SUBSET Nat, S # {}
    PROVE  Min(S) \in S /\ \A m \in S : Min(S) <= m
BY LeastNatural DEF Min

LEMMA NewestIsGreatest ==
    ASSUME NEW n \in Nat, NEW S \in SUBSET (0..n)
    PROVE  /\ Newest(S) \in 0..n /\ \A m \in S : m <= Newest(S)
           /\ S # {} => Newest(S) \in S
<1>1. CASE S = {}
  BY <1>1 DEF Newest
<1>2. CASE S # {}
  <2>. DEFINE B == {b \in Nat : \A m \in S : m <= b}
  <2>1. B \in SUBSET Nat /\ n \in B
    OBVIOUS
  <2>2. PICK b \in B : \A c \in B : b <= c
    <3>. HIDE DEF B
    <3>. QED  BY <2>1, LeastNatural
  <2>3. b \in S
    <3>. SUFFICES ASSUME b \notin S PROVE FALSE
      OBVIOUS
    <3>1. PICK s \in S : TRUE
      BY <1>2
    <3>2. \A m \in S : m <= b - 1
      BY <2>2
    <3>3. b - 1 \in Nat
      BY <2>2, <3>1, <3>2
    <3>4. b - 1 \in B
      BY <3>2, <3>3
    <3>. QED  BY <2>2, <3>4
  <2>4. \A m \in S : b >= m
    BY <2>2, <2>3
  <2>5. Max(S) \in S /\ \A m \in S : Max(S) >= m
    <3>. HIDE DEF B
    <3>. QED  BY <2>3, <2>4 DEF Max
  <2>. QED  BY <1>2, <2>5 DEF Newest
<1>. QED  BY <1>1, <1>2

\* The messages and identifiers there are.
LEMMA MessagesNow ==
    ASSUME ChatTypes
    PROVE  /\ Len(messages) \in Nat /\ DOMAIN messages = 1..Len(messages)
           /\ \A i \in DOMAIN messages : messages[i] \in ChatMessage
           /\ Kept \subseteq 1..Len(messages) /\ OwnMessages \subseteq 1..Len(messages)
           /\ \A S \in SUBSET Kept : IsFiniteSet(S) /\ Cardinality(S) \in Nat /\ S \in SUBSET (0..Len(messages))
<1>1. Len(messages) \in Nat /\ DOMAIN messages = 1..Len(messages) /\ \A i \in DOMAIN messages : messages[i] \in ChatMessage
  BY DEF ChatTypes
<1>2. Kept \subseteq 1..Len(messages) /\ OwnMessages \subseteq 1..Len(messages)
  BY <1>1 DEF Kept, OwnMessages
<1>3. IsFiniteSet(1..Len(messages))
  BY <1>1, FS_Interval
<1>4. ASSUME NEW S \in SUBSET Kept PROVE IsFiniteSet(S) /\ Cardinality(S) \in Nat /\ S \in SUBSET (0..Len(messages))
  <2>1. S \subseteq 1..Len(messages)
    BY <1>2
  <2>2. IsFiniteSet(S)
    BY <1>3, <2>1, FS_Subset
  <2>. QED  BY <1>1, <2>1, <2>2, FS_CardinalityType
<1>. QED  BY <1>1, <1>2, <1>4

LEMMA MessageAppended ==
    ASSUME ChatTypes, NEW m \in ChatMessage, messages' = Append(messages, m)
    PROVE  /\ messages' \in Seq(ChatMessage) /\ DOMAIN messages' = DOMAIN messages \cup {Len(messages) + 1}
           /\ Len(messages) + 1 \notin DOMAIN messages
           /\ \A i \in DOMAIN messages : messages'[i] = messages[i] /\ Own(i)' = Own(i)
           /\ messages'[Len(messages) + 1] = m
<1>1. messages \in Seq(ChatMessage) /\ Len(messages) \in Nat /\ DOMAIN messages = 1..Len(messages)
  BY DEF ChatTypes
<1>2. messages' \in Seq(ChatMessage) /\ DOMAIN messages' = 1..(Len(messages) + 1)
  BY <1>1
<1>3. \A i \in 1..Len(messages) : messages'[i] = messages[i]
  BY <1>1
<1>4. messages'[Len(messages) + 1] = m
  BY <1>1
<1>. QED  BY <1>1, <1>2, <1>3, <1>4 DEF Own

\* What the client's own operations leave of its fields.
LEMMA ReadIs ==
    ASSUME ChatTypes, NEW c \in ChatStates, c.shown \subseteq Kept
    PROVE  /\ Read(c) \in ChatStates /\ Read(c).shown = c.shown /\ Read(c).load = c.load /\ Read(c).since = c.since
           /\ Read(c).pending = c.pending /\ Read(c).call = c.call /\ Read(c).draft = c.draft /\ Read(c).delivery = c.delivery
           /\ Read(c).visible = c.visible /\ (~c.visible => Read(c) = c)
           /\ c.visible => Read(c).unread = 0 /\ \A i \in c.shown : i <= Read(c).seen
<1>. DEFINE n == Newest(c.shown \cup {c.seen})
<1>1. n \in Nat /\ \A i \in c.shown : i <= n
  <2>1. Len(messages) \in Nat /\ c.shown \in SUBSET (0..Len(messages)) /\ c.seen \in Nat
    BY MessagesNow DEF ChatStates
  <2>2. PICK b \in Nat : c.seen <= b /\ Len(messages) <= b
    <3>1. c.seen + Len(messages) \in Nat /\ c.seen <= c.seen + Len(messages) /\ Len(messages) <= c.seen + Len(messages)
      BY <2>1
    <3>. QED  BY <3>1
  <2>3. c.shown \cup {c.seen} \in SUBSET (0..b)
    BY <2>1, <2>2
  <2>. QED  BY <2>3, NewestIsGreatest
<1>. HIDE DEF n
<1>2. CASE c.visible
  <2>1. Read(c) = [c EXCEPT !.seen = n, !.unread = 0]
    BY <1>2 DEF Read, n
  <2>. DEFINE r == [c EXCEPT !.seen = n]
  <2>2. /\ r \in ChatStates /\ r.shown = c.shown /\ r.load = c.load /\ r.since = c.since /\ r.pending = c.pending
        /\ r.call = c.call /\ r.draft = c.draft /\ r.delivery = c.delivery /\ r.visible = c.visible /\ r.seen = n
    BY <1>1 DEF ChatStates
  <2>3. Read(c) = [r EXCEPT !.unread = 0]
    BY <2>1
  <2>. HIDE DEF r
  <2>4. /\ Read(c) \in ChatStates /\ Read(c).shown = r.shown /\ Read(c).load = r.load /\ Read(c).since = r.since
        /\ Read(c).pending = r.pending /\ Read(c).call = r.call /\ Read(c).draft = r.draft /\ Read(c).delivery = r.delivery
        /\ Read(c).visible = r.visible /\ Read(c).seen = r.seen /\ Read(c).unread = 0
    BY <2>2, <2>3 DEF ChatStates
  <2>. QED  BY <1>1, <1>2, <2>2, <2>4
<1>3. CASE ~c.visible
  BY <1>3 DEF Read
<1>. QED  BY <1>2, <1>3 DEF ChatStates

LEMMA CountedIs ==
    ASSUME ChatTypes, NEW c \in ChatStates, c.shown \subseteq Kept
    PROVE  /\ Counted(c) \in ChatStates /\ Counted(c).shown = c.shown /\ Counted(c).load = c.load /\ Counted(c).since = c.since
           /\ Counted(c).pending = c.pending /\ Counted(c).call = c.call /\ Counted(c).draft = c.draft
           /\ Counted(c).delivery = c.delivery /\ Counted(c).visible = c.visible /\ Counted(c).seen = c.seen
           /\ (c.visible => Counted(c) = c)
           /\ (~c.visible /\ c.seen > 0 => Counted(c).unread = Cardinality(Unseen(c)))
<1>1. Cardinality(Unseen(c)) \in Nat
  <2>1. Unseen(c) \in SUBSET Kept
    BY DEF Unseen
  <2>. QED  BY <2>1, MessagesNow
<1>. QED  BY <1>1 DEF Counted, ChatStates

\* What of its text the client may take back: nothing, that it is delivered, or that it was.
TextFollows(c, d) ==
    \/ d.pending = c.pending /\ d.draft = c.draft /\ d.call \in {c.call, 0}
    \/ c.pending # 0 /\ IsRecorded(c.pending) /\ d.pending = 0 /\ d.draft = 0 /\ d.call = 0

LEMMA MergeIs ==
    ASSUME ChatTypes, OwnMessages \cap open = {}, NEW c \in ChatStates, NEW new, c.shown \cup new \subseteq Kept
    PROVE  /\ Merge(c, new) \in ChatStates /\ Merge(c, new).shown = c.shown \cup new
           /\ Merge(c, new).load = c.load /\ Merge(c, new).since = c.since /\ Merge(c, new).visible = c.visible
           /\ TextFollows(c, Merge(c, new)) /\ ReadingHolds(Merge(c, new))
           /\ ~c.visible => Merge(c, new).seen = c.seen
<1>. DEFINE c1 == [c EXCEPT !.shown = @ \cup new]
            c2 == Read(c1)
            c3 == Counted(c2)
<1>1. /\ c1 \in ChatStates /\ c1.shown = c.shown \cup new /\ c1.load = c.load /\ c1.since = c.since /\ c1.visible = c.visible
      /\ c1.pending = c.pending /\ c1.call = c.call /\ c1.draft = c.draft /\ c1.delivery = c.delivery /\ c1.seen = c.seen
  <2>1. c.shown \cup new \in SUBSET Nat
    BY MessagesNow
  <2>. QED  BY <2>1 DEF ChatStates
<1>. HIDE DEF c1
<1>2. /\ c2 \in ChatStates /\ c2.shown = c1.shown /\ c2.load = c1.load /\ c2.since = c1.since /\ c2.pending = c1.pending
      /\ c2.call = c1.call /\ c2.draft = c1.draft /\ c2.delivery = c1.delivery /\ c2.visible = c1.visible /\ (~c1.visible => c2 = c1)
      /\ c1.visible => c2.unread = 0 /\ \A i \in c1.shown : i <= c2.seen
  BY <1>1, ReadIs
<1>. HIDE DEF c2
<1>3. /\ c3 \in ChatStates /\ c3.shown = c2.shown /\ c3.load = c2.load /\ c3.since = c2.since /\ c3.pending = c2.pending
      /\ c3.call = c2.call /\ c3.draft = c2.draft /\ c3.delivery = c2.delivery /\ c3.visible = c2.visible /\ c3.seen = c2.seen
      /\ (c2.visible => c3 = c2) /\ (~c2.visible /\ c2.seen > 0 => c3.unread = Cardinality(Unseen(c2)))
  BY <1>1, <1>2, CountedIs
<1>. HIDE DEF c3
<1>4. Unseen(c3) = Unseen(c2)
  BY <1>3 DEF Unseen
<1>5. ReadingHolds(c3)
  BY <1>1, <1>2, <1>3, <1>4 DEF ReadingHolds
<1>6. Merge(c, new) = Recognized(c3)
  BY DEF Merge, c1, c2, c3
<1>7. CASE c3.pending # 0 /\ \E i \in c3.shown : Own(i) /\ messages[i].key = c3.pending
  <2>1. Merge(c, new) = [c3 EXCEPT !.pending = 0, !.call = 0, !.delivery = "idle", !.draft = 0]
    BY <1>6, <1>7 DEF Recognized, Delivered
  <2>. DEFINE d == Merge(c, new)
              d1 == [c3 EXCEPT !.pending = 0]
              d2 == [d1 EXCEPT !.call = 0]
              d3 == [d2 EXCEPT !.delivery = "idle"]
  <2>7. /\ d1 \in ChatStates /\ d1.shown = c3.shown /\ d1.load = c3.load /\ d1.since = c3.since /\ d1.visible = c3.visible
        /\ d1.seen = c3.seen /\ d1.unread = c3.unread /\ d1.pending = 0
    BY <1>3 DEF ChatStates
  <2>8. d = [d3 EXCEPT !.draft = 0]
    BY <2>1
  <2>. HIDE DEF d, d1
  <2>9. /\ d2 \in ChatStates /\ d2.shown = c3.shown /\ d2.load = c3.load /\ d2.since = c3.since /\ d2.visible = c3.visible
        /\ d2.seen = c3.seen /\ d2.unread = c3.unread /\ d2.pending = 0 /\ d2.call = 0
    BY <2>7 DEF ChatStates
  <2>. HIDE DEF d2
  <2>10. /\ d3 \in ChatStates /\ d3.shown = c3.shown /\ d3.load = c3.load /\ d3.since = c3.since /\ d3.visible = c3.visible
        /\ d3.seen = c3.seen /\ d3.unread = c3.unread /\ d3.pending = 0 /\ d3.call = 0
    BY <2>9 DEF ChatStates
  <2>. HIDE DEF d3
  <2>2. /\ d \in ChatStates /\ d.shown = c3.shown /\ d.load = c3.load /\ d.since = c3.since /\ d.visible = c3.visible /\ d.seen = c3.seen
        /\ d.unread = c3.unread /\ d.pending = 0 /\ d.call = 0 /\ d.draft = 0
    BY <2>8, <2>10 DEF ChatStates
  <2>3. Unseen(d) = Unseen(c3)
    BY <2>2 DEF Unseen
  <2>4. ReadingHolds(d)
    BY <1>5, <2>2, <2>3 DEF ReadingHolds
  <2>5. IsRecorded(c.pending) /\ c.pending # 0
    BY <1>1, <1>2, <1>3, <1>7, MessagesNow DEF IsRecorded, OwnMessages, Kept
  <2>6. TextFollows(c, d)
    BY <2>2, <2>5 DEF TextFollows
  <2>11. d = Merge(c, new)
    BY DEF d
  <2>. QED  BY <1>1, <1>2, <1>3, <2>2, <2>4, <2>6, <2>11
<1>8. CASE ~(c3.pending # 0 /\ \E i \in c3.shown : Own(i) /\ messages[i].key = c3.pending)
  <2>1. Merge(c, new) = c3
    BY <1>6, <1>8 DEF Recognized
  <2>2. TextFollows(c, c3)
    BY <1>1, <1>2, <1>3 DEF TextFollows
  <2>. QED  BY <1>1, <1>2, <1>3, <1>5, <2>1, <2>2
<1>. QED  BY <1>7, <1>8

\* A page of the newest messages is without a hole, and is not empty when there are others.
LEMMA PageIs ==
    ASSUME ChatTypes, NEW b
    PROVE  /\ Page(b) \subseteq Kept /\ (Page(b) # OlderThan(b) => Page(b) # {})
           /\ Page(0) # OlderThan(0) => \A i \in Kept : i >= Min(Page(0)) => i \in Page(0)
           /\ Page(0) = OlderThan(0) => Page(0) = Kept
<1>1. PageSize \in Nat /\ 0 < PageSize
  BY ChatAssumption
<1>2. OlderThan(b) \in SUBSET Kept /\ OlderThan(0) = Kept /\ Page(b) \subseteq OlderThan(b) /\ Page(0) \subseteq Kept
  BY DEF OlderThan, Page
<1>3. ASSUME OlderThan(b) # {} PROVE Page(b) # {}
  <2>1. OlderThan(b) \in SUBSET (0..Len(messages)) /\ Len(messages) \in Nat
    BY <1>2, MessagesNow
  <2>. DEFINE n == Newest(OlderThan(b))
  <2>2. n \in OlderThan(b) /\ n \in Nat /\ \A m \in OlderThan(b) : m <= n
    BY <1>3, <2>1, NewestIsGreatest
  <2>. HIDE DEF n
  <2>3. {j \in OlderThan(b) : j > n} = {}
    BY <2>1, <2>2
  <2>4. n \in Page(b)
    BY <1>1, <2>2, <2>3, FS_EmptySet DEF Page
  <2>. QED  BY <2>4
<1>4. ASSUME Page(0) # OlderThan(0), NEW i \in Kept, i >= Min(Page(0)) PROVE i \in Page(0)
  <2>. DEFINE m == Min(Page(0))
  <2>1. Page(0) \in SUBSET Nat /\ i \in Nat
    BY <1>2, MessagesNow
  <2>2. Page(0) # {}
    <3>1. OlderThan(0) # {}
      BY <1>2, <1>4
    <3>2. Len(messages) \in Nat /\ OlderThan(0) \in SUBSET (0..Len(messages))
      BY <1>2, MessagesNow
    <3>. DEFINE n == Newest(OlderThan(0))
    <3>3. n \in OlderThan(0) /\ n \in Nat /\ \A k \in OlderThan(0) : k <= n
      BY <3>1, <3>2, NewestIsGreatest
    <3>. HIDE DEF n
    <3>4. {j \in OlderThan(0) : j > n} = {}
      BY <3>2, <3>3
    <3>. QED  BY <1>1, <3>3, <3>4, FS_EmptySet DEF Page
  <2>3. m \in Page(0)
    BY <2>1, <2>2, MinIsLeast
  <2>. DEFINE after(k) == {j \in Kept : j > k}
  <2>4. Cardinality(after(m)) < PageSize
    BY <1>2, <2>3 DEF Page
  <2>9. m \in Nat
    BY <2>1, <2>3
  <2>. HIDE DEF m
  <2>5. after(i) \subseteq after(m) /\ after(m) \in SUBSET Kept /\ after(i) \in SUBSET Kept
    <3>1. m <= i /\ Kept \subseteq Nat
      BY <1>4, MessagesNow DEF m
    <3>2. \A j \in Kept : j > i => j > m
      BY <2>1, <2>9, <3>1
    <3>3. after(i) \subseteq after(m)
      BY <3>2, Zenon
    <3>. QED  BY <3>3
  <2>. HIDE DEF after
  <2>6. IsFiniteSet(after(m)) /\ Cardinality(after(m)) \in Nat /\ Cardinality(after(i)) \in Nat
    BY <2>5, MessagesNow
  <2>7. Cardinality(after(i)) <= Cardinality(after(m))
    BY <2>5, <2>6, FS_Subset
  <2>8. Cardinality(after(i)) < PageSize
    BY <1>1, <2>4, <2>6, <2>7
  <2>. QED  BY <1>2, <2>8 DEF Page, after
<1>. QED  BY <1>2, <1>3, <1>4

LEMMA EmittedIs ==
    ASSUME ChatTypes, NEW es \in Seq(ChatEvents)
    PROVE  /\ Emitted(es) \in [up: BOOLEAN, events: Seq(ChatEvents)] /\ Emitted(es).up = link.up
           /\ ~link.up => Emitted(es) = link
           /\ link.up => /\ DOMAIN Emitted(es).events = 1..(Len(link.events) + Len(es))
                         /\ \A k \in DOMAIN link.events : Emitted(es).events[k] = link.events[k]
                         /\ \A k \in DOMAIN es : Emitted(es).events[Len(link.events) + k] = es[k]
           /\ DOMAIN link.events = 1..Len(link.events) /\ DOMAIN es = 1..Len(es) /\ Len(link.events) \in Nat /\ Len(es) \in Nat
<1>1. link.events \in Seq(ChatEvents) /\ link \in [up: BOOLEAN, events: Seq(ChatEvents)]
  BY DEF ChatTypes
<1>2. DOMAIN link.events = 1..Len(link.events) /\ DOMAIN es = 1..Len(es) /\ Len(link.events) \in Nat /\ Len(es) \in Nat
  BY <1>1
<1>. DEFINE all == link.events \o es
<1>3. all \in Seq(ChatEvents) /\ DOMAIN all = 1..(Len(link.events) + Len(es))
  BY <1>1
<1>4. (\A k \in 1..Len(link.events) : all[k] = link.events[k]) /\ \A k \in 1..Len(es) : all[Len(link.events) + k] = es[k]
  BY <1>1
<1>. HIDE DEF all
<1>5. CASE link.up
  <2>1. Emitted(es) = [link EXCEPT !.events = all]
    BY <1>5 DEF Emitted, all
  <2>2. Emitted(es) \in [up: BOOLEAN, events: Seq(ChatEvents)] /\ Emitted(es).up = link.up /\ Emitted(es).events = all
    BY <1>1, <1>3, <2>1
  <2>. QED  BY <1>2, <1>3, <1>4, <1>5, <2>2
<1>6. CASE ~link.up
  BY <1>1, <1>2, <1>6 DEF Emitted
<1>. QED  BY <1>5, <1>6

\* A page that is whole by itself.
PageIsFull(e) ==
    e.is = "page" /\ e.result = "ok" =>
        /\ e.more => e.messages # {}
        /\ e.call = chat.load.call /\ ~chat.load.older => \A i \in Kept : i >= Since(e) => i \in e.messages

LEMMA EmittingKeeps ==
    ASSUME ChatTypes, EventsHold, WindowIsCurrent, NEW es \in Seq(ChatEvents), link' = Emitted(es),
           messages' = messages, open' = open, chat' = chat, made' = made, chatRequests' \subseteq chatRequests, silent' \subseteq silent,
           \A i \in silent \ silent' : \E j \in DOMAIN es : es[j].is = "message" /\ i \in es[j].messages,
           link.up => \A j \in DOMAIN es : EventHolds(es[j])' /\ PageIsFull(es[j])
    PROVE  ChatTypes' /\ EventsHold' /\ WindowIsCurrent'
<1>. DEFINE n == Len(link.events)
<1>0. PICK ev : ev = link'.events
  OBVIOUS
<1>1. /\ link' \in [up: BOOLEAN, events: Seq(ChatEvents)] /\ link'.up = link.up /\ (~link.up => link' = link)
      /\ link.up => /\ DOMAIN ev = 1..(n + Len(es))
                    /\ \A k \in DOMAIN link.events : ev[k] = link.events[k]
                    /\ \A k \in DOMAIN es : ev[n + k] = es[k]
      /\ DOMAIN link.events = 1..n /\ DOMAIN es = 1..Len(es) /\ n \in Nat /\ Len(es) \in Nat
  BY <1>0, EmittedIs
<1>. HIDE DEF n
<1>2. Kept' = Kept /\ OwnMessages' = OwnMessages /\ (\A k : IsRecorded(k)' = IsRecorded(k)) /\ \A i : Own(i)' = Own(i)
  BY DEF Kept, OwnMessages, IsRecorded, Own
<1>3. ChatTypes'
  BY <1>1, <1>2 DEF ChatTypes
<1>4. \A e : Since(e)' = Since(e)
  BY DEF Since, Oldest
<1>5. \A e : RefusalIsFinal(e) => RefusalIsFinal(e)'
  BY <1>2 DEF RefusalIsFinal, IsRecorded, Asked
<1>6. \A e : EventHolds(e) => EventHolds(e)'
  BY <1>2, <1>5 DEF EventHolds
<1>7. CASE ~link.up
  <2>1. ~link'.up /\ ev = << >> /\ chat'.since = 0
    BY <1>0, <1>1, <1>7 DEF EventsHold
  <2>2. EventsHold'
    BY <1>0, <2>1 DEF EventsHold
  <2>. QED  BY <1>3, <2>1, <2>2 DEF WindowIsCurrent
<1>8. CASE link.up
  <2>1. ASSUME NEW i \in silent \ silent', NEW k \in DOMAIN link.events PROVE Announced(i, k, ev)
    <3>1. PICK j \in DOMAIN es : es[j].is = "message" /\ i \in es[j].messages
      BY <2>1
    <3>2. n + j \in DOMAIN ev /\ n + j > k /\ ev[n + j] = es[j]
      BY <1>1, <1>8, <3>1
    <3>. QED  BY <3>1, <3>2 DEF Announced
  <2>2. ASSUME NEW i, NEW k \in DOMAIN link.events, Announced(i, k, link.events) PROVE Announced(i, k, ev)
    <3>1. PICK j \in DOMAIN link.events : j > k /\ link.events[j].is = "message" /\ i \in link.events[j].messages
      BY <2>2 DEF Announced
    <3>2. j \in DOMAIN ev /\ ev[j] = link.events[j]
      BY <1>1, <1>8, <3>1
    <3>. QED  BY <3>1, <3>2 DEF Announced
  <2>3. ASSUME NEW k \in DOMAIN ev PROVE EventHolds(ev[k])' /\ PageIsWhole(k, ev)'
    <3>1. CASE k \in DOMAIN link.events
      <4>1. EventHolds(link.events[k]) /\ PageIsWhole(k, link.events) /\ ev[k] = link.events[k]
        BY <1>1, <1>8, <3>1 DEF EventsHold
      <4>. DEFINE e == link.events[k]
      <4>2. ASSUME e.is = "page", e.result = "ok", e.call = chat.load.call, ~chat.load.older, NEW i \in Kept, i >= Since(e)
            PROVE  i \in e.messages \cup silent' \/ Announced(i, k, ev)
        <5>1. i \in e.messages \cup silent \/ Announced(i, k, link.events)
          BY <4>1, <4>2 DEF PageIsWhole
        <5>. QED  BY <2>1, <2>2, <3>1, <5>1
      <4>3. e.is = "page" /\ e.result = "ok" => (e.more => e.messages # {})
        BY <4>1 DEF PageIsWhole
      <4>4. EventHolds(ev[k])'
        BY <1>6, <4>1
      <4>6. PageIsWhole(k, ev)'
        BY <1>2, <1>4, <4>1, <4>2, <4>3 DEF PageIsWhole, Announced
      <4>. QED  BY <4>4, <4>6
    <3>2. CASE k \notin DOMAIN link.events
      <4>1. PICK j \in DOMAIN es : ev[k] = es[j]
        <5>1. k - n \in DOMAIN es /\ ev[k] = es[k - n]
          BY <1>1, <1>8, <3>2
        <5>. QED  BY <5>1
      <4>2. EventHolds(es[j])' /\ PageIsFull(es[j])
        BY <1>8, <4>1
      <4>3. EventHolds(ev[k])'
        BY <4>1, <4>2
      <4>4. PageIsWhole(k, ev)'
        BY <1>2, <1>4, <4>1, <4>2 DEF PageIsWhole, PageIsFull
      <4>. QED  BY <4>3, <4>4
    <3>. QED  BY <3>1, <3>2
  <2>4. EventsHold'
    BY <1>0, <1>1, <1>8, <2>3 DEF EventsHold
  <2>5. ASSUME NEW i \in Kept, Told(i)' PROVE Told(i)
    <3>1. i \notin silent' /\ \A k \in DOMAIN ev : ~(ev[k].is = "message" /\ i \in ev[k].messages)
      BY <1>0, <2>5 DEF Told, OnItsWay
    <3>2. i \notin silent
      <4>. SUFFICES ASSUME i \in silent PROVE FALSE
        OBVIOUS
      <4>1. PICK j \in DOMAIN es : es[j].is = "message" /\ i \in es[j].messages
        BY <3>1
      <4>2. n + j \in DOMAIN ev /\ ev[n + j] = es[j]
        BY <1>1, <1>8, <4>1
      <4>. QED  BY <3>1, <4>1, <4>2
    <3>3. \A k \in DOMAIN link.events : k \in DOMAIN ev /\ ev[k] = link.events[k]
      BY <1>1, <1>8
    <3>. QED  BY <3>1, <3>2, <3>3 DEF Told, OnItsWay
  <2>6. WindowIsCurrent'
    BY <1>2, <1>8, <2>5 DEF WindowIsCurrent
  <2>. QED  BY <1>3, <2>4, <2>6
<1>. QED  BY <1>7, <1>8

LEMMA QuietKeeps ==
    ASSUME TextsHold, RequestsHold, ReadingHolds(chat),
           messages' = messages, open' = open, chat' = chat, made' = made, chatRequests' \subseteq chatRequests
    PROVE  TextsHold' /\ RequestsHold' /\ ReadingHolds(chat)'
<1>1. OwnMessages' = OwnMessages
  BY DEF OwnMessages, Own
<1>2. TextsHold'
  BY <1>1 DEF TextsHold
<1>3. RequestsHold'
  BY <1>1 DEF RequestsHold, IsRecorded, Asked
<1>4. ReadingHolds(chat)'
  BY DEF ReadingHolds, Unseen, Own
<1>. QED  BY <1>2, <1>3, <1>4

LEMMA AnnounceKeeps ==
    ASSUME ChatInv, NEW i \in DOMAIN messages, Announce(i)
    PROVE  ChatInv'
<1>. USE DEF ChatInv
<1>1. /\ i \in silent /\ silent' = silent \ {i} /\ link' = Emitted(<<MessageEvent(i)>>)
      /\ messages' = messages /\ open' = open /\ chatRequests' = chatRequests /\ chat' = chat /\ made' = made
  BY DEF Announce
<1>2. PICK e : e = MessageEvent(i)
  OBVIOUS
<1>3. i \in Kept /\ i \in Nat
  BY <1>1, MessagesNow DEF ChatTypes
<1>4. e \in ChatEvents /\ e.is = "message" /\ e.result = "ok" /\ e.messages = {i}
  BY <1>2, <1>3 DEF MessageEvent, ChatEvent, ChatEvents
<1>5. PICK es : es = <<e>>
  OBVIOUS
<1>6. es \in Seq(ChatEvents) /\ DOMAIN es = {1} /\ es[1] = e
  BY <1>4, <1>5
<1>7. Kept' = Kept
  BY <1>1 DEF Kept
<1>8. EventHolds(e)' /\ PageIsFull(e)
  BY <1>3, <1>4, <1>7 DEF EventHolds, RefusalIsFinal, PageIsFull
<1>9. link' = Emitted(es) /\ \A x \in silent \ silent' : \E j \in DOMAIN es : es[j].is = "message" /\ x \in es[j].messages
  BY <1>1, <1>2, <1>4, <1>5, <1>6
<1>10. ChatTypes' /\ EventsHold' /\ WindowIsCurrent'
  BY <1>1, <1>6, <1>8, <1>9, EmittingKeeps
<1>. QED  BY <1>1, <1>10, QuietKeeps

LEMMA ServeHistoryKeeps ==
    ASSUME ChatInv, NEW c \in chatRequests, ServeHistory(c)
    PROVE  ChatInv'
<1>. USE DEF ChatInv
<1>1. /\ c.is = "history" /\ chatRequests' = chatRequests \ {c} /\ silent' = silent
      /\ messages' = messages /\ open' = open /\ chat' = chat /\ made' = made
  BY DEF ServeHistory
<1>2. c.call \in Nat /\ c.call \in 1..made.requests
  BY DEF RequestsHold, ChatTypes, ChatRequests
<1>3. Kept' = Kept
  BY <1>1 DEF Kept
<1>4. PICK e : /\ link' = Emitted(<<e>>)
               /\ \/ e = ChatEvent("page", c.call, "ok", Page(c.before), Page(c.before) # OlderThan(c.before))
                  \/ e = ChatEvent("page", c.call, "unavailable", {}, FALSE)
  BY DEF ServeHistory
<1>5. e \in ChatEvents /\ e.is = "page" /\ e.call = c.call /\ EventHolds(e)' /\ PageIsFull(e)
  <2>1. CASE e = ChatEvent("page", c.call, "unavailable", {}, FALSE)
    <3>1. e \in ChatEvents /\ e.is = "page" /\ e.call = c.call /\ e.result = "unavailable"
      BY <1>2, <2>1 DEF ChatEvent, ChatEvents
    <3>. QED  BY <1>1, <1>2, <3>1 DEF EventHolds, RefusalIsFinal, PageIsFull
  <2>2. CASE e = ChatEvent("page", c.call, "ok", Page(c.before), Page(c.before) # OlderThan(c.before))
    <3>. DEFINE more == Page(c.before) # OlderThan(c.before)
    <3>1. Page(c.before) \subseteq Kept /\ Page(c.before) \in SUBSET Nat /\ more \in BOOLEAN
      BY PageIs, MessagesNow
    <3>. HIDE DEF more
    <3>2. e \in ChatEvents /\ e.is = "page" /\ e.call = c.call /\ e.result = "ok" /\ e.messages = Page(c.before) /\ e.more = more
      <4>. DEFINE page == Page(c.before)
      <4>1. e = [is |-> "page", call |-> c.call, result |-> "ok", messages |-> page, more |-> more] /\ page \in SUBSET Nat
        BY <2>2, <3>1 DEF ChatEvent, more
      <4>. HIDE DEF page
      <4>2. e \in ChatEvents /\ e.is = "page" /\ e.call = c.call /\ e.result = "ok" /\ e.messages = page
        BY <1>2, <3>1, <4>1 DEF ChatEvents
      <4>3. e.more = more
        BY <4>1, Zenon
      <4>. QED  BY <4>2, <4>3 DEF page
    <3>3. e.more => e.messages # {}
      BY <3>2, PageIs DEF more
    <3>4. ASSUME e.call = chat.load.call, ~chat.load.older, NEW i \in Kept, i >= Since(e) PROVE i \in e.messages
      <4>1. c.before = 0
        BY <1>1, <3>2, <3>4 DEF RequestsHold
      <4>2. CASE Page(0) = OlderThan(0)
        BY <3>2, <3>4, <4>1, <4>2, PageIs
      <4>3. CASE Page(0) # OlderThan(0)
        <5>1. i >= Min(Page(0))
          BY <3>2, <3>4, <4>1, <4>3 DEF Since, Oldest, more
        <5>. QED  BY <3>2, <4>1, <4>3, <5>1, PageIs
      <4>. QED  BY <4>2, <4>3
    <3>5. PageIsFull(e)
      BY <3>3, <3>4 DEF PageIsFull
    <3>. QED  BY <1>1, <1>2, <1>3, <3>1, <3>2, <3>5 DEF EventHolds, RefusalIsFinal
  <2>. QED  BY <1>4, <2>1, <2>2
<1>6. PICK es : es = <<e>>
  OBVIOUS
<1>7. es \in Seq(ChatEvents) /\ DOMAIN es = {1} /\ es[1] = e /\ link' = Emitted(es)
  BY <1>4, <1>5, <1>6
<1>8. ChatTypes' /\ EventsHold' /\ WindowIsCurrent'
  <2>1. chatRequests' \subseteq chatRequests /\ silent' \subseteq silent /\ silent \ silent' = {}
    BY <1>1
  <2>. QED  BY <1>1, <1>5, <1>7, <2>1, EmittingKeeps
<1>. QED  BY <1>1, <1>8, QuietKeeps

LEMMA AckIs ==
    ASSUME ChatInv, NEW c \in chatRequests, NEW i \in Nat, NEW result \in {"ok", "refused", "unavailable"}
    PROVE  /\ Ack(c, result, i) \in ChatEvents /\ Ack(c, result, i).is = "ack" /\ Ack(c, result, i).call = c.call
           /\ Ack(c, result, i).result = result /\ Ack(c, result, i).messages = {i} /\ c.call \in 1..made.requests
<1>1. c.call \in Nat /\ c.call \in 1..made.requests
  BY DEF ChatInv, RequestsHold, ChatTypes, ChatRequests
<1>. QED  BY <1>1 DEF Ack, ChatEvent, ChatEvents

LEMMA OwnAreKept ==
    ASSUME ChatInv
    PROVE  OwnMessages \subseteq Kept /\ \A c : Earlier(c) = {} => ~IsRecorded(c.key)
<1>1. OwnMessages \subseteq Kept
  BY DEF ChatInv, TextsHold, OwnMessages, Kept
<1>2. ASSUME NEW c, Earlier(c) = {} PROVE ~IsRecorded(c.key)
  BY <1>1, <1>2 DEF Earlier, IsRecorded, OwnMessages
<1>. QED  BY <1>1, <1>2

LEMMA ServeSendKeeps ==
    ASSUME ChatInv, NEW c \in chatRequests, ServeSend(c)
    PROVE  ChatInv'
<1>1. /\ Asked(c) /\ chatRequests' = chatRequests \ {c} /\ silent' = silent
      /\ messages' = messages /\ open' = open /\ chat' = chat /\ made' = made
      /\ \A d \in chatRequests : d.is = "send" /\ d.call < c.call => d.stage # "asked"
  BY DEF ServeSend, FirstSend, Asked
<1>2. Kept' = Kept /\ OwnMessages' = OwnMessages /\ \A k : IsRecorded(k)' = IsRecorded(k)
  BY <1>1 DEF Kept, OwnMessages, Own, IsRecorded
<1>3. PICK e \in ChatEvents : link' = Emitted(<<e>>) /\ e.is = "ack" /\ EventHolds(e)'
  <2>1. CASE Repeats(c)
    <3>1. PICK i \in Earlier(c) : link' = Emitted(<<Ack(c, "ok", i)>>)
      BY <2>1 DEF Repeats
    <3>2. i \in Kept /\ i \in Nat
      BY <3>1, MessagesNow DEF Earlier, ChatInv
    <3>3. PICK e : e = Ack(c, "ok", i)
      OBVIOUS
    <3>4. e \in ChatEvents /\ e.is = "ack" /\ e.call \in 1..made.requests /\ e.result = "ok" /\ e.messages = {i}
      BY <3>2, <3>3, AckIs
    <3>5. EventHolds(e)'
      BY <1>1, <1>2, <3>2, <3>4 DEF EventHolds, RefusalIsFinal
    <3>. QED  BY <3>1, <3>3, <3>4, <3>5
  <2>2. CASE Refuses(c)
    <3>1. Earlier(c) = {} /\ link' = Emitted(<<Ack(c, "refused", 0)>>)
      BY <2>2 DEF Refuses
    <3>2. PICK e : e = Ack(c, "refused", 0)
      OBVIOUS
    <3>3. e \in ChatEvents /\ e.is = "ack" /\ e.call = c.call /\ e.call \in 1..made.requests /\ e.result = "refused"
      BY <3>2, AckIs
    <3>4. ~IsRecorded(c.key) /\ c.key = chat.pending
      BY <1>1, <3>1, OwnAreKept DEF ChatInv, RequestsHold
    <3>5. ASSUME c.call = chat.call, NEW d \in chatRequests, Asked(d) PROVE d = c
      <4>1. d.call \in Nat /\ c.call \in Nat /\ c.call # 0
        BY AckIs DEF ChatInv, ChatTypes, ChatRequests, RequestsHold
      <4>2. d.call <= c.call
        BY <3>5, <4>1 DEF ChatInv, RequestsHold
      <4>3. ~(d.call < c.call)
        BY <1>1, <3>5 DEF Asked
      <4>. QED  BY <4>1, <4>2, <4>3 DEF ChatInv, RequestsHold
    <3>6. RefusalIsFinal(e)'
      BY <1>1, <1>2, <3>3, <3>4, <3>5 DEF RefusalIsFinal, Asked
    <3>7. EventHolds(e)'
      BY <1>1, <3>3, <3>6 DEF EventHolds
    <3>. QED  BY <3>1, <3>2, <3>3, <3>7
  <2>3. CASE Fails(c)
    <3>1. PICK e : e = Ack(c, "unavailable", 0)
      OBVIOUS
    <3>2. e \in ChatEvents /\ e.is = "ack" /\ e.call \in 1..made.requests /\ e.result = "unavailable"
      BY <3>1, AckIs
    <3>3. EventHolds(e)'
      BY <1>1, <3>2 DEF EventHolds, RefusalIsFinal
    <3>. QED  BY <2>3, <3>1, <3>2, <3>3 DEF Fails
  <2>. QED  BY <2>1, <2>2, <2>3 DEF ServeSend
<1>4. PICK es : es = <<e>>
  OBVIOUS
<1>5. es \in Seq(ChatEvents) /\ DOMAIN es = {1} /\ es[1] = e /\ link' = Emitted(es)
  BY <1>3, <1>4
<1>6. ChatTypes' /\ EventsHold' /\ WindowIsCurrent'
  <2>1. chatRequests' \subseteq chatRequests /\ silent' \subseteq silent /\ silent \ silent' = {}
    BY <1>1
  <2>2. PageIsFull(e)
    BY <1>3 DEF PageIsFull
  <2>. QED  BY <1>1, <1>3, <1>5, <2>1, <2>2, EmittingKeeps DEF ChatInv
<1>. QED  BY <1>1, <1>6, QuietKeeps DEF ChatInv

LEMMA AnswerCreatedKeeps ==
    ASSUME ChatInv, NEW c \in chatRequests, AnswerCreated(c)
    PROVE  ChatInv'
<1>1. /\ c.is = "send" /\ c.stage = "created" /\ chatRequests' = chatRequests \ {c}
      /\ messages' = messages /\ open' = open /\ chat' = chat /\ made' = made
  BY DEF AnswerCreated
<1>2. Kept' = Kept
  BY <1>1 DEF Kept
<1>3. c.row \in Kept /\ c.row \in Nat
  BY <1>1, OwnAreKept, MessagesNow DEF ChatInv, RequestsHold
<1>4. PICK es \in Seq(ChatEvents) :
          /\ link' = Emitted(es) /\ \A j \in DOMAIN es : EventHolds(es[j])' /\ PageIsFull(es[j])
          /\ silent' \subseteq silent /\ \A i \in silent \ silent' : \E j \in DOMAIN es : es[j].is = "message" /\ i \in es[j].messages
  <2>1. CASE silent' = silent \ {c.row} /\ link' = Emitted(<<MessageEvent(c.row), Ack(c, "ok", c.row)>>)
    <3>1. PICK e, f : e = MessageEvent(c.row) /\ f = Ack(c, "ok", c.row)
      OBVIOUS
    <3>2. e \in ChatEvents /\ e.is = "message" /\ e.result = "ok" /\ e.messages = {c.row}
      BY <1>3, <3>1 DEF MessageEvent, ChatEvent, ChatEvents
    <3>3. f \in ChatEvents /\ f.is = "ack" /\ f.call \in 1..made.requests /\ f.result = "ok" /\ f.messages = {c.row}
      BY <1>3, <3>1, AckIs
    <3>4. EventHolds(e)' /\ PageIsFull(e)
      BY <1>2, <1>3, <3>2 DEF EventHolds, RefusalIsFinal, PageIsFull
    <3>5. EventHolds(f)' /\ PageIsFull(f)
      BY <1>1, <1>2, <1>3, <3>3 DEF EventHolds, RefusalIsFinal, PageIsFull
    <3>6. PICK es : es = <<e, f>>
      OBVIOUS
    <3>7. es \in Seq(ChatEvents) /\ DOMAIN es = {1, 2} /\ es[1] = e /\ es[2] = f
      BY <3>2, <3>3, <3>6
    <3>8. link' = Emitted(es)
      BY <2>1, <3>1, <3>6
    <3>9. \A i \in silent \ silent' : 1 \in DOMAIN es /\ es[1].is = "message" /\ i \in es[1].messages
      BY <2>1, <3>2, <3>7
    <3>10. \A j \in DOMAIN es : EventHolds(es[j])' /\ PageIsFull(es[j])
      BY <3>4, <3>5, <3>7
    <3>. QED  BY <2>1, <3>7, <3>8, <3>9, <3>10
  <2>2. CASE silent' = silent /\ Fails(c)
    <3>1. PICK e : e = Ack(c, "unavailable", 0)
      OBVIOUS
    <3>2. e \in ChatEvents /\ e.is = "ack" /\ e.call \in 1..made.requests /\ e.result = "unavailable"
      BY <3>1, AckIs
    <3>3. EventHolds(e)' /\ PageIsFull(e)
      BY <1>1, <3>2 DEF EventHolds, RefusalIsFinal, PageIsFull
    <3>4. PICK es : es = <<e>>
      OBVIOUS
    <3>5. es \in Seq(ChatEvents) /\ DOMAIN es = {1} /\ es[1] = e /\ link' = Emitted(es)
      BY <2>2, <3>1, <3>2, <3>4 DEF Fails
    <3>. QED  BY <2>2, <3>3, <3>5
  <2>. QED  BY <2>1, <2>2 DEF AnswerCreated
<1>5. ChatTypes' /\ EventsHold' /\ WindowIsCurrent'
  BY <1>1, <1>4, EmittingKeeps DEF ChatInv
<1>. QED  BY <1>1, <1>5, QuietKeeps DEF ChatInv

\* What is on its way keeps holding while nothing is sent or heard.
LEMMA NothingHeardKeeps ==
    ASSUME ChatTypes, EventsHold, WindowIsCurrent, link' = link, made' \in [requests: Nat, texts: Nat, breaks: Nat],
           Kept \subseteq Kept', silent \subseteq silent', Kept' \ Kept \subseteq silent', made.requests <= made'.requests,
           chat'.since = chat.since, chat'.shown = chat.shown, chat'.load.call <= made'.requests,
           \A n \in 1..made.requests : n = chat'.load.call => chat'.load = chat.load,
           \A e : e.call \in 1..made.requests /\ RefusalIsFinal(e) => RefusalIsFinal(e)'
    PROVE  EventsHold' /\ WindowIsCurrent'
<1>1. PICK events : events = link.events /\ link'.events = events
  OBVIOUS
<1>2. ASSUME NEW k \in DOMAIN events PROVE EventHolds(events[k])' /\ PageIsWhole(k, events)'
  <2>. DEFINE e == events[k]
  <2>1. EventHolds(e) /\ PageIsWhole(k, events)
    BY <1>1, <1>2 DEF EventsHold
  <2>2. e.is # "message" => e.call \in 1..made'.requests /\ e.call \in 1..made.requests
    BY <2>1 DEF EventHolds, ChatTypes
  <2>3. RefusalIsFinal(e)'
    BY <2>1, <2>2 DEF EventHolds, RefusalIsFinal
  <2>4. EventHolds(e)'
    BY <2>1, <2>2, <2>3 DEF EventHolds
  <2>5. Since(e)' = Since(e)
    BY DEF Since, Oldest
  <2>6. ASSUME e.is = "page", e.result = "ok", e.call = chat'.load.call, ~chat'.load.older, NEW i \in Kept', i >= Since(e)
        PROVE  i \in e.messages \cup silent' \/ Announced(i, k, events)
    <3>1. chat'.load = chat.load
      BY <2>2, <2>6
    <3>2. CASE i \in Kept
      BY <2>1, <2>6, <3>1, <3>2 DEF PageIsWhole
    <3>3. CASE i \notin Kept
      BY <2>6, <3>3
    <3>. QED  BY <3>2, <3>3
  <2>7. PageIsWhole(k, events)'
    BY <2>1, <2>5, <2>6 DEF PageIsWhole, Announced
  <2>. QED  BY <2>4, <2>7
<1>3. EventsHold'
  BY <1>1, <1>2 DEF EventsHold
<1>4. WindowIsCurrent'
  <2>1. \A i \in Kept' : Told(i)' => i \in Kept /\ Told(i)
    BY DEF Told, OnItsWay
  <2>. QED  BY <2>1 DEF WindowIsCurrent
<1>. QED  BY <1>3, <1>4

LEMMA WriteKeeps ==
    ASSUME ChatInv, Write
    PROVE  ChatInv'
<1>0. PICK n \in Nat : n = Len(messages) + 1
  BY MessagesNow DEF ChatInv
<1>. DEFINE m == [from |-> "other", key |-> 0, text |-> 0]
<1>1. /\ messages' = Append(messages, m) /\ open' = open \cup {n} /\ silent' = silent /\ chatRequests' = chatRequests
      /\ link' = link /\ chat' = chat /\ made' = made
  BY <1>0 DEF Write
<1>2. m \in ChatMessage /\ m.from = "other"
  BY DEF ChatMessage
<1>. HIDE DEF m
<1>3. /\ messages' \in Seq(ChatMessage) /\ DOMAIN messages' = DOMAIN messages \cup {n} /\ n \notin DOMAIN messages
      /\ (\A i \in DOMAIN messages : messages'[i] = messages[i] /\ Own(i)' = Own(i)) /\ messages'[n] = m
  BY <1>0, <1>1, <1>2, MessageAppended DEF ChatInv
<1>4. Kept' = Kept /\ OwnMessages' = OwnMessages
  <2>1. ~Own(n)'
    BY <1>2, <1>3 DEF Own
  <2>. QED  BY <1>1, <1>3, <2>1 DEF Kept, OwnMessages
<1>5. OwnMessages \subseteq DOMAIN messages /\ chat.shown \subseteq DOMAIN messages
  BY DEF OwnMessages, ChatInv, ChatTypes, Kept
<1>6. ChatTypes'
  BY <1>1, <1>3, <1>4 DEF ChatInv, ChatTypes
<1>7. TextsHold'
  <2>1. \A i \in OwnMessages : messages'[i] = messages[i]
    BY <1>3, <1>5
  <2>2. OwnMessages' \cap open' = {}
    BY <1>1, <1>3, <1>4, <1>5 DEF ChatInv, TextsHold
  <2>6. chat' = chat /\ made' = made
    BY <1>1
  <2>3. ASSUME NEW t \in 1..made'.texts, t # chat'.draft PROVE \E i \in OwnMessages' : messages'[i].text = t
    <3>1. PICK i \in OwnMessages : messages[i].text = t
      BY <2>3, <2>6 DEF ChatInv, TextsHold
    <3>. QED  BY <1>4, <2>1, <3>1
  <2>4. \A i \in OwnMessages' :
           /\ messages'[i].text \in 1..made'.texts /\ messages'[i].key \in 1..made'.requests
           /\ messages'[i].text = chat'.draft <=> messages'[i].key = chat'.pending
    BY <1>4, <2>1, <2>6 DEF ChatInv, TextsHold
  <2>5. \A i, j \in OwnMessages' : messages'[i].text = messages'[j].text \/ messages'[i].key = messages'[j].key => i = j
    BY <1>4, <2>1 DEF ChatInv, TextsHold
  <2>. QED  BY <1>1, <2>2, <2>3, <2>4, <2>5 DEF ChatInv, TextsHold
<1>8. \A k : IsRecorded(k)' = IsRecorded(k)
  BY <1>3, <1>4, <1>5 DEF IsRecorded
<1>9. RequestsHold'
  BY <1>1, <1>4, <1>8 DEF ChatInv, RequestsHold, Asked
<1>10. EventsHold' /\ WindowIsCurrent'
  <2>1. \A e : RefusalIsFinal(e) => RefusalIsFinal(e)'
    BY <1>1, <1>8 DEF RefusalIsFinal, Asked
  <2>2. made' \in [requests: Nat, texts: Nat, breaks: Nat] /\ made.requests <= made'.requests /\ chat'.load.call <= made'.requests
    BY <1>1 DEF ChatInv, ChatTypes, EventsHold
  <2>. QED  BY <1>1, <1>4, <2>1, <2>2, NothingHeardKeeps DEF ChatInv
<1>11. ReadingHolds(chat)'
  BY <1>1, <1>3, <1>5 DEF ChatInv, ReadingHolds, Unseen
<1>. QED  BY <1>6, <1>7, <1>9, <1>10, <1>11 DEF ChatInv

LEMMA CommitMessageKeeps ==
    ASSUME ChatInv, NEW i \in DOMAIN messages, CommitMessage(i)
    PROVE  ChatInv'
<1>1. /\ i \in open /\ open' = open \ {i} /\ silent' = silent \cup {i} /\ messages' = messages
      /\ chatRequests' = chatRequests /\ link' = link /\ chat' = chat /\ made' = made
  BY DEF CommitMessage
<1>2. Kept' = Kept \cup {i} /\ OwnMessages' = OwnMessages /\ \A k : IsRecorded(k)' = IsRecorded(k)
  BY <1>1 DEF Kept, OwnMessages, Own, IsRecorded
<1>3. ChatTypes'
  BY <1>1, <1>2 DEF ChatInv, ChatTypes
<1>4. TextsHold'
  BY <1>1, <1>2 DEF ChatInv, TextsHold
<1>5. RequestsHold'
  BY <1>1, <1>2 DEF ChatInv, RequestsHold, Asked
<1>6. EventsHold' /\ WindowIsCurrent'
  <2>1. \A e : RefusalIsFinal(e) => RefusalIsFinal(e)'
    BY <1>1, <1>2 DEF RefusalIsFinal, Asked
  <2>2. made' \in [requests: Nat, texts: Nat, breaks: Nat] /\ made.requests <= made'.requests /\ chat'.load.call <= made'.requests
    BY <1>1 DEF ChatInv, ChatTypes, EventsHold
  <2>. QED  BY <1>1, <1>2, <2>1, <2>2, NothingHeardKeeps DEF ChatInv
<1>7. ReadingHolds(chat)'
  BY <1>1 DEF ChatInv, ReadingHolds, Unseen, Own
<1>. QED  BY <1>3, <1>4, <1>5, <1>6, <1>7 DEF ChatInv

LEMMA OwnDiffer ==
    ASSUME ChatInv
    PROVE  \A i, j \in OwnMessages : messages[i].text = messages[j].text \/ messages[i].key = messages[j].key => i = j
<1>1. TextsHold
  BY DEF ChatInv
<1>2. QED
  BY <1>1 DEF TextsHold

LEMMA InsertKeeps ==
    ASSUME ChatInv, NEW c \in chatRequests, Insert(c)
    PROVE  ChatInv'
<1>0. PICK n \in Nat : n = Len(messages) + 1
  BY MessagesNow DEF ChatInv
<1>. DEFINE m == [from |-> "me", key |-> c.key, text |-> c.text]
            c1 == [c EXCEPT !.stage = "created"]
            d == [c1 EXCEPT !.row = n]
<1>1. /\ messages' = Append(messages, m) /\ silent' = silent \cup {n} /\ chatRequests' = (chatRequests \ {c}) \cup {d}
      /\ Asked(c) /\ Earlier(c) = {} /\ open' = open /\ link' = link /\ chat' = chat /\ made' = made
  BY <1>0 DEF Insert, FirstSend, Asked
<1>2. c \in ChatRequests /\ n \in Nat /\ c.is = "send" /\ c.stage = "asked" /\ c.call \in 1..made.requests
  BY <1>1, MessagesNow DEF ChatInv, ChatTypes, RequestsHold, Asked
<1>3. m \in ChatMessage /\ m.from = "me" /\ m.key = c.key /\ m.text = c.text
  BY <1>2 DEF ChatMessage, ChatRequests
<1>4. d \in ChatRequests /\ d.is = "send" /\ d.stage = "created" /\ d.row = n /\ d.call = c.call
  <2>1. c1 \in ChatRequests /\ c1.is = "send" /\ c1.stage = "created" /\ c1.call = c.call
    BY <1>2 DEF ChatRequests
  <2>. HIDE DEF c1
  <2>. QED  BY <1>2, <2>1 DEF ChatRequests
<1>. HIDE DEF m, c1, d
<1>5. /\ messages' \in Seq(ChatMessage) /\ DOMAIN messages' = DOMAIN messages \cup {n} /\ n \notin DOMAIN messages
      /\ (\A i \in DOMAIN messages : messages'[i] = messages[i] /\ Own(i)' = Own(i)) /\ messages'[n] = m
  BY <1>0, <1>1, <1>3, MessageAppended DEF ChatInv
<1>6. OwnMessages \subseteq DOMAIN messages /\ chat.shown \subseteq DOMAIN messages /\ open \subseteq DOMAIN messages
  BY DEF OwnMessages, ChatInv, ChatTypes, Kept
<1>7. Kept' = Kept \cup {n} /\ OwnMessages' = OwnMessages \cup {n} /\ Own(n)'
  <2>1. Own(n)'
    BY <1>3, <1>5 DEF Own
  <2>. QED  BY <1>1, <1>5, <1>6, <2>1 DEF Kept, OwnMessages
<1>8. /\ ~IsRecorded(c.key) /\ c.key = chat.pending /\ c.text = chat.draft
      /\ c.key \in 1..made.requests /\ c.text \in 1..made.texts
  BY <1>1, OwnAreKept DEF ChatInv, RequestsHold
<1>9. \A k : IsRecorded(k)' <=> IsRecorded(k) \/ k = c.key
  <2>1. \A i \in OwnMessages : messages'[i] = messages[i]
    BY <1>5, <1>6
  <2>. QED  BY <1>3, <1>5, <1>7, <2>1 DEF IsRecorded
<1>10. ChatTypes'
  BY <1>1, <1>2, <1>4, <1>5, <1>7 DEF ChatInv, ChatTypes
<1>11. TextsHold'
  <2>1. \A i \in OwnMessages : messages'[i] = messages[i] /\ messages[i].text # c.text /\ messages[i].key # c.key
    BY <1>5, <1>6, <1>8 DEF ChatInv, TextsHold, IsRecorded
  <2>2. messages'[n].text = c.text /\ messages'[n].key = c.key
    BY <1>3, <1>5
  <2>3. OwnMessages' \cap open' = {}
    BY <1>1, <1>5, <1>6, <1>7 DEF ChatInv, TextsHold
  <2>4. \A i \in OwnMessages' :
           /\ messages'[i].text \in 1..made'.texts /\ messages'[i].key \in 1..made'.requests
           /\ messages'[i].text = chat'.draft <=> messages'[i].key = chat'.pending
    <3>1. \A i \in OwnMessages :
             /\ messages[i].text \in 1..made.texts /\ messages[i].key \in 1..made.requests
             /\ messages[i].text = chat.draft <=> messages[i].key = chat.pending
      BY DEF ChatInv, TextsHold
    <3>2. \A i \in OwnMessages' : i = n \/ i \in OwnMessages
      BY <1>7
    <3>. QED  BY <1>1, <1>8, <2>1, <2>2, <3>1, <3>2
  <2>5. \A i, j \in OwnMessages' : messages'[i].text = messages'[j].text \/ messages'[i].key = messages'[j].key => i = j
    <3>1. \A i, j \in OwnMessages : messages[i].text = messages[j].text \/ messages[i].key = messages[j].key => i = j
      BY OwnDiffer
    <3>2. \A i \in OwnMessages' : i = n \/ i \in OwnMessages
      BY <1>7
    <3>. QED  BY <2>1, <2>2, <3>1, <3>2
  <2>6. ASSUME NEW t \in 1..made'.texts, t # chat'.draft PROVE \E i \in OwnMessages' : messages'[i].text = t
    <3>1. PICK i \in OwnMessages : messages[i].text = t
      BY <1>1, <2>6 DEF ChatInv, TextsHold
    <3>. QED  BY <1>7, <2>1, <3>1
  <2>. QED  BY <1>1, <2>3, <2>4, <2>5, <2>6 DEF ChatInv, TextsHold
<1>12. RequestsHold'
  <2>1. \A x \in chatRequests' : x = d \/ (x \in chatRequests /\ x # c)
    BY <1>1
  <2>2. ASSUME NEW x \in chatRequests', NEW y \in chatRequests', x.call = y.call PROVE x = y
    BY <1>4, <2>1, <2>2 DEF ChatInv, RequestsHold
  <2>3. ASSUME NEW x \in chatRequests', Asked(x)
        PROVE  /\ x.key \in 1..made'.requests /\ x.text \in 1..made'.texts
               /\ (x.key = chat'.pending /\ x.text = chat'.draft) \/ IsRecorded(x.key)'
               /\ chat'.call # 0 => x.call <= chat'.call
    BY <1>1, <1>4, <1>9, <2>1, <2>3 DEF ChatInv, RequestsHold, Asked
  <2>4. ASSUME NEW x \in chatRequests', x.is = "send", x.stage = "created" PROVE x.row \in OwnMessages'
    BY <1>4, <1>7, <2>1, <2>4 DEF ChatInv, RequestsHold
  <2>5. ASSUME NEW x \in chatRequests', x.is = "history", x.call = chat'.load.call, ~chat'.load.older PROVE x.before = 0
    BY <1>1, <1>4, <2>1, <2>5 DEF ChatInv, RequestsHold
  <2>6. \A x \in chatRequests' : x.call \in 1..made'.requests
    BY <1>1, <1>2, <1>4, <2>1 DEF ChatInv, RequestsHold
  <2>. QED  BY <2>2, <2>3, <2>4, <2>5, <2>6 DEF RequestsHold, Asked
<1>13. EventsHold' /\ WindowIsCurrent'
  <2>1. ASSUME NEW e, RefusalIsFinal(e) PROVE RefusalIsFinal(e)'
    <3>1. ~(e.is = "ack" /\ e.result = "refused" /\ e.call = chat.call)
      BY <1>1, <1>8, <2>1 DEF RefusalIsFinal
    <3>. QED  BY <1>1, <3>1 DEF RefusalIsFinal
  <2>2. made' \in [requests: Nat, texts: Nat, breaks: Nat] /\ made.requests <= made'.requests /\ chat'.load.call <= made'.requests
    BY <1>1 DEF ChatInv, ChatTypes, EventsHold
  <2>. QED  BY <1>1, <1>7, <2>1, <2>2, NothingHeardKeeps DEF ChatInv
<1>14. ReadingHolds(chat)'
  BY <1>1, <1>5, <1>6 DEF ChatInv, ReadingHolds, Unseen
<1>. QED  BY <1>10, <1>11, <1>12, <1>13, <1>14 DEF ChatInv

\* What the browser does by itself: the table and the socket are as they were.
LEMMA TableStands ==
    ASSUME messages' = messages, open' = open
    PROVE  Kept' = Kept /\ OwnMessages' = OwnMessages /\ (\A k : IsRecorded(k)' = IsRecorded(k)) /\ \A i : Own(i)' = Own(i)
BY DEF Kept, OwnMessages, Own, IsRecorded

LEMMA RefusalsStand ==
    ASSUME messages' = messages, open' = open, chat'.pending = chat.pending, chat'.call \in {chat.call, 0},
           \A x \in chatRequests' : Asked(x) => x \in chatRequests
    PROVE  \A e : e.call \in 1..made.requests /\ RefusalIsFinal(e) => RefusalIsFinal(e)'
<1>. SUFFICES ASSUME NEW e, e.call \in 1..made.requests, RefusalIsFinal(e) PROVE RefusalIsFinal(e)'
  OBVIOUS
<1>1. e.call # 0
  OBVIOUS
<1>2. e.call = chat'.call => e.call = chat.call
  BY <1>1
<1>. QED  BY <1>2, TableStands DEF RefusalIsFinal, Asked

LEMMA ReadingStands ==
    ASSUME messages' = messages, open' = open, ReadingHolds(chat), chat'.shown = chat.shown, chat'.seen = chat.seen,
           chat'.unread = chat.unread, chat'.visible = chat.visible
    PROVE  ReadingHolds(chat)'
<1>1. Unseen(chat)' = Unseen(chat)
  BY TableStands DEF Unseen
<1>. QED  BY <1>1 DEF ReadingHolds

ChatRequestHistory(n, before) == [is |-> "history", stage |-> "asked", call |-> n, before |-> before, key |-> 0, text |-> 0, row |-> 0]

LEMMA AskHistoryKeeps ==
    ASSUME ChatInv, NEW c \in ChatStates, NEW older \in BOOLEAN, AskHistory(c, older), older => c.shown # {},
           c.shown = chat.shown, c.pending = chat.pending, c.draft = chat.draft, c.call \in {chat.call, 0}, c.since = chat.since,
           c.seen = chat.seen, c.unread = chat.unread, c.visible = chat.visible, link.up,
           messages' = messages, open' = open, silent' = silent, link' = link
    PROVE  ChatInv'
<1>0. PICK n \in Nat : n = made.requests + 1
  BY DEF ChatInv, ChatTypes
<1>. DEFINE before == IF older THEN Min(c.shown) ELSE 0
            h == ChatRequestHistory(n, before)
            l == [call |-> n, older |-> older, newest |-> Newest(c.shown)]
            d1 == [c EXCEPT !.failed = FALSE]
            d == [d1 EXCEPT !.load = l]
<1>1. chatRequests' = chatRequests \cup {h} /\ made' = [made EXCEPT !.requests = n] /\ chat' = d
  BY <1>0 DEF AskHistory, ChatRequest, ChatRequestHistory
<1>2. made' \in [requests: Nat, texts: Nat, breaks: Nat] /\ made'.requests = n /\ made'.texts = made.texts
  BY <1>1 DEF ChatInv, ChatTypes
<1>3. c.shown \in SUBSET (0..Len(messages)) /\ Len(messages) \in Nat /\ c.shown \in SUBSET Nat
  BY MessagesNow DEF ChatInv, ChatTypes
<1>4. before \in Nat /\ (~older => before = 0)
  BY <1>3, MinIsLeast
<1>5. l \in ChatLoads /\ l.call = n /\ l.older = older
  <2>1. PICK m \in Nat : m = Newest(c.shown)
    BY <1>3, NewestIsGreatest
  <2>4. l = [call |-> n, older |-> older, newest |-> m]
    BY <2>1
  <2>2. l \in ChatLoads /\ l.call = n
    <3>. HIDE DEF l
    <3>. QED  BY <2>4 DEF ChatLoads
  <2>3. l.older = older
    BY Zenon
  <2>. QED  BY <2>2, <2>3
<1>. HIDE DEF before
<1>6. /\ h \in ChatRequests /\ h.is = "history" /\ h.call = n /\ (~older => h.before = 0)
  <2>. HIDE DEF h
  <2>. QED  BY <1>4 DEF ChatRequests, ChatRequestHistory, h
<1>. HIDE DEF h, l
<1>7. /\ d \in ChatStates /\ d.shown = chat.shown /\ d.pending = chat.pending /\ d.draft = chat.draft /\ d.call \in {chat.call, 0}
      /\ d.since = chat.since /\ d.seen = chat.seen /\ d.unread = chat.unread /\ d.visible = chat.visible /\ d.load = l
  <2>1. /\ d1 \in ChatStates /\ d1.shown = c.shown /\ d1.pending = c.pending /\ d1.draft = c.draft /\ d1.call = c.call
        /\ d1.since = c.since /\ d1.seen = c.seen /\ d1.unread = c.unread /\ d1.visible = c.visible
    BY DEF ChatStates
  <2>. HIDE DEF d1
  <2>2. /\ d \in ChatStates /\ d.shown = d1.shown /\ d.pending = d1.pending /\ d.draft = d1.draft /\ d.call = d1.call
        /\ d.since = d1.since /\ d.seen = d1.seen /\ d.unread = d1.unread /\ d.visible = d1.visible /\ d.load = l
    BY <1>5, <2>1 DEF ChatStates
  <2>. QED  BY <2>1, <2>2
<1>. HIDE DEF d
<1>8. Kept' = Kept /\ OwnMessages' = OwnMessages /\ \A k : IsRecorded(k)' = IsRecorded(k)
  BY TableStands
<1>9. ChatTypes'
  BY <1>1, <1>2, <1>6, <1>7, <1>8 DEF ChatInv, ChatTypes
<1>10. made.requests \in Nat /\ made.requests < n /\ chat.call \in Nat /\ chat.pending \in Nat
  BY <1>0 DEF ChatInv, ChatTypes, ChatStates
<1>11. TextsHold'
  <2>1. \A i \in OwnMessages : messages[i].key \in 1..n
    BY <1>0, <1>10 DEF ChatInv, TextsHold
  <2>. QED  BY <1>1, <1>2, <1>7, <1>8, <1>10, <2>1 DEF ChatInv, TextsHold
<1>12. RequestsHold'
  <2>1. \A x \in chatRequests : x.call # n /\ x.call \in 1..n
    BY <1>0, <1>10 DEF ChatInv, RequestsHold
  <2>2. \A x \in chatRequests' : x.call \in 1..made'.requests
    BY <1>1, <1>2, <1>6, <1>10, <2>1
  <2>3. \A x, y \in chatRequests' : x.call = y.call => x = y
    BY <1>1, <1>6, <2>1 DEF ChatInv, RequestsHold
  <2>4. ASSUME NEW x \in chatRequests', Asked(x)
        PROVE  /\ x.key \in 1..made'.requests /\ x.text \in 1..made'.texts
               /\ (x.key = chat'.pending /\ x.text = chat'.draft) \/ IsRecorded(x.key)'
               /\ chat'.call # 0 => x.call <= chat'.call
    <3>1. x \in chatRequests
      BY <1>1, <1>6, <2>4 DEF Asked
    <3>2. x.key \in 1..made.requests /\ x.text \in 1..made.texts /\ (chat.call # 0 => x.call <= chat.call)
          /\ ((x.key = chat.pending /\ x.text = chat.draft) \/ IsRecorded(x.key))
      BY <2>4, <3>1 DEF ChatInv, RequestsHold
    <3>3. chat'.call # 0 => chat'.call = chat.call
      BY <1>1, <1>7
    <3>. QED  BY <1>1, <1>2, <1>7, <1>8, <1>10, <3>2, <3>3
  <2>5. \A x \in chatRequests' : x.is = "send" /\ x.stage = "created" => x.row \in OwnMessages'
    BY <1>1, <1>6, <1>8 DEF ChatInv, RequestsHold
  <2>6. \A x \in chatRequests' : x.is = "history" /\ x.call = chat'.load.call /\ ~chat'.load.older => x.before = 0
    BY <1>1, <1>5, <1>6, <1>7, <2>1
  <2>. QED  BY <2>2, <2>3, <2>4, <2>5, <2>6 DEF RequestsHold, Asked
<1>13. EventsHold' /\ WindowIsCurrent'
  <2>1. \A e : e.call \in 1..made.requests /\ RefusalIsFinal(e) => RefusalIsFinal(e)'
    <3>1. \A x \in chatRequests' : Asked(x) => x \in chatRequests
      BY <1>1, <1>6 DEF Asked
    <3>. QED  BY <1>1, <1>7, <3>1, RefusalsStand
  <2>2. \A k \in 1..made.requests : k # n
    BY <1>10
  <2>. QED  BY <1>1, <1>2, <1>5, <1>7, <1>8, <1>10, <2>1, <2>2, NothingHeardKeeps DEF ChatInv
<1>14. ReadingHolds(chat)'
  BY <1>1, <1>7, ReadingStands DEF ChatInv
<1>. QED  BY <1>9, <1>11, <1>12, <1>13, <1>14 DEF ChatInv

LEMMA CancelledIs ==
    ASSUME NEW c \in ChatStates
    PROVE  /\ Doubtful(c) \in ChatStates /\ Doubtful(c).shown = c.shown /\ Doubtful(c).load = c.load /\ Doubtful(c).since = c.since
           /\ Doubtful(c).pending = c.pending /\ Doubtful(c).draft = c.draft /\ Doubtful(c).call = 0
           /\ Doubtful(c).seen = c.seen /\ Doubtful(c).unread = c.unread /\ Doubtful(c).visible = c.visible
           /\ Cancelled(c) \in ChatStates /\ Cancelled(c).shown = c.shown /\ Cancelled(c).load = Nothing /\ Cancelled(c).since = c.since
           /\ Cancelled(c).pending = c.pending /\ Cancelled(c).draft = c.draft /\ Cancelled(c).call = 0
           /\ Cancelled(c).seen = c.seen /\ Cancelled(c).unread = c.unread /\ Cancelled(c).visible = c.visible
           /\ Unloaded(c) \in ChatStates /\ Unloaded(c).shown = c.shown /\ Unloaded(c).load = Nothing /\ Unloaded(c).since = c.since
           /\ Unloaded(c).pending = c.pending /\ Unloaded(c).draft = c.draft /\ Unloaded(c).call = c.call
           /\ Unloaded(c).seen = c.seen /\ Unloaded(c).unread = c.unread /\ Unloaded(c).visible = c.visible
           /\ Nothing.call = 0 /\ Nothing \in ChatLoads
<1>0. Nothing.call = 0 /\ Nothing \in ChatLoads
  BY DEF Nothing, ChatLoads
<1>. DEFINE doubt == IF c.pending # 0 THEN "uncertain" ELSE c.delivery
            c1 == [c EXCEPT !.call = 0]
            d == Doubtful(c)
            u1 == [c EXCEPT !.load = Nothing]
<1>1. /\ c1 \in ChatStates /\ c1.shown = c.shown /\ c1.load = c.load /\ c1.since = c.since /\ c1.pending = c.pending /\ c1.draft = c.draft
      /\ c1.call = 0 /\ c1.seen = c.seen /\ c1.unread = c.unread /\ c1.visible = c.visible /\ c1.delivery = c.delivery
  BY DEF ChatStates
<1>2. d = [c1 EXCEPT !.delivery = doubt] /\ doubt \in {"idle", "sending", "uncertain"}
  <2>1. d = [c1 EXCEPT !.delivery = IF c.pending # 0 THEN "uncertain" ELSE c1.delivery]
    BY DEF Doubtful
  <2>. QED  BY <1>1, <2>1 DEF ChatStates
<1>. HIDE DEF c1, doubt, d
<1>3. /\ d \in ChatStates /\ d.shown = c.shown /\ d.load = c.load /\ d.since = c.since /\ d.pending = c.pending /\ d.draft = c.draft
      /\ d.call = 0 /\ d.seen = c.seen /\ d.unread = c.unread /\ d.visible = c.visible
  BY <1>1, <1>2 DEF ChatStates
<1>4. Cancelled(c) = [d EXCEPT !.load = Nothing] /\ d = Doubtful(c)
  BY DEF Cancelled, d
<1>5. /\ Cancelled(c) \in ChatStates /\ Cancelled(c).shown = c.shown /\ Cancelled(c).load = Nothing /\ Cancelled(c).since = c.since
      /\ Cancelled(c).pending = c.pending /\ Cancelled(c).draft = c.draft /\ Cancelled(c).call = 0
      /\ Cancelled(c).seen = c.seen /\ Cancelled(c).unread = c.unread /\ Cancelled(c).visible = c.visible
  BY <1>0, <1>3, <1>4 DEF ChatStates
<1>6. /\ u1 \in ChatStates /\ u1.shown = c.shown /\ u1.load = Nothing /\ u1.since = c.since /\ u1.pending = c.pending /\ u1.draft = c.draft
      /\ u1.call = c.call /\ u1.seen = c.seen /\ u1.unread = c.unread /\ u1.visible = c.visible
  BY <1>0 DEF ChatStates
<1>7. Unloaded(c) = [u1 EXCEPT !.failed = TRUE]
  BY DEF Unloaded
<1>. HIDE DEF u1
<1>8. /\ Unloaded(c) \in ChatStates /\ Unloaded(c).shown = c.shown /\ Unloaded(c).load = Nothing /\ Unloaded(c).since = c.since
      /\ Unloaded(c).pending = c.pending /\ Unloaded(c).draft = c.draft /\ Unloaded(c).call = c.call
      /\ Unloaded(c).seen = c.seen /\ Unloaded(c).unread = c.unread /\ Unloaded(c).visible = c.visible
  BY <1>6, <1>7 DEF ChatStates
<1>. QED  BY <1>0, <1>3, <1>4, <1>5, <1>8

LEMMA ReadingHistoryKeeps ==
    ASSUME ChatInv, Recover \/ LoadOlder \/ RetryHistory
    PROVE  ChatInv'
<1>1. chat \in ChatStates
  BY DEF ChatInv, ChatTypes
<1>2. CASE Recover
  <2>. DEFINE e == [Cancelled(chat) EXCEPT !.online = TRUE]
  <2>1. PICK c : c = e
    OBVIOUS
  <2>2. /\ c \in ChatStates /\ c.shown = chat.shown /\ c.pending = chat.pending /\ c.draft = chat.draft /\ c.call = 0
        /\ c.since = chat.since /\ c.seen = chat.seen /\ c.unread = chat.unread /\ c.visible = chat.visible
    <3>. DEFINE f == Cancelled(chat)
    <3>1. /\ f \in ChatStates /\ f.shown = chat.shown /\ f.pending = chat.pending /\ f.draft = chat.draft /\ f.call = 0
          /\ f.since = chat.since /\ f.seen = chat.seen /\ f.unread = chat.unread /\ f.visible = chat.visible
      BY <1>1, CancelledIs
    <3>. HIDE DEF f
    <3>2. c = [f EXCEPT !.online = TRUE]
      BY <2>1 DEF f
    <3>. QED  BY <3>1, <3>2 DEF ChatStates
  <2>3. /\ AskHistory(c, FALSE) /\ link.up /\ messages' = messages /\ open' = open /\ silent' = silent /\ link' = link
    BY <1>2, <2>1 DEF Recover
  <2>. QED  BY <2>2, <2>3, AskHistoryKeeps
<1>3. CASE LoadOlder
  <2>1. PICK c : c = chat
    OBVIOUS
  <2>2. /\ AskHistory(c, TRUE) /\ link.up /\ messages' = messages /\ open' = open /\ silent' = silent /\ link' = link /\ c.shown # {}
    BY <1>3, <2>1 DEF LoadOlder
  <2>. QED  BY <1>1, <2>1, <2>2, AskHistoryKeeps
<1>4. CASE RetryHistory
  <2>1. PICK c : c = chat
    OBVIOUS
  <2>2. /\ AskHistory(c, FALSE) /\ link.up /\ messages' = messages /\ open' = open /\ silent' = silent /\ link' = link
    BY <1>4, <2>1 DEF RetryHistory
  <2>. QED  BY <1>1, <2>1, <2>2, AskHistoryKeeps
<1>. QED  BY <1>2, <1>3, <1>4

LEMMA ComposeKeeps ==
    ASSUME ChatInv, Compose
    PROVE  ChatInv'
<1>1. /\ chat.draft = 0 /\ made' = [made EXCEPT !.texts = made.texts + 1] /\ chat' = [chat EXCEPT !.draft = made.texts + 1]
      /\ messages' = messages /\ open' = open /\ silent' = silent /\ chatRequests' = chatRequests /\ link' = link
  BY DEF Compose
<1>2. /\ made' \in [requests: Nat, texts: Nat, breaks: Nat] /\ made'.requests = made.requests /\ made'.texts = made.texts + 1
      /\ made.texts \in Nat /\ made.requests \in Nat
  BY <1>1 DEF ChatInv, ChatTypes
<1>3. /\ chat' \in ChatStates /\ chat'.shown = chat.shown /\ chat'.pending = chat.pending /\ chat'.draft = made.texts + 1
      /\ chat'.call = chat.call /\ chat'.since = chat.since /\ chat'.seen = chat.seen /\ chat'.unread = chat.unread
      /\ chat'.visible = chat.visible /\ chat'.load = chat.load
  BY <1>1, <1>2 DEF ChatInv, ChatTypes, ChatStates
<1>4. Kept' = Kept /\ OwnMessages' = OwnMessages /\ \A k : IsRecorded(k)' = IsRecorded(k)
  BY <1>1, TableStands
<1>5. ChatTypes'
  BY <1>1, <1>2, <1>3, <1>4 DEF ChatInv, ChatTypes
<1>6. chat.pending = 0
  BY <1>1 DEF ChatInv, TextsHold
<1>7. TextsHold'
  <2>1. \A i \in OwnMessages' :
           /\ messages'[i].text \in 1..made'.texts /\ messages'[i].key \in 1..made'.requests
           /\ messages'[i].text # chat'.draft /\ messages'[i].key # chat'.pending
    BY <1>1, <1>2, <1>3, <1>4, <1>6 DEF ChatInv, TextsHold
  <2>2. ASSUME NEW t \in 1..made'.texts, t # chat'.draft PROVE \E i \in OwnMessages' : messages'[i].text = t
    <3>1. t \in 1..made.texts /\ t # chat.draft
      BY <1>1, <1>2, <1>3, <2>2
    <3>2. PICK i \in OwnMessages : messages[i].text = t
      BY <3>1 DEF ChatInv, TextsHold
    <3>. QED  BY <1>1, <1>4, <3>2
  <2>3. \A i, j \in OwnMessages' : messages'[i].text = messages'[j].text \/ messages'[i].key = messages'[j].key => i = j
    BY <1>1, <1>4 DEF ChatInv, TextsHold
  <2>. QED  BY <1>1, <1>2, <1>3, <1>4, <2>1, <2>2, <2>3 DEF ChatInv, TextsHold
<1>8. RequestsHold'
  <2>1. \A x \in chatRequests : Asked(x) => IsRecorded(x.key) /\ x.key \in 1..made.requests /\ x.text \in 1..made'.texts
    BY <1>2, <1>6 DEF ChatInv, RequestsHold
  <2>. QED  BY <1>1, <1>2, <1>3, <1>4, <2>1 DEF ChatInv, RequestsHold, Asked
<1>9. EventsHold' /\ WindowIsCurrent'
  <2>1. \A e : e.call \in 1..made.requests /\ RefusalIsFinal(e) => RefusalIsFinal(e)'
    BY <1>1, <1>3, RefusalsStand
  <2>2. chat'.load.call <= made'.requests
    BY <1>2, <1>3 DEF ChatInv, EventsHold
  <2>. QED  BY <1>1, <1>2, <1>3, <1>4, <2>1, <2>2, NothingHeardKeeps DEF ChatInv
<1>10. ReadingHolds(chat)'
  BY <1>1, <1>3, ReadingStands DEF ChatInv
<1>. QED  BY <1>5, <1>7, <1>8, <1>9, <1>10 DEF ChatInv

LEMMA SendTextKeeps ==
    ASSUME ChatInv, SendText
    PROVE  ChatInv'
<1>0. PICK n \in Nat : n = made.requests + 1
  BY DEF ChatInv, ChatTypes
<1>1. PICK key : key = Key(chat)
  OBVIOUS
<1>. DEFINE h == [is |-> "send", stage |-> "asked", call |-> n, before |-> 0, key |-> key, text |-> chat.draft, row |-> 0]
            d1 == [chat EXCEPT !.pending = key]
            d2 == [d1 EXCEPT !.call = n]
<1>2. /\ chat.draft # 0 /\ made' = [made EXCEPT !.requests = n] /\ chatRequests' = chatRequests \cup {h}
      /\ chat' = [d2 EXCEPT !.delivery = "sending"]
      /\ messages' = messages /\ open' = open /\ silent' = silent /\ link' = link
  BY <1>0, <1>1 DEF SendText, ChatRequest
<1>3. /\ made' \in [requests: Nat, texts: Nat, breaks: Nat] /\ made'.requests = n /\ made'.texts = made.texts
      /\ made.requests \in Nat /\ made.requests < n /\ made.texts \in Nat
  BY <1>0, <1>2 DEF ChatInv, ChatTypes
<1>4. chat \in ChatStates /\ chat.draft \in 1..made.texts /\ chat.draft \in Nat /\ chat.pending \in 0..made.requests
  <2>1. chat \in ChatStates
    BY DEF ChatInv, ChatTypes
  <2>2. chat.draft \in Nat /\ chat.pending \in Nat
    BY <2>1 DEF ChatStates
  <2>. QED  BY <1>2, <1>3, <2>1, <2>2 DEF ChatInv, TextsHold
<1>5. key \in 1..n /\ key \in Nat /\ (chat.pending = 0 => key = n) /\ (chat.pending # 0 => key = chat.pending)
  BY <1>0, <1>1, <1>3, <1>4 DEF Key
<1>6. h \in ChatRequests /\ h.is = "send" /\ h.stage = "asked" /\ h.call = n /\ h.key = key /\ h.text = chat.draft
  BY <1>4, <1>5 DEF ChatRequests
<1>. HIDE DEF h
<1>7. /\ chat' \in ChatStates /\ chat'.shown = chat.shown /\ chat'.pending = key /\ chat'.draft = chat.draft
      /\ chat'.call = n /\ chat'.since = chat.since /\ chat'.seen = chat.seen /\ chat'.unread = chat.unread
      /\ chat'.visible = chat.visible /\ chat'.load = chat.load
  <2>1. /\ d1 \in ChatStates /\ d1.shown = chat.shown /\ d1.pending = key /\ d1.draft = chat.draft
        /\ d1.since = chat.since /\ d1.seen = chat.seen /\ d1.unread = chat.unread /\ d1.visible = chat.visible /\ d1.load = chat.load
    BY <1>4, <1>5 DEF ChatStates
  <2>. HIDE DEF d1
  <2>2. /\ d2 \in ChatStates /\ d2.shown = chat.shown /\ d2.pending = key /\ d2.draft = chat.draft /\ d2.call = n
        /\ d2.since = chat.since /\ d2.seen = chat.seen /\ d2.unread = chat.unread /\ d2.visible = chat.visible /\ d2.load = chat.load
    BY <2>1 DEF ChatStates
  <2>. HIDE DEF d2
  <2>. QED  BY <1>2, <2>2 DEF ChatStates
<1>. HIDE DEF d1, d2
<1>8. Kept' = Kept /\ OwnMessages' = OwnMessages /\ \A k : IsRecorded(k)' = IsRecorded(k)
  BY <1>2, TableStands
<1>9. ChatTypes'
  BY <1>2, <1>3, <1>6, <1>7, <1>8 DEF ChatInv, ChatTypes
<1>10. TextsHold'
  <2>1. \A i \in OwnMessages' :
           /\ messages'[i].text \in 1..made'.texts /\ messages'[i].key \in 1..made'.requests
           /\ messages'[i].text = chat'.draft <=> messages'[i].key = chat'.pending
    <3>. SUFFICES ASSUME NEW i \in OwnMessages
                  PROVE  /\ messages[i].text \in 1..made.texts /\ messages[i].key \in 1..n
                         /\ messages[i].text = chat.draft <=> messages[i].key = key
      BY <1>2, <1>3, <1>7, <1>8
    <3>1. /\ messages[i].text \in 1..made.texts /\ messages[i].key \in 1..made.requests
          /\ messages[i].text = chat.draft <=> messages[i].key = chat.pending
      BY DEF ChatInv, TextsHold
    <3>. QED  BY <1>3, <1>5, <3>1
  <2>2. ASSUME NEW t \in 1..made'.texts, t # chat'.draft PROVE \E i \in OwnMessages' : messages'[i].text = t
    <3>1. PICK i \in OwnMessages : messages[i].text = t
      BY <1>3, <1>7, <2>2 DEF ChatInv, TextsHold
    <3>. QED  BY <1>2, <1>8, <3>1
  <2>3. \A i, j \in OwnMessages' : messages'[i].text = messages'[j].text \/ messages'[i].key = messages'[j].key => i = j
    BY <1>2, <1>8 DEF ChatInv, TextsHold
  <2>4. OwnMessages' \cap open' = {}
    BY <1>2, <1>8 DEF ChatInv, TextsHold
  <2>5. chat'.draft <= made'.texts /\ chat'.pending <= made'.requests /\ chat'.call <= made'.requests /\ (chat'.draft = 0 => chat'.pending = 0)
    BY <1>2, <1>3, <1>4, <1>5, <1>7
  <2>. QED  BY <2>1, <2>2, <2>3, <2>4, <2>5 DEF TextsHold
<1>11. RequestsHold'
  <2>1. \A x \in chatRequests : x.call # n /\ x.call \in 1..n /\ x.call <= n
    BY <1>3 DEF ChatInv, RequestsHold
  <2>2. \A x \in chatRequests' : x.call \in 1..made'.requests
    BY <1>2, <1>3, <1>6, <2>1
  <2>3. \A x, y \in chatRequests' : x.call = y.call => x = y
    BY <1>2, <1>6, <2>1 DEF ChatInv, RequestsHold
  <2>4. ASSUME NEW x \in chatRequests', Asked(x)
        PROVE  /\ x.key \in 1..made'.requests /\ x.text \in 1..made'.texts
               /\ (x.key = chat'.pending /\ x.text = chat'.draft) \/ IsRecorded(x.key)'
               /\ chat'.call # 0 => x.call <= chat'.call
    <3>1. CASE x = h
      BY <1>3, <1>4, <1>5, <1>6, <1>7, <3>1
    <3>2. CASE x \in chatRequests
      <4>1. /\ x.key \in 1..made.requests /\ x.text \in 1..made.texts
            /\ (x.key = chat.pending /\ x.text = chat.draft) \/ IsRecorded(x.key)
        BY <2>4, <3>2 DEF ChatInv, RequestsHold
      <4>2. x.key = chat.pending => chat.pending # 0 /\ key = chat.pending
        BY <1>5, <4>1
      <4>. QED  BY <1>3, <1>7, <1>8, <2>1, <3>2, <4>1, <4>2
    <3>. QED  BY <1>2, <3>1, <3>2
  <2>5. \A x \in chatRequests' : x.is = "send" /\ x.stage = "created" => x.row \in OwnMessages'
    BY <1>2, <1>6, <1>8 DEF ChatInv, RequestsHold
  <2>6. \A x \in chatRequests' : x.is = "history" /\ x.call = chat'.load.call /\ ~chat'.load.older => x.before = 0
    BY <1>2, <1>6, <1>7 DEF ChatInv, RequestsHold
  <2>. QED  BY <2>2, <2>3, <2>4, <2>5, <2>6 DEF RequestsHold, Asked
<1>12. EventsHold' /\ WindowIsCurrent'
  <2>1. \A e : e.call \in 1..made.requests /\ RefusalIsFinal(e) => RefusalIsFinal(e)'
    <3>1. \A k \in 1..made.requests : k # n
      BY <1>3
    <3>. QED  BY <1>7, <3>1 DEF RefusalIsFinal
  <2>2. chat'.load.call <= made'.requests
    <3>1. chat.load.call \in Nat /\ chat.load.call <= made.requests
      BY <1>4 DEF ChatInv, EventsHold, ChatStates, ChatLoads
    <3>. QED  BY <1>3, <1>7, <3>1
  <2>. QED  BY <1>2, <1>3, <1>7, <1>8, <2>1, <2>2, NothingHeardKeeps DEF ChatInv
<1>13. ReadingHolds(chat)'
  BY <1>2, <1>7, ReadingStands DEF ChatInv
<1>. QED  BY <1>9, <1>10, <1>11, <1>12, <1>13 DEF ChatInv

\* A change of the client that takes nothing back: its text, its window and its load are kept or given up.
LEMMA StandingKeeps ==
    ASSUME ChatInv, chat' \in ChatStates, chat'.shown = chat.shown, chat'.pending = chat.pending, chat'.draft = chat.draft,
           chat'.call \in {chat.call, 0}, chat'.load \in {chat.load, Nothing}, ReadingHolds(chat)',
           messages' = messages, open' = open, silent' = silent, chatRequests' \subseteq chatRequests,
           made' \in [requests: Nat, texts: Nat, breaks: Nat], made'.requests = made.requests, made'.texts = made.texts,
           link' \in [up: BOOLEAN, events: Seq(ChatEvents)],
           \/ link' = link /\ chat'.since = chat.since
           \/ link'.events = << >> /\ chat'.since = 0
    PROVE  ChatInv'
<1>1. Kept' = Kept /\ OwnMessages' = OwnMessages /\ \A k : IsRecorded(k)' = IsRecorded(k)
  BY TableStands
<1>2. ChatTypes'
  BY <1>1 DEF ChatInv, ChatTypes
<1>3. chat.call \in Nat /\ chat.call <= made.requests /\ made.requests \in Nat /\ chat.load.call <= made.requests /\ Nothing.call = 0
  BY DEF ChatInv, ChatTypes, ChatStates, TextsHold, EventsHold, Nothing
<1>4. TextsHold'
  BY <1>1, <1>3 DEF ChatInv, TextsHold
<1>5. RequestsHold'
  <2>1. \A x \in chatRequests : x.call # 0
    BY DEF ChatInv, RequestsHold
  <2>2. \A x \in chatRequests' : x.is = "history" /\ x.call = chat'.load.call /\ ~chat'.load.older => x.before = 0
    BY <1>3, <2>1 DEF ChatInv, RequestsHold
  <2>. QED  BY <1>1, <2>2 DEF ChatInv, RequestsHold, Asked
<1>6. chat'.load.call <= made'.requests
  BY <1>3
<1>7. CASE link' = link /\ chat'.since = chat.since
  <2>1. \A e : e.call \in 1..made.requests /\ RefusalIsFinal(e) => RefusalIsFinal(e)'
    BY RefusalsStand
  <2>2. \A n \in 1..made.requests : n = chat'.load.call => chat'.load = chat.load
    BY <1>3
  <2>3. EventsHold' /\ WindowIsCurrent'
    BY <1>1, <1>3, <1>6, <1>7, <2>1, <2>2, NothingHeardKeeps DEF ChatInv
  <2>. QED  BY <1>2, <1>4, <1>5, <2>3 DEF ChatInv
<1>8. CASE link'.events = << >> /\ chat'.since = 0
  <2>1. EventsHold' /\ WindowIsCurrent'
    BY <1>6, <1>8 DEF EventsHold, WindowIsCurrent
  <2>. QED  BY <1>2, <1>4, <1>5, <2>1 DEF ChatInv
<1>. QED  BY <1>7, <1>8

LEMMA BreaksKeep ==
    ASSUME ChatTypes, Breaks
    PROVE  made' \in [requests: Nat, texts: Nat, breaks: Nat] /\ made'.requests = made.requests /\ made'.texts = made.texts
BY DEF ChatTypes, Breaks

LEMMA ChatTimeOutKeeps ==
    ASSUME ChatInv, ChatTimeOut
    PROVE  ChatInv'
<1>1. /\ messages' = messages /\ open' = open /\ silent' = silent /\ chatRequests' = chatRequests /\ link' = link
      /\ Breaks /\ chat' \in {Unloaded(chat), Doubtful(chat)}
  BY DEF ChatTimeOut
<1>2. chat \in ChatStates /\ link \in [up: BOOLEAN, events: Seq(ChatEvents)]
  BY DEF ChatInv, ChatTypes
<1>3. /\ chat' \in ChatStates /\ chat'.shown = chat.shown /\ chat'.pending = chat.pending /\ chat'.draft = chat.draft
      /\ chat'.call \in {chat.call, 0} /\ chat'.load \in {chat.load, Nothing} /\ chat'.since = chat.since
      /\ chat'.seen = chat.seen /\ chat'.unread = chat.unread /\ chat'.visible = chat.visible
  BY <1>1, <1>2, CancelledIs
<1>4. ReadingHolds(chat)'
  BY <1>1, <1>3, ReadingStands DEF ChatInv
<1>. QED  BY <1>1, <1>2, <1>3, <1>4, BreaksKeep, StandingKeeps DEF ChatInv

LEMMA ShowChatKeeps ==
    ASSUME ChatInv, ShowChat
    PROVE  ChatInv'
<1>1. /\ messages' = messages /\ open' = open /\ silent' = silent /\ chatRequests' = chatRequests /\ link' = link /\ Breaks
  BY DEF ShowChat
<1>2. chat \in ChatStates /\ link \in [up: BOOLEAN, events: Seq(ChatEvents)] /\ ChatTypes /\ chat.shown \subseteq Kept
  BY DEF ChatInv, ChatTypes
<1>. DEFINE c == [chat EXCEPT !.visible = ~chat.visible]
<1>3. /\ c \in ChatStates /\ c.shown = chat.shown /\ c.pending = chat.pending /\ c.draft = chat.draft /\ c.call = chat.call
      /\ c.load = chat.load /\ c.since = chat.since /\ c.seen = chat.seen /\ c.unread = chat.unread /\ c.visible = ~chat.visible
  BY <1>2 DEF ChatStates
<1>4. chat' = Read(c)
  BY DEF ShowChat
<1>. HIDE DEF c
<1>5. /\ chat' \in ChatStates /\ chat'.shown = chat.shown /\ chat'.pending = chat.pending /\ chat'.draft = chat.draft
      /\ chat'.call = chat.call /\ chat'.load = chat.load /\ chat'.since = chat.since
      /\ chat'.visible = c.visible /\ (~c.visible => chat' = c)
      /\ c.visible => chat'.unread = 0 /\ \A i \in chat'.shown : i <= chat'.seen
  BY <1>2, <1>3, <1>4, ReadIs
<1>6. ReadingHolds(chat)'
  <2>1. CASE c.visible
    BY <1>5, <2>1 DEF ReadingHolds
  <2>2. CASE ~c.visible
    <3>1. chat.visible /\ ~chat'.visible /\ chat'.seen = chat.seen /\ chat'.unread = chat.unread
      BY <1>3, <1>5, <2>2
    <3>2. chat.unread = 0 /\ \A i \in chat.shown : i <= chat.seen
      BY <3>1 DEF ChatInv, ReadingHolds
    <3>3. chat.seen \in Nat /\ \A i \in chat.shown : i \in Nat
      BY <1>2 DEF ChatStates
    <3>4. Unseen(chat)' = {}
      BY <1>5, <3>1, <3>2, <3>3 DEF Unseen
    <3>. QED  BY <3>1, <3>2, <3>4, FS_EmptySet DEF ReadingHolds
  <2>. QED  BY <2>1, <2>2
<1>. QED  BY <1>1, <1>2, <1>5, <1>6, BreaksKeep, StandingKeeps DEF ChatInv

LEMMA LinkKeeps ==
    ASSUME ChatInv, OpenLink \/ LoseLink
    PROVE  ChatInv'
<1>1. chat \in ChatStates /\ ChatTypes
  BY DEF ChatInv, ChatTypes
<1>2. CASE OpenLink
  <2>1. /\ ~link.up /\ link' = [up |-> TRUE, events |-> << >>] /\ chatRequests' \subseteq chatRequests
        /\ messages' = messages /\ open' = open /\ silent' = silent /\ chat' = chat /\ made' = made
    BY <1>2 DEF OpenLink
  <2>2. chat'.since = 0
    BY <2>1 DEF ChatInv, EventsHold
  <2>3. link' \in [up: BOOLEAN, events: Seq(ChatEvents)] /\ link'.events = << >>
    BY <2>1
  <2>4. ReadingHolds(chat)'
    BY <2>1, ReadingStands DEF ChatInv
  <2>5. made' \in [requests: Nat, texts: Nat, breaks: Nat]
    BY <2>1 DEF ChatInv, ChatTypes
  <2>. QED  BY <1>1, <2>1, <2>2, <2>3, <2>4, <2>5, StandingKeeps
<1>3. CASE LoseLink
  <2>. DEFINE f == Cancelled(chat)
              g == [f EXCEPT !.online = FALSE]
  <2>1. /\ link' = [up |-> FALSE, events |-> << >>] /\ Breaks /\ chat' = [g EXCEPT !.since = 0]
        /\ messages' = messages /\ open' = open /\ silent' = silent /\ chatRequests' = chatRequests
    BY <1>3 DEF LoseLink
  <2>2. /\ f \in ChatStates /\ f.shown = chat.shown /\ f.load = Nothing /\ f.pending = chat.pending /\ f.draft = chat.draft /\ f.call = 0
        /\ f.seen = chat.seen /\ f.unread = chat.unread /\ f.visible = chat.visible
    BY <1>1, CancelledIs
  <2>. HIDE DEF f
  <2>3. /\ g \in ChatStates /\ g.shown = chat.shown /\ g.load = Nothing /\ g.pending = chat.pending /\ g.draft = chat.draft /\ g.call = 0
        /\ g.seen = chat.seen /\ g.unread = chat.unread /\ g.visible = chat.visible
    BY <2>2 DEF ChatStates
  <2>. HIDE DEF g
  <2>4. /\ chat' \in ChatStates /\ chat'.shown = chat.shown /\ chat'.load = Nothing /\ chat'.pending = chat.pending
        /\ chat'.draft = chat.draft /\ chat'.call = 0 /\ chat'.since = 0
        /\ chat'.seen = chat.seen /\ chat'.unread = chat.unread /\ chat'.visible = chat.visible
    BY <2>1, <2>3 DEF ChatStates
  <2>5. link' \in [up: BOOLEAN, events: Seq(ChatEvents)] /\ link'.events = << >>
    BY <2>1
  <2>6. ReadingHolds(chat)'
    BY <2>1, <2>4, ReadingStands DEF ChatInv
  <2>. QED  BY <1>1, <2>1, <2>4, <2>5, <2>6, BreaksKeep, StandingKeeps
<1>. QED  BY <1>2, <1>3

\* The client takes an event: what may become of its text, and what its window has taken in.
TextAnswered(c, d) ==
    \/ TextFollows(c, d)
    \/ /\ d.pending = 0 /\ d.draft = c.draft /\ d.call = 0
       /\ ~IsRecorded(c.pending) /\ \A x \in chatRequests : Asked(x) => x.key # c.pending

TakesIn(c, d, e) ==
    \/ d.since = c.since /\ c.shown \subseteq d.shown /\ (e.is = "message" => e.messages \subseteq d.shown)
    \/ /\ e.is = "page" /\ e.result = "ok" /\ e.call = c.load.call /\ ~c.load.older
       /\ d.since = Since(e) /\ e.messages \subseteq d.shown

LEMMA TextsAnswered ==
    ASSUME ChatInv, chat' \in ChatStates, TextAnswered(chat, chat'), chat'.load \in {chat.load, Nothing},
           messages' = messages, open' = open, chatRequests' = chatRequests, made' = made
    PROVE  TextsHold' /\ RequestsHold' /\ \A e : e.call \in 1..made.requests /\ RefusalIsFinal(e) => RefusalIsFinal(e)'
<1>1. OwnMessages' = OwnMessages /\ \A k : IsRecorded(k)' = IsRecorded(k)
  BY TableStands
<1>2. /\ made.requests \in Nat /\ made.texts \in Nat /\ chat.call \in Nat /\ Nothing.call = 0
      /\ \A i \in OwnMessages : messages[i].text \in 1..made.texts /\ messages[i].key \in 1..made.requests
      /\ \A x \in chatRequests : x.call \in 1..made.requests
      /\ \A x \in chatRequests : Asked(x) => x.key \in 1..made.requests /\ x.text \in 1..made.texts
  BY DEF ChatInv, ChatTypes, ChatStates, TextsHold, RequestsHold, Nothing
<1>3. CASE chat'.pending = chat.pending /\ chat'.draft = chat.draft /\ chat'.call \in {chat.call, 0}
  <2>1. TextsHold'
    BY <1>1, <1>2, <1>3 DEF ChatInv, TextsHold
  <2>2. \A x \in chatRequests' : x.is = "history" /\ x.call = chat'.load.call /\ ~chat'.load.older => x.before = 0
    BY <1>2 DEF ChatInv, RequestsHold
  <2>3. RequestsHold'
    BY <1>1, <1>2, <1>3, <2>2 DEF ChatInv, RequestsHold, Asked
  <2>. QED  BY <1>3, <2>1, <2>3, RefusalsStand
<1>4. CASE /\ chat'.pending = 0 /\ chat'.call = 0
           /\ \/ chat'.draft = 0 /\ chat.pending # 0 /\ IsRecorded(chat.pending)
              \/ chat'.draft = chat.draft /\ ~IsRecorded(chat.pending) /\ \A x \in chatRequests : Asked(x) => x.key # chat.pending
  <2>1. \A i \in OwnMessages : messages[i].text # chat'.draft
    BY <1>2, <1>4 DEF ChatInv, TextsHold, IsRecorded
  <2>2. ASSUME NEW t \in 1..made.texts, t # chat'.draft PROVE \E i \in OwnMessages : messages[i].text = t
    <3>1. CASE t # chat.draft
      BY <3>1 DEF ChatInv, TextsHold
    <3>2. CASE t = chat.draft
      <4>1. PICK i \in OwnMessages : messages[i].key = chat.pending
        BY <1>4, <2>2, <3>2 DEF IsRecorded
      <4>. QED  BY <3>2, <4>1 DEF ChatInv, TextsHold
    <3>. QED  BY <3>1, <3>2
  <2>3. \A i \in OwnMessages : messages[i].key # 0
    BY <1>2
  <2>4. chat'.draft <= made.texts
    BY <1>2, <1>4 DEF ChatInv, TextsHold
  <2>5. \A i, j \in OwnMessages : messages[i].text = messages[j].text \/ messages[i].key = messages[j].key => i = j
    BY DEF ChatInv, TextsHold
  <2>6. OwnMessages \cap open = {}
    BY DEF ChatInv, TextsHold
  <2>7. TextsHold'
    BY <1>1, <1>2, <1>4, <2>1, <2>2, <2>3, <2>4, <2>5, <2>6 DEF TextsHold
  <2>8. \A x \in chatRequests' : x.is = "history" /\ x.call = chat'.load.call /\ ~chat'.load.older => x.before = 0
    BY <1>2 DEF ChatInv, RequestsHold
  <2>9. \A x \in chatRequests : Asked(x) => IsRecorded(x.key)
    BY <1>4 DEF ChatInv, RequestsHold
  <2>10. RequestsHold'
    BY <1>1, <1>2, <1>4, <2>8, <2>9 DEF ChatInv, RequestsHold, Asked
  <2>11. \A e : e.call \in 1..made.requests => e.call # chat'.call
    BY <1>4
  <2>. QED  BY <2>7, <2>10, <2>11 DEF RefusalIsFinal
<1>. QED  BY <1>3, <1>4 DEF TextAnswered, TextFollows

LEMMA EventTaken ==
    ASSUME ChatInv, NEW e, NEW events \in Seq(ChatEvents), events = link.events, events # << >>, e = events[1],
           chat' \in ChatStates, chat'.shown \subseteq Kept, TextAnswered(chat, chat'), chat'.load \in {chat.load, Nothing},
           ReadingHolds(chat'), TakesIn(chat, chat', e), link' = [link EXCEPT !.events = Tail(events)],
           messages' = messages, open' = open, silent' = silent, chatRequests' = chatRequests, made' = made
    PROVE  ChatInv'
<1>1. Kept' = Kept /\ OwnMessages' = OwnMessages /\ (\A k : IsRecorded(k)' = IsRecorded(k)) /\ \A i : Own(i)' = Own(i)
  BY TableStands
<1>2. PICK rest \in Seq(ChatEvents) : /\ rest = Tail(events) /\ DOMAIN rest = 1..(Len(events) - 1) /\ DOMAIN events = 1..Len(events)
                                      /\ Len(events) \in Nat /\ \A k \in DOMAIN rest : rest[k] = events[k + 1]
  <2>1. Tail(events) \in Seq(ChatEvents) /\ Len(Tail(events)) = Len(events) - 1
    BY EmptySeq
  <2>2. \A k \in 1..Len(Tail(events)) : Tail(events)[k] = events[k + 1]
    BY <2>1
  <2>3. PICK r : r = Tail(events)
    OBVIOUS
  <2>4. r \in Seq(ChatEvents) /\ DOMAIN r = 1..Len(r) /\ Len(r) = Len(events) - 1 /\ DOMAIN events = 1..Len(events) /\ Len(events) \in Nat
    BY <2>1, <2>3
  <2>5. \A k \in DOMAIN r : r[k] = events[k + 1]
    BY <2>2, <2>3, <2>4
  <2>. QED  BY <2>3, <2>4, <2>5
<1>3. link' \in [up: BOOLEAN, events: Seq(ChatEvents)] /\ link'.events = rest /\ link'.up = link.up /\ link.up
  BY <1>2 DEF ChatInv, ChatTypes, EventsHold
<1>4. ChatTypes'
  BY <1>1, <1>3 DEF ChatInv, ChatTypes
<1>5. TextsHold' /\ RequestsHold' /\ \A f : f.call \in 1..made.requests /\ RefusalIsFinal(f) => RefusalIsFinal(f)'
  BY TextsAnswered
<1>6. Nothing.call = 0 /\ made.requests \in Nat
  BY DEF Nothing, ChatInv, ChatTypes
<1>7. \A k \in DOMAIN events : EventHolds(events[k]) /\ PageIsWhole(k, events)
  BY DEF ChatInv, EventsHold
<1>8. ASSUME NEW i, NEW k \in DOMAIN rest, Announced(i, k + 1, events) PROVE Announced(i, k, rest)
  <2>1. PICK j \in DOMAIN events : j > k + 1 /\ events[j].is = "message" /\ i \in events[j].messages
    BY <1>8 DEF Announced
  <2>2. j - 1 \in DOMAIN rest /\ j - 1 > k /\ rest[j - 1] = events[j]
    BY <1>2, <2>1
  <2>. QED  BY <2>1, <2>2 DEF Announced
<1>9. ASSUME NEW k \in DOMAIN rest PROVE EventHolds(rest[k])' /\ PageIsWhole(k, rest)'
  <2>1. PICK f : f = rest[k]
    OBVIOUS
  <2>2. k + 1 \in DOMAIN events /\ f = events[k + 1]
    BY <1>2, <1>9, <2>1
  <2>3. EventHolds(f) /\ PageIsWhole(k + 1, events)
    BY <1>7, <2>2
  <2>4. f.is # "message" => f.call \in 1..made.requests
    BY <2>3 DEF EventHolds
  <2>5. RefusalIsFinal(f)'
    BY <1>5, <2>3, <2>4 DEF EventHolds, RefusalIsFinal
  <2>6. EventHolds(f)'
    BY <1>1, <2>3, <2>5 DEF EventHolds
  <2>7. ASSUME f.is = "page", f.result = "ok", f.call = chat'.load.call, ~chat'.load.older, NEW i \in Kept, i >= Since(f)
        PROVE  i \in f.messages \cup silent \/ Announced(i, k, rest)
    <3>1. chat'.load = chat.load
      BY <1>6, <2>4, <2>7
    <3>2. i \in f.messages \cup silent \/ Announced(i, k + 1, events)
      BY <2>2, <2>3, <2>7, <3>1 DEF PageIsWhole
    <3>. QED  BY <1>8, <1>9, <3>2
  <2>8. (Since(f)' = Since(f)) /\ (f.is = "page" /\ f.result = "ok" => (f.more => f.messages # {}))
    BY <2>2, <2>3 DEF PageIsWhole, Since, Oldest
  <2>9. PageIsWhole(k, rest)'
    BY <1>1, <2>1, <2>7, <2>8 DEF PageIsWhole, Announced
  <2>. QED  BY <2>1, <2>6, <2>9
<1>10. chat'.load.call <= made.requests
  BY <1>6 DEF ChatInv, EventsHold
<1>11. EventsHold'
  BY <1>3, <1>9, <1>10 DEF EventsHold
<1>12. ASSUME NEW i \in Kept, Told(i)', i >= chat'.since, chat'.since # 0 PROVE i \in chat'.shown
  <2>1. i \notin silent /\ \A k \in DOMAIN rest : ~(rest[k].is = "message" /\ i \in rest[k].messages)
    BY <1>3, <1>12 DEF Told, OnItsWay
  <2>2. \A k \in DOMAIN events : k > 1 => ~(events[k].is = "message" /\ i \in events[k].messages)
    <3>. SUFFICES ASSUME NEW k \in DOMAIN events, k > 1 PROVE ~(events[k].is = "message" /\ i \in events[k].messages)
      OBVIOUS
    <3>1. k - 1 \in DOMAIN rest /\ rest[k - 1] = events[k]
      BY <1>2
    <3>. QED  BY <2>1, <3>1
  <2>3. CASE chat'.since = chat.since /\ chat.shown \subseteq chat'.shown /\ (e.is = "message" => e.messages \subseteq chat'.shown)
    <3>1. CASE e.is = "message" /\ i \in e.messages
      BY <2>3, <3>1
    <3>2. CASE ~(e.is = "message" /\ i \in e.messages)
      <4>1. Told(i)
        <5>1. \A k \in DOMAIN events : ~(events[k].is = "message" /\ i \in events[k].messages)
          BY <1>2, <2>2, <3>2
        <5>. QED  BY <2>1, <5>1 DEF Told, OnItsWay
      <4>. QED  BY <1>3, <1>12, <2>3, <4>1 DEF ChatInv, WindowIsCurrent
    <3>. QED  BY <3>1, <3>2
  <2>4. CASE /\ e.is = "page" /\ e.result = "ok" /\ e.call = chat.load.call /\ ~chat.load.older
             /\ chat'.since = Since(e) /\ e.messages \subseteq chat'.shown
    <3>1. 1 \in DOMAIN events
      BY <1>2, EmptySeq
    <3>2. i \in e.messages \cup silent \/ Announced(i, 1, events)
      BY <1>7, <1>12, <2>4, <3>1 DEF PageIsWhole
    <3>3. ~Announced(i, 1, events)
      BY <2>2 DEF Announced
    <3>. QED  BY <2>1, <2>4, <3>2, <3>3
  <2>. QED  BY <2>3, <2>4 DEF TakesIn
<1>13. WindowIsCurrent'
  BY <1>1, <1>12 DEF WindowIsCurrent
<1>14. ReadingHolds(chat)'
  BY <1>1 DEF ReadingHolds, Unseen
<1>. QED  BY <1>4, <1>5, <1>11, <1>13, <1>14 DEF ChatInv

LEMMA ReceivedIs ==
    ASSUME ChatInv, NEW i \in Kept
    PROVE  /\ Received(chat, i) \in ChatStates /\ Received(chat, i).shown = chat.shown \cup {i} /\ Received(chat, i).load = chat.load
           /\ Received(chat, i).since = chat.since /\ TextFollows(chat, Received(chat, i)) /\ ReadingHolds(Received(chat, i))
<1>. DEFINE m == Merge(chat, {i})
<1>1. chat \in ChatStates /\ ChatTypes /\ OwnMessages \cap open = {} /\ chat.shown \cup {i} \subseteq Kept
  BY DEF ChatInv, ChatTypes, TextsHold
<1>2. /\ m \in ChatStates /\ m.shown = chat.shown \cup {i} /\ m.load = chat.load /\ m.since = chat.since /\ m.visible = chat.visible
      /\ TextFollows(chat, m) /\ ReadingHolds(m) /\ (~chat.visible => m.seen = chat.seen)
  BY <1>1, MergeIs
<1>. HIDE DEF m
<1>3. CASE i \notin chat.shown /\ ~chat.visible /\ chat.seen = 0 /\ ~Own(i)
  <2>. DEFINE d == [m EXCEPT !.unread = @ + 1]
  <2>1. Received(chat, i) = d
    BY <1>3 DEF Received, m
  <2>2. /\ d \in ChatStates /\ d.shown = m.shown /\ d.load = m.load /\ d.since = m.since /\ d.visible = m.visible /\ d.seen = m.seen
        /\ d.pending = m.pending /\ d.draft = m.draft /\ d.call = m.call
    BY <1>2 DEF ChatStates
  <2>. HIDE DEF d
  <2>3. ReadingHolds(d)
    BY <1>2, <1>3, <2>2 DEF ReadingHolds
  <2>4. TextFollows(chat, d)
    BY <1>2, <2>2 DEF TextFollows
  <2>. QED  BY <1>2, <2>1, <2>2, <2>3, <2>4
<1>4. CASE ~(i \notin chat.shown /\ ~chat.visible /\ chat.seen = 0 /\ ~Own(i))
  <2>1. Received(chat, i) = m
    BY <1>4 DEF Received, m
  <2>. QED  BY <1>2, <2>1
<1>. QED  BY <1>3, <1>4

LEMMA SameShown ==
    ASSUME NEW x \in ChatStates
    PROVE  [x EXCEPT !.shown = x.shown] = x
BY DEF ChatStates

LEMMA PageLoadedIs ==
    ASSUME ChatInv, NEW e \in ChatEvents, e.messages \subseteq Kept, e.more => e.messages # {}
    PROVE  LET d == PageLoaded(chat, e) IN
           /\ d \in ChatStates /\ d.shown \subseteq Kept /\ d.load = Nothing /\ TextFollows(chat, d) /\ ReadingHolds(d)
           /\ e.messages \subseteq d.shown
           /\ chat.load.older => d.since = chat.since /\ chat.shown \subseteq d.shown
           /\ ~chat.load.older => d.since = Since(e)
<1>1. chat \in ChatStates /\ ChatTypes /\ OwnMessages \cap open = {} /\ chat.shown \subseteq Kept
  BY DEF ChatInv, ChatTypes, TextsHold
<1>. DEFINE some == IF Gap(chat, e) THEN {i \in chat.shown : i >= Oldest(e)} ELSE chat.shown
            c == [chat EXCEPT !.shown = some]
            w == Windowed(chat, e)
<1>2. some \subseteq chat.shown /\ (chat.load.older => some = chat.shown) /\ some \in SUBSET Nat
  BY <1>1 DEF Gap, ChatStates
<1>3. w = Merge(IF Gap(chat, e) THEN [chat EXCEPT !.shown = some] ELSE chat, e.messages)
  BY DEF Windowed
<1>4. ~Gap(chat, e) => c = chat
  BY <1>1, SameShown
<1>5. w = Merge(c, e.messages)
  BY <1>3, <1>4
<1>. HIDE DEF some, w
<1>6. /\ c \in ChatStates /\ c.shown = some /\ c.load = chat.load /\ c.since = chat.since /\ c.visible = chat.visible
      /\ c.pending = chat.pending /\ c.draft = chat.draft /\ c.call = chat.call
  BY <1>1, <1>2 DEF ChatStates
<1>. HIDE DEF c
<1>7. /\ w \in ChatStates /\ w.shown = some \cup e.messages /\ w.load = chat.load /\ w.since = chat.since /\ TextFollows(c, w) /\ ReadingHolds(w)
  <2>. DEFINE new == e.messages
  <2>1. c \in ChatStates /\ c.shown \cup new \subseteq Kept
    BY <1>1, <1>2, <1>6
  <2>2. w = Merge(c, new)
    BY <1>5
  <2>. HIDE DEF new
  <2>3. /\ Merge(c, new) \in ChatStates /\ Merge(c, new).shown = c.shown \cup new
        /\ Merge(c, new).load = c.load /\ Merge(c, new).since = c.since
        /\ TextFollows(c, Merge(c, new)) /\ ReadingHolds(Merge(c, new))
    BY <1>1, <2>1, MergeIs
  <2>4. w.shown = some \cup new
    BY <1>6, <2>2, <2>3
  <2>. QED  BY <1>6, <2>2, <2>3, <2>4 DEF new
<1>8. TextFollows(chat, w)
  BY <1>6, <1>7 DEF TextFollows
<1>. DEFINE since == IF chat.load.older THEN chat.since ELSE Since(e)
            w1 == [w EXCEPT !.loaded = TRUE]
            w2 == [w1 EXCEPT !.load = Nothing]
            w3 == [w2 EXCEPT !.failed = FALSE]
            w4 == [w3 EXCEPT !.more = IF Extends(chat, e) THEN e.more ELSE @]
            w5 == [w4 EXCEPT !.since = since]
            d == PageLoaded(chat, e)
<1>9. since \in Nat
  <2>1. e.more => Min(e.messages) \in Nat
    <3>1. e.messages \in SUBSET Nat
      BY DEF ChatEvents
    <3>. QED  BY <3>1, MinIsLeast
  <2>. QED  BY <1>1, <2>1 DEF Since, Oldest, ChatStates
<1>10. d = w5
  <2>1. d = [w4 EXCEPT !.since = IF chat.load.older THEN @ ELSE IF e.more THEN Oldest(e) ELSE 1]
    BY DEF PageLoaded, w
  <2>2. w4.since = chat.since /\ w4 \in ChatStates
    <3>1. w1 \in ChatStates /\ w1.since = w.since
      BY <1>7 DEF ChatStates
    <3>. HIDE DEF w1
    <3>2. w2 \in ChatStates /\ w2.since = w.since
      BY <3>1, CancelledIs DEF ChatStates
    <3>. HIDE DEF w2
    <3>3. w3 \in ChatStates /\ w3.since = w.since
      BY <3>2 DEF ChatStates
    <3>. HIDE DEF w3
    <3>4. (IF Extends(chat, e) THEN e.more ELSE w3.more) \in BOOLEAN
      BY <3>3 DEF ChatStates, ChatEvents
    <3>. QED  BY <1>7, <3>3, <3>4 DEF ChatStates
  <2>. HIDE DEF w4
  <2>. QED  BY <2>1, <2>2 DEF Since
<1>11. /\ w1 \in ChatStates /\ w1.shown = w.shown /\ w1.since = w.since /\ w1.pending = w.pending /\ w1.draft = w.draft /\ w1.call = w.call
       /\ w1.visible = w.visible /\ w1.seen = w.seen /\ w1.unread = w.unread
  BY <1>7 DEF ChatStates
<1>. HIDE DEF w1, d, since
<1>12. /\ w2 \in ChatStates /\ w2.shown = w.shown /\ w2.since = w.since /\ w2.pending = w.pending /\ w2.draft = w.draft /\ w2.call = w.call
       /\ w2.visible = w.visible /\ w2.seen = w.seen /\ w2.unread = w.unread /\ w2.load = Nothing
  BY <1>11, CancelledIs DEF ChatStates
<1>. HIDE DEF w2
<1>13. /\ w3 \in ChatStates /\ w3.shown = w.shown /\ w3.since = w.since /\ w3.pending = w.pending /\ w3.draft = w.draft /\ w3.call = w.call
       /\ w3.visible = w.visible /\ w3.seen = w.seen /\ w3.unread = w.unread /\ w3.load = Nothing
  BY <1>12 DEF ChatStates
<1>. HIDE DEF w3
<1>14. /\ w4 \in ChatStates /\ w4.shown = w.shown /\ w4.since = w.since /\ w4.pending = w.pending /\ w4.draft = w.draft /\ w4.call = w.call
       /\ w4.visible = w.visible /\ w4.seen = w.seen /\ w4.unread = w.unread /\ w4.load = Nothing
  <2>1. (IF Extends(chat, e) THEN e.more ELSE w3.more) \in BOOLEAN
    BY <1>13 DEF ChatStates, ChatEvents
  <2>. QED  BY <1>13, <2>1 DEF ChatStates
<1>. HIDE DEF w4
<1>15. /\ w5 \in ChatStates /\ w5.shown = w.shown /\ w5.pending = w.pending /\ w5.draft = w.draft /\ w5.call = w.call
       /\ w5.visible = w.visible /\ w5.seen = w.seen /\ w5.unread = w.unread /\ w5.load = Nothing /\ w5.since = since
  BY <1>9, <1>14 DEF ChatStates
<1>. HIDE DEF w5
<1>16. ReadingHolds(d)
  <2>1. Unseen(d) = Unseen(w)
    BY <1>10, <1>15 DEF Unseen
  <2>. QED  BY <1>7, <1>10, <1>15, <2>1 DEF ReadingHolds
<1>17. TextFollows(chat, d)
  BY <1>8, <1>10, <1>15 DEF TextFollows
<1>18. d.shown \subseteq Kept /\ e.messages \subseteq d.shown /\ (chat.load.older => chat.shown \subseteq d.shown)
  BY <1>1, <1>2, <1>7, <1>10, <1>15
<1>19. (chat.load.older => d.since = chat.since) /\ (~chat.load.older => d.since = Since(e))
  BY <1>10, <1>15 DEF since
<1>20. d \in ChatStates /\ d.load = Nothing
  BY <1>10, <1>15
<1>21. d = PageLoaded(chat, e)
  BY DEF d
<1>. QED  BY <1>16, <1>17, <1>18, <1>19, <1>20, <1>21

LEMMA HearKeeps ==
    ASSUME ChatInv, Hear
    PROVE  ChatInv'
<1>1. PICK events, e : events = link.events /\ e = events[1]
  OBVIOUS
<1>2. /\ events \in Seq(ChatEvents) /\ events # << >> /\ chat' = Handled(chat, e) /\ link' = [link EXCEPT !.events = Tail(events)]
      /\ messages' = messages /\ open' = open /\ silent' = silent /\ chatRequests' = chatRequests /\ made' = made
  <2>1. link.events \in Seq(ChatEvents) /\ link.events # << >>
    BY DEF Hear, ChatInv, ChatTypes
  <2>2. Head(link.events) = e
    BY <1>1, <2>1
  <2>. QED  BY <1>1, <2>1, <2>2 DEF Hear
<1>3. e \in ChatEvents /\ EventHolds(e) /\ PageIsWhole(1, events)
  <2>1. 1 \in DOMAIN events /\ e \in ChatEvents
    BY <1>1, <1>2, EmptySeq
  <2>. QED  BY <1>1, <2>1 DEF ChatInv, EventsHold
<1>4. /\ chat \in ChatStates /\ ChatTypes /\ OwnMessages \cap open = {} /\ chat.shown \subseteq Kept /\ ReadingHolds(chat)
  BY DEF ChatInv, ChatTypes, TextsHold
<1>5. TextFollows(chat, chat)
  BY DEF TextFollows
<1>. DEFINE d == Handled(chat, e)
<1>6. /\ d \in ChatStates /\ d.shown \subseteq Kept /\ TextAnswered(chat, d) /\ d.load \in {chat.load, Nothing}
      /\ ReadingHolds(d) /\ TakesIn(chat, d, e)
  <2>1. CASE e.is = "message"
    <3>1. PICK i \in e.messages : e.messages = {i}
      BY <1>3, <2>1 DEF EventHolds
    <3>2. i \in Kept
      BY <1>3, <2>1, <3>1 DEF EventHolds
    <3>3. (CHOOSE j \in e.messages : TRUE) = i
      BY <3>1
    <3>4. d = Received(chat, i)
      BY <2>1, <3>3 DEF Handled
    <3>5. /\ d \in ChatStates /\ d.shown = chat.shown \cup {i} /\ d.load = chat.load /\ d.since = chat.since
          /\ TextFollows(chat, d) /\ ReadingHolds(d)
      BY <3>2, <3>4, ReceivedIs
    <3>. HIDE DEF d
    <3>. QED  BY <1>4, <2>1, <3>1, <3>2, <3>5 DEF TextAnswered, TakesIn
  <2>2. CASE e.is = "ack"
    <3>1. d = AnswerTaken(chat, e)
      BY <2>2 DEF Handled
    <3>2. CASE chat.call # e.call
      <4>1. d = chat
        BY <3>1, <3>2 DEF AnswerTaken
      <4>. HIDE DEF d
      <4>. QED  BY <1>4, <1>5, <2>2, <4>1 DEF TextAnswered, TakesIn
    <3>3. CASE chat.call = e.call /\ e.result = "ok"
      <4>1. d = Merge(chat, e.messages)
        BY <3>1, <3>3 DEF AnswerTaken
      <4>2. e.messages \subseteq Kept
        BY <1>3, <3>3 DEF EventHolds
      <4>. HIDE DEF d
      <4>3. /\ d \in ChatStates /\ d.shown = chat.shown \cup e.messages /\ d.load = chat.load /\ d.since = chat.since
            /\ TextFollows(chat, d) /\ ReadingHolds(d)
        BY <1>4, <4>1, <4>2, MergeIs
      <4>. QED  BY <1>4, <2>2, <4>2, <4>3 DEF TextAnswered, TakesIn
    <3>4. CASE chat.call = e.call /\ e.result = "refused"
      <4>. DEFINE d1 == [chat EXCEPT !.pending = 0]
                  d2 == [d1 EXCEPT !.call = 0]
      <4>1. d = [d2 EXCEPT !.delivery = "idle"]
        BY <3>1, <3>4 DEF AnswerTaken
      <4>. HIDE DEF d
      <4>2. /\ d1 \in ChatStates /\ d1.shown = chat.shown /\ d1.load = chat.load /\ d1.since = chat.since /\ d1.pending = 0
            /\ d1.draft = chat.draft /\ d1.visible = chat.visible /\ d1.seen = chat.seen /\ d1.unread = chat.unread
        BY <1>4 DEF ChatStates
      <4>. HIDE DEF d1
      <4>3. /\ d2 \in ChatStates /\ d2.shown = chat.shown /\ d2.load = chat.load /\ d2.since = chat.since /\ d2.pending = 0 /\ d2.call = 0
            /\ d2.draft = chat.draft /\ d2.visible = chat.visible /\ d2.seen = chat.seen /\ d2.unread = chat.unread
        BY <4>2 DEF ChatStates
      <4>. HIDE DEF d2
      <4>4. /\ d \in ChatStates /\ d.shown = chat.shown /\ d.load = chat.load /\ d.since = chat.since /\ d.pending = 0 /\ d.call = 0
            /\ d.draft = chat.draft /\ d.visible = chat.visible /\ d.seen = chat.seen /\ d.unread = chat.unread
        BY <4>1, <4>3 DEF ChatStates
      <4>5. RefusalIsFinal(e) /\ e.is = "ack"
        BY <1>3, <2>2 DEF EventHolds
      <4>6. TextAnswered(chat, d)
        BY <3>4, <4>4, <4>5 DEF TextAnswered, RefusalIsFinal
      <4>7. ReadingHolds(d)
        BY <1>4, <4>4 DEF ReadingHolds, Unseen
      <4>. QED  BY <1>4, <2>2, <4>4, <4>6, <4>7 DEF TakesIn
    <3>5. CASE chat.call = e.call /\ e.result \notin {"ok", "refused"}
      <4>1. d = Doubtful(chat)
        BY <3>1, <3>5 DEF AnswerTaken
      <4>. HIDE DEF d
      <4>2. /\ d \in ChatStates /\ d.shown = chat.shown /\ d.load = chat.load /\ d.since = chat.since /\ d.pending = chat.pending
            /\ d.draft = chat.draft /\ d.call = 0 /\ d.visible = chat.visible /\ d.seen = chat.seen /\ d.unread = chat.unread
        BY <1>4, <4>1, CancelledIs
      <4>3. ReadingHolds(d)
        BY <1>4, <4>2 DEF ReadingHolds, Unseen
      <4>. QED  BY <1>4, <2>2, <4>2, <4>3 DEF TextAnswered, TextFollows, TakesIn
    <3>. QED  BY <3>2, <3>3, <3>4, <3>5
  <2>3. CASE e.is \notin {"message", "ack"}
    <3>1. d = IF chat.load.call # e.call THEN chat ELSE IF e.result = "ok" THEN PageLoaded(chat, e) ELSE Unloaded(chat)
      BY <2>3 DEF Handled
    <3>2. e.is = "page"
      BY <1>3, <2>3 DEF ChatEvents
    <3>. HIDE DEF d
    <3>3. CASE chat.load.call # e.call
      BY <1>4, <1>5, <3>1, <3>2, <3>3 DEF TextAnswered, TakesIn
    <3>4. CASE chat.load.call = e.call /\ e.result = "ok"
      <4>1. e.messages \subseteq Kept /\ (e.more => e.messages # {})
        BY <1>1, <1>3, <3>2, <3>4 DEF EventHolds, PageIsWhole
      <4>2. d = PageLoaded(chat, e)
        BY <3>1, <3>4
      <4>3. /\ d \in ChatStates /\ d.shown \subseteq Kept /\ d.load = Nothing /\ TextFollows(chat, d) /\ ReadingHolds(d)
            /\ e.messages \subseteq d.shown
            /\ chat.load.older => d.since = chat.since /\ chat.shown \subseteq d.shown
            /\ ~chat.load.older => d.since = Since(e)
        BY <1>3, <4>1, <4>2, PageLoadedIs
      <4>4. TakesIn(chat, d, e)
        BY <3>2, <3>4, <4>3 DEF TakesIn
      <4>. QED  BY <4>3, <4>4 DEF TextAnswered
    <3>5. CASE chat.load.call = e.call /\ e.result # "ok"
      <4>1. d = Unloaded(chat)
        BY <3>1, <3>5
      <4>2. /\ d \in ChatStates /\ d.shown = chat.shown /\ d.load = Nothing /\ d.since = chat.since /\ d.pending = chat.pending
            /\ d.draft = chat.draft /\ d.call = chat.call /\ d.visible = chat.visible /\ d.seen = chat.seen /\ d.unread = chat.unread
        BY <1>4, <4>1, CancelledIs
      <4>3. ReadingHolds(d)
        BY <1>4, <4>2 DEF ReadingHolds, Unseen
      <4>. QED  BY <1>4, <3>2, <4>2, <4>3 DEF TextAnswered, TextFollows, TakesIn
    <3>. QED  BY <3>3, <3>4, <3>5
  <2>. QED  BY <2>1, <2>2, <2>3
<1>. HIDE DEF d
<1>7. chat' = d
  BY <1>2 DEF d
<1>8. ReadingHolds(chat') /\ TextAnswered(chat, chat') /\ TakesIn(chat, chat', e)
  BY <1>6, <1>7
<1>. QED  BY <1>1, <1>2, <1>6, <1>7, <1>8, EventTaken

LEMMA ChatStart ==
    ASSUME ChatInit
    PROVE  ChatInv
<1>1. /\ messages = << >> /\ open = {} /\ silent = {} /\ chatRequests = {}
      /\ link = [up |-> FALSE, events |-> << >>] /\ chat = FreshChat /\ made = [requests |-> 0, texts |-> 0, breaks |-> 0]
  BY DEF ChatInit
<1>2. chat \in ChatStates
  BY <1>1, CancelledIs DEF FreshChat, ChatStates, Nothing, ChatLoads
<1>3. /\ chat.shown = {} /\ chat.draft = 0 /\ chat.pending = 0 /\ chat.call = 0 /\ chat.unread = 0 /\ ~chat.visible /\ chat.seen = 0
      /\ chat.since = 0 /\ chat.load.call = 0
  BY <1>1 DEF FreshChat, Nothing
<1>4. messages \in Seq(ChatMessage) /\ DOMAIN messages = {} /\ OwnMessages = {} /\ Kept = {}
  BY <1>1 DEF OwnMessages, Kept
<1>5. link \in [up: BOOLEAN, events: Seq(ChatEvents)] /\ link.events = << >> /\ DOMAIN link.events = {} /\ ~link.up
  BY <1>1
<1>6. ChatTypes
  BY <1>1, <1>2, <1>3, <1>4, <1>5 DEF ChatTypes
<1>7. TextsHold
  BY <1>1, <1>3, <1>4 DEF TextsHold
<1>8. RequestsHold
  BY <1>1 DEF RequestsHold
<1>9. EventsHold /\ WindowIsCurrent
  BY <1>1, <1>3, <1>5 DEF EventsHold, WindowIsCurrent
<1>10. ReadingHolds(chat)
  BY <1>3 DEF ReadingHolds
<1>. QED  BY <1>6, <1>7, <1>8, <1>9, <1>10 DEF ChatInv

LEMMA ChatStepKeeps ==
    ASSUME ChatInv, ChatNext
    PROVE  ChatInv'
<1>1. CASE Write \/ \E i \in DOMAIN messages : CommitMessage(i) \/ Announce(i)
  BY <1>1, WriteKeeps, CommitMessageKeeps, AnnounceKeeps
<1>2. CASE \E c \in chatRequests : ServeHistory(c) \/ ServeSend(c) \/ Insert(c) \/ AnswerCreated(c)
  BY <1>2, ServeHistoryKeeps, ServeSendKeeps, InsertKeeps, AnswerCreatedKeeps
<1>3. CASE Recover \/ LoadOlder \/ RetryHistory \/ Compose \/ SendText
  BY <1>3, ReadingHistoryKeeps, ComposeKeeps, SendTextKeeps
<1>4. CASE ChatTimeOut \/ Hear \/ ShowChat \/ OpenLink \/ LoseLink
  BY <1>4, ChatTimeOutKeeps, HearKeeps, ShowChatKeeps, LinkKeeps
<1>. QED  BY <1>1, <1>2, <1>3, <1>4 DEF ChatNext

\* Texts, requests, events and the window agree: a text that has left the input is in
\* the table, what is still to be sent is the text in the input or is there already, a
\* refusal that is listened to is the last word, and what a page leaves out is on its way.
\* (ChatClient, createChatService, setupChatHandler)
THEOREM ChatInvariance == ChatSpec => []ChatInv
<1>1. ChatInit => ChatInv
  BY ChatStart
<1>2. ChatInv /\ [ChatNext]_chatVars => ChatInv'
  <2>1. ASSUME ChatInv, ChatNext PROVE ChatInv'
    BY <2>1, ChatStepKeeps
  <2>2. ASSUME ChatInv, UNCHANGED chatVars PROVE ChatInv'
    <3>1. /\ messages' = messages /\ open' = open /\ silent' = silent /\ chatRequests' = chatRequests
          /\ link' = link /\ chat' = chat /\ made' = made
      BY <2>2 DEF chatVars
    <3>2. /\ chat \in ChatStates /\ link \in [up: BOOLEAN, events: Seq(ChatEvents)] /\ made \in [requests: Nat, texts: Nat, breaks: Nat]
      BY <2>2 DEF ChatInv, ChatTypes
    <3>3. ReadingHolds(chat)'
      BY <2>2, <3>1, ReadingStands DEF ChatInv
    <3>. QED  BY <2>2, <3>1, <3>2, <3>3, StandingKeeps
  <2>. QED  BY <2>1, <2>2
<1>. QED  BY <1>1, <1>2, PTL DEF ChatSpec

\* Whatever attempts are repeated, lost, late or cut off, and however the messages of
\* others come between a page and the events: a text leaves the input when it is in the table
\* and never gets into it twice, everything the others were told of since the window was
\* read is in it, and what is counted as unread is what was not seen.
\* (send, load, receive and markRead of ChatClient; the unique key of ChatMessage)
THEOREM TheChatIsSound == ChatSpec => []ChatIsSound
<1>1. ChatInv => ChatIsSound
  <2>. SUFFICES ASSUME ChatInv PROVE ChatIsSound
    OBVIOUS
  <2>1. SentOnce
    <3>. SUFFICES ASSUME NEW t \in 1..made.texts PROVE Cardinality(Copies(t)) = 1 \/ (t = chat.draft /\ Copies(t) = {})
      BY DEF SentOnce
    <3>1. Copies(t) = {i \in OwnMessages : messages[i].text = t}
      BY OwnAreKept DEF Copies, OwnMessages, Kept
    <3>2. \A i, j \in Copies(t) : i = j
      BY <3>1 DEF ChatInv, TextsHold
    <3>3. CASE Copies(t) = {}
      BY <3>1, <3>3 DEF ChatInv, TextsHold
    <3>4. CASE Copies(t) # {}
      <4>1. PICK i : Copies(t) = {i}
        BY <3>2, <3>4
      <4>. QED  BY <4>1, FS_Singleton
    <3>. QED  BY <3>3, <3>4
  <2>2. UnreadIsCounted
    BY DEF ChatInv, ReadingHolds, UnreadIsCounted
  <2>. QED  BY <2>1, <2>2 DEF ChatInv, ChatIsSound
<1>. QED  BY <1>1, ChatInvariance, PTL
==============================================================================
