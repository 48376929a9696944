---------------------------- MODULE PuzzleSelection ----------------------------
(***************************************************************************)
(* How a position becomes a puzzle: the selection criterion, the line that *)
(* is cut out of the principal variation, the deep verification of every   *)
(* decision in it, and the check of a visitor's solution.  *)
(* Searches that run out of budget reject the position.                    *)
(***************************************************************************)
EXTENDS CheckersSearch

CONSTANTS               \* CRITERIA; scores are in evaluation units
    MinLegal, MinPieces, MinPly, PrescanDepth, ScanDepth, MinVerifyDepth, MaxLinePlies

MIN_GAP == 30
MIN_GAIN == 30
PRESCAN_GAP == 20
PRESCAN_GAIN == 20
MIN_BEST == -60
TIE_EPSILON == 1

Material(b, color) ==
    LET Worths(c) == {s \in Owned(b, c) : b[s].queen} IN
    Cardinality(Owned(b, color)) + 4 * Cardinality(Worths(color))
        - Cardinality(Owned(b, Opponent(color))) - 4 * Cardinality(Worths(Opponent(color)))

Best(scored) == CHOOSE s \in scored : \A t \in scored : s.score >= t.score
Others(scored) == scored \ {Best(scored)}
Wins(score) == score >= WIN_SCORE - EVALUATION_SCALE * 200
Separated(scored, gap) == \A s \in Others(scored) : Best(scored).score - s.score >= gap

------------------------------------------------------------------------------
(* Selection *)

Takes(g, move) == Cardinality(DOMAIN move.after.board) < Cardinality(DOMAIN g.board)
Before(g, line, i) == IF i = 1 THEN g ELSE line[i - 1].after

\* A gain that is not about to be taken back, or the game.
Realised(g, line, i) ==
    LET end == line[i].after IN
    \/ end.over /\ end.winner = g.turn
    \/ /\ ~end.over /\ (Takes(Before(g, line, i), line[i]) \/ line[i].promoted)
       /\ Material(end.board, g.turn) > Material(g.board, g.turn) /\ ~HasCaptures(end)

\* trimLine: empty when nothing is gained.
TrimLine(pv, g) ==
    LET ends == {i \in DOMAIN pv : i % 2 = 1 /\ Realised(g, pv, i)} IN
    IF ends = {} THEN << >> ELSE SubSeq(pv, 1, Min(ends))

Variation(scored) == << Best(scored).move >> \o Best(scored).pv
LineOf(scored, g) == TrimLine(Variation(scored), g)
Publishable(line) == line # << >> /\ Len(line) <= MaxLinePlies

Gain(scored, g) == Best(scored).score - Evaluate(g.board, g.turn)

\* candidate: none or one line, for a position that will do.
Candidate(g, ply) ==
    IF \/ g.over \/ g.chain # NoSquare \/ ply < MinPly
       \/ Cardinality(FullMoves(g)) < MinLegal \/ Cardinality(DOMAIN g.board) < MinPieces
       \/ \E pre \in {ScoreMoves(g, PrescanDepth, 0, PRESCAN_GAP)} :
              ~Separated(pre, PRESCAN_GAP) \/ Gain(pre, g) < PRESCAN_GAIN
    THEN {}
    ELSE {line \in {LineOf(scan, g) : scan \in
                       {s \in {ScoreMoves(g, ScanDepth, 0, MIN_GAP)} :
                           /\ Separated(s, MIN_GAP) /\ Gain(s, g) >= MIN_GAIN /\ Best(s).score >= MIN_BEST
                           /\ \A t \in Others(s) : ~Wins(t.score)}} :
             Publishable(line)}

------------------------------------------------------------------------------
(* Verification *)

\* Mutant: a second winning move is not looked for, its distance counting as a gap.
UniqueByGap(scored) == Separated(scored, MIN_GAP)

Unique(scored) == Separated(scored, MIN_GAP) /\ \A s \in Others(scored) : ~Wins(s.score)

Expected(scored, move) == {s \in scored : s.move.hops = move.hops}

\* A decision of the player in verifyLine.
Decision(g, scored, i, move) ==
    LET best == Best(scored).score
        gain == best - Evaluate(g.board, g.turn) IN
    Best(scored) \in Expected(scored, move) /\ gain >= MIN_GAIN /\ (i = 1 => best >= MIN_BEST) /\ Unique(scored)

\* The defence must be a best one, and leave the player the gain.
Defence(g, scored, move) ==
    /\ \E s \in Expected(scored, move) : s.exact /\ Best(scored).score - s.score <= TIE_EPSILON
    /\ -Best(scored).score >= Evaluate(g.board, g.turn) + MIN_GAIN

VerifyLine(g, line, depth) ==
    /\ Len(line) % 2 = 1
    /\ \A i \in DOMAIN line :
           \E scored \in {ScoreMoves(Before(g, line, i), depth, i - 1, IF i % 2 = 1 THEN MIN_GAP ELSE TIE_EPSILON)} :
               /\ Expected(scored, line[i]) # {}
               /\ IF i % 2 = 1 THEN Decision(g, scored, i, line[i]) ELSE Defence(g, scored, line[i])
    /\ Realised(g, line, Len(line))

Needed(line) == Larger(Len(line) + 2, MinVerifyDepth)

\* A round of verifyCandidate: the line the deeper search finds for the same first move, if any,
\* and the rest of its variation.
Deepened(g, line, depth) ==
    UNION {{[line |-> found, rest |-> SubSeq(pv, Len(found) + 1, Len(pv))] :
               found \in {l \in {TrimLine(pv, g)} : Publishable(l)}} :
           pv \in {Variation(r) : r \in {r \in {ScoreMoves(g, depth, 0, MIN_GAP)} : Best(r).move.hops = line[1].hops}}}

\* verifyCandidate: the line must settle at its depth within the rounds.
RECURSIVE VerifyRounds(_, _, _, _)
VerifyRounds(g, line, depth, rounds) ==
    IF rounds = 0 THEN {}
    ELSE UNION {IF Needed(found.line) > depth THEN VerifyRounds(g, found.line, Needed(found.line), rounds - 1)
                ELSE IF VerifyLine(g, found.line, depth)
                     THEN {[line |-> found.line, depth |-> depth, continuation |-> found.rest]} ELSE {} :
                found \in Deepened(g, line, depth)}
VerifyCandidate(g, line) == VerifyRounds(g, line, Needed(line), 2)

\* processPosition, before the classification: none or one puzzle.
PuzzleOf(g, ply) == UNION {VerifyCandidate(g, line) : line \in Candidate(g, ply)}

------------------------------------------------------------------------------
(* Symmetry and solutions *)

Turned(s) == <<7 - s[1], 7 - s[2]>>
Mirror(g) ==
    [NewGame([s \in {Turned(t) : t \in DOMAIN g.board} |->
        [g.board[Turned(s)] EXCEPT !.color = Opponent(@)]]) EXCEPT !.turn = Opponent(g.turn)]

\* puzzleGame: a game that begins at the puzzle's position, draws included.
PuzzleGame(g) == [NewGame(g.board) EXCEPT !.turn = g.turn, !.seen = [p \in {Position(g)} |-> 1]]

\* Replaying a turn's hops: the chain goes on after all of them but the last.
RECURSIVE Replayed(_, _)
Replayed(g, hops) ==
    LET found == {m \in Legal(g) : <<m.from, m.to>> = Head(hops)} IN
    IF g.over \/ found = {} THEN {}
    ELSE LET h == Play(g, CHOOSE m \in found : TRUE) IN
         IF (h.chain = NoSquare) # (Len(hops) = 1) THEN {}
         ELSE IF Len(hops) = 1 THEN {h} ELSE Replayed(h, Tail(hops))

RECURSIVE Solved(_, _)
Solved(g, line) == line = << >> \/ \E h \in Replayed(g, Head(line).hops) : Solved(h, Tail(line))

\* validatePuzzleSolve for a visitor who submits the player's turns of the line.
ValidatePuzzleSolve(g, line) == Solved(PuzzleGame(g), line)

------------------------------------------------------------------------------
(* Properties *)

\* The full-width value of a move to the player, i plies into a puzzle.
Value(move, depth, i) == -Plain(move.after, depth, i)

\* At each of the player's decisions the move of the line is better than every other move by the
\* margin, and the only one that wins.
SolutionIsUnique(g, p) ==
    \A i \in {i \in DOMAIN p.line : i % 2 = 1} :
        \E best \in {Value(p.line[i], p.depth, i)} :
            \A move \in {m \in FullMoves(Before(g, p.line, i)) : m.hops # p.line[i].hops} :
                \E other \in {Value(move, p.depth, i)} : best - other >= MIN_GAP /\ ~Wins(other)

\* A puzzle has one solution, full width, to the depth it claims, and playing the solution by
\* the rules of the game is accepted as solving it.  (verifyCandidate, validatePuzzleSolve)
HasOneSolution(g, p) == SolutionIsUnique(g, p) /\ ValidatePuzzleSolve(g, p.line)
==============================================================================
