----------------------------- MODULE CheckersSearch -----------------------------
(***************************************************************************)
(* The two searches over the rules: the bots' alpha-beta, which counts     *)
(* turns and follows every hop of a capture, and the puzzles' iterated     *)
(* negamax over whole turns, which is extended while captures are forced,  *)
(* narrowed to a window, and stopped early at a proven result.             *)
(*                                                                         *)
(* The order in which moves are tried is any fixed one, and budgets are    *)
(* large enough: a pass that is cut off publishes nothing.                 *)
(***************************************************************************)
EXTENDS Checkers, Sequences, FiniteSetsExt

CONSTANTS
    Depth,              \* bound: turns searched
    GapWindow           \* the window of scoreMoves, in evaluation units

EVALUATION_SCALE == 20
Won(left) == EVALUATION_SCALE * (10000 + left)          \* the bots' score of a won game
WIN_SCORE == EVALUATION_SCALE * 1000
MaxQuiescence == 24
Infinity == 10 * Won(0)

Larger(x, y) == IF x > y THEN x ELSE y
\* The only element of S.
The(S) == CHOOSE x \in S : TRUE
Smaller(x, y) == IF x < y THEN x ELSE y
InSomeOrder(S) == FoldSet(LAMBDA x, q : Append(q, x), << >>, S)

Evaluate(b, color) ==
    LET Sum(S) == FoldSet(LAMBDA s, n : n + Worth(b[s], s), 0, S) IN
    Sum(Owned(b, color)) - Sum(Owned(b, Opponent(color)))

------------------------------------------------------------------------------
(* botSearch.js: scoreBotMoves *)

BotTerminal(g, left, color) ==
    IF g.winner = "none" THEN 0 ELSE IF g.winner = color THEN Won(left) ELSE -Won(left)

\* Mutant: every hop of a capture counts as a turn.
SpentHops(g, next) == 1

Spent(g, next) == IF next.turn = g.turn THEN 0 ELSE 1

RECURSIVE BotSearch(_, _, _, _, _), BotBest(_, _, _, _, _, _, _)
BotSearch(g, left, alpha, beta, color) ==
    IF g.over THEN BotTerminal(g, left, color)
    ELSE IF left <= 0 /\ g.chain = NoSquare THEN Evaluate(g.board, color)
    ELSE BotBest(g, InSomeOrder(Legal(g)), left, alpha, beta, color, IF g.turn = color THEN -Infinity ELSE Infinity)

\* The best of the moves not tried yet, until the window closes.
BotBest(g, moves, left, alpha, beta, color, best) ==
    IF moves = << >> \/ alpha >= beta THEN best
    ELSE LET next == Play(g, Head(moves))
             value == BotSearch(next, left - Spent(g, next), alpha, beta, color)
             better == IF g.turn = color THEN Larger(best, value) ELSE Smaller(best, value) IN
         BotBest(g, Tail(moves), left, IF g.turn = color THEN Larger(alpha, better) ELSE alpha,
                 IF g.turn = color THEN beta ELSE Smaller(beta, better), color, better)

ScoreBotMove(g, m, depth) ==
    LET next == Play(g, m) IN BotSearch(next, depth - Spent(g, next), -Infinity, Infinity, g.turn)

------------------------------------------------------------------------------
(* puzzleSearch.js *)

\* Every way to complete the turn, hop by hop.
RECURSIVE ExtendChain(_, _)
ExtendChain(g, hops) ==
    LET Tried(m) ==
            LET h == PlayOn(g, m)
                path == Append(hops, <<m.from, m.to>>) IN
            IF h.chain # NoSquare THEN ExtendChain(h, path)
            ELSE {[hops |-> path, after |-> h, promoted |-> Crowned(g.board[m.from], m.to)]} IN
    UNION {Tried(m) : m \in Legal(g)}

FullMoves(g) == IF g.over THEN {} ELSE ExtendChain(g, << >>)
Afters(moves) == {m.after : m \in moves}

TerminalScore(g, color, ply) == LET won == WIN_SCORE - EVALUATION_SCALE * ply IN IF g.winner = color THEN won ELSE -won

HasCaptures(g) == \E s \in Owned(g.board, g.turn) : Captures(g.board, s) # {}

AtLeaf(g, depth) == depth <= 0 /\ (-depth >= MaxQuiescence \/ ~HasCaptures(g))

\* The opponent's window.
WindowOf(alpha, beta) == <<-beta, -alpha>>

\* The score and the principal variation.
RECURSIVE Negamax(_, _, _, _, _), NegamaxBest(_, _, _, _, _, _)
Negamax(g, depth, ply, alpha, beta) ==
    IF g.over THEN [score |-> TerminalScore(g, g.turn, ply), pv |-> << >>]
    ELSE IF AtLeaf(g, depth) THEN [score |-> Evaluate(g.board, g.turn), pv |-> << >>]
    ELSE NegamaxBest(InSomeOrder(FullMoves(g)), depth, ply, alpha, beta, [score |-> -Infinity, pv |-> << >>])

NegamaxBest(moves, depth, ply, alpha, beta, best) ==
    IF moves = << >> \/ alpha >= beta THEN best
    ELSE LET window == WindowOf(alpha, beta) IN
         The({NegamaxBest(Tail(moves), depth, ply, Larger(alpha, -below.score), beta,
                          [score |-> Larger(best.score, -below.score),
                           pv |-> IF -below.score > alpha THEN << Head(moves) >> \o below.pv ELSE best.pv])
              : below \in {Negamax(Head(moves).after, depth - 1, ply + 1, window[1], window[2])}})

Decided(score) == LET sure == WIN_SCORE - EVALUATION_SCALE * 200 IN score >= sure \/ score <= -sure

\* search: deeper and deeper, but not beyond a result that is proved.
Deepen(g, target, ply, alpha, beta) ==
    The({found[Min({target} \cup {d \in 1..target : Decided(found[d].score) /\ Len(found[d].pv) <= d})]
         : found \in {[d \in 1..target |-> Negamax(g, d, ply, alpha, beta)]}})

Search(g, target, ply, alpha, beta) ==
    IF g.over THEN [score |-> TerminalScore(g, g.turn, ply), pv |-> << >>]
    ELSE Deepen(g, target, ply, alpha, beta)

\* scoreMoves: moves after the first are only compared with the best so far.
RECURSIVE ScoreInTurn(_, _, _, _, _)
ScoreInTurn(moves, depth, ply, window, best) ==
    IF moves = << >> THEN {}
    ELSE LET alpha == IF best = -Infinity THEN -Infinity ELSE best - window IN
         UNION {{[move |-> Head(moves), score |-> -found.score, pv |-> found.pv, exact |-> -found.score > alpha]}
                    \cup ScoreInTurn(Tail(moves), depth, ply, window, Larger(best, -found.score))
                : found \in {Search(Head(moves).after, depth, ply + 1, -Infinity, -alpha)}}

ScoreMoves(g, depth, ply, window) == ScoreInTurn(InSomeOrder(FullMoves(g)), depth, ply, window, -Infinity)

------------------------------------------------------------------------------
(* What the searches should find: plain minimax over whole turns *)

LargestOf(S) == CHOOSE x \in S : \A y \in S : x >= y

RECURSIVE Turns(_)
Turns(g) == UNION {IF Play(g, m).turn # g.turn THEN {Play(g, m)} ELSE Turns(Play(g, m)) : m \in Legal(g)}

RECURSIVE Minimax(_, _)
Minimax(g, left) ==
    IF g.over THEN BotTerminal(g, left, g.turn)
    ELSE IF left <= 0 THEN Evaluate(g.board, g.turn)
    ELSE LargestOf({-Minimax(h, left - 1) : h \in Turns(g)})

\* The whole turns a hop may become.
Completed(g, h) == IF h.turn = g.turn THEN Turns(h) ELSE {h}

RECURSIVE Plain(_, _, _)
Plain(g, depth, ply) ==
    IF g.over THEN TerminalScore(g, g.turn, ply)
    ELSE IF AtLeaf(g, depth) THEN Evaluate(g.board, g.turn)
    ELSE LargestOf({-Plain(h, depth - 1, ply + 1) : h \in Afters(FullMoves(g))})

\* Each bot move is worth what the best of its continuations is worth to perfect
\* players over the turns searched.  (scoreBotMoves)
BotScoresAreMinimax ==
    \A m \in Legal(match) :
        ScoreBotMove(match, m, Depth) = LargestOf({-Minimax(h, Depth - 1) : h \in Completed(match, Play(match, m))})

\* Deepening, narrowing and stopping early do not change what a search finds.
\* (search)
SearchIsPlain == Search(match, Depth, 0, -Infinity, Infinity).score = Plain(match, Depth, 0)

\* A score marked exact is exact, and another is an upper bound.  (scoreMoves)
MarksAreTrue ==
    \A s \in ScoreMoves(match, Depth, 0, GapWindow) :
        LET value == -Plain(s.move.after, Depth, 1) IN IF s.exact THEN s.score = value ELSE s.score >= value

\* The searches' shortcuts do not change their answers.
SearchIsExact == ~match.over => BotScoresAreMinimax /\ (match.chain = NoSquare => SearchIsPlain /\ MarksAreTrue)
==============================================================================
