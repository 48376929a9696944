---------------------------- MODULE PuzzleCommentary ----------------------------
(***************************************************************************)
(* What is written about a puzzle: its themes, and the statements of its   *)
(* commentary about the position, each turn of the solution, the           *)
(* alternatives and the end.  A statement is the fact it states; its       *)
(* wording is left out.                                                    *)
(***************************************************************************)
EXTENDS PuzzleSelection

CONSTANT CommentaryDepth        \* the depth of buildCommentary's search

------------------------------------------------------------------------------
(* classify *)

\* The pieces of a colour that a turn takes: serializeMove's captured.
Captured(before, after, color) == Owned(before.board, color) \ Owned(after.board, color)
TakenBy(g, line, i) ==
    LET here == Before(g, line, i) IN Captured(here, line[i].after, Opponent(here.turn))

Final(line) == line[Len(line)].after
PlayerTurns(line) == {i \in DOMAIN line : i % 2 = 1}

QuietFirst(g, line) == TakenBy(g, line, 1) = {}
Sacrifice(g, line) == Len(line) > 1 /\ Material(line[2].after.board, g.turn) < Material(g.board, g.turn)
Promotes(line) == \E i \in PlayerTurns(line) : line[i].promoted
CapturesKing(g, line) == \E i \in PlayerTurns(line) : \E s \in TakenBy(g, line, i) : Before(g, line, i).board[s].queen
WinsAtOnce(g, line) == Final(line).over /\ Final(line).winner = g.turn
Immobilises(g, line) == WinsAtOnce(g, line) /\ Owned(Final(line).board, Opponent(g.turn)) # {}
WipesOut(g, line) == WinsAtOnce(g, line) /\ Owned(Final(line).board, Opponent(g.turn)) = {}
MultiJump(line, i) == Len(line[i].hops) >= 2

Themes(g, line) ==
    LET tags == {t \in {"immobilise", "shot", "breakthrough", "king-trap", "multi-jump", "quiet-move"} :
                    CASE t = "immobilise" -> Immobilises(g, line)
                      [] t = "shot" -> Sacrifice(g, line)
                      [] t = "breakthrough" -> Promotes(line)
                      [] t = "king-trap" -> CapturesKing(g, line)
                      [] t = "multi-jump" -> MultiJump(line, 1)
                      [] t = "quiet-move" -> QuietFirst(g, line)}
    IN IF tags = {} /\ \E i \in PlayerTurns(line) : MultiJump(line, i) THEN {"multi-jump"} ELSE tags

\* processPosition: a puzzle nothing can be said of is not published.
ProcessPosition(g, ply) == {p \in PuzzleOf(g, ply) : Themes(g, p.line) # {}}

------------------------------------------------------------------------------
(* The commentary *)

\* pieceCounts
Counts(b, color) ==
    LET kings == {s \in Owned(b, color) : b[s].queen}
    IN [men |-> Cardinality(Owned(b, color) \ kings), kings |-> Cardinality(kings)]

\* describePressure: the men across the middle.
Advanced(b, color) ==
    Cardinality({s \in Owned(b, color) : ~b[s].queen /\ IF color = "red" THEN s[1] <= 3 ELSE s[1] >= 4})

\* positionSummary: the mover's side and the other's, and the turns to compare.
PositionSummary(g, turns) ==
    LET side(color) == [force |-> Counts(g.board, color), advanced |-> Advanced(g.board, color)]
        takes == {m \in turns : Captured(g, m.after, Opponent(g.turn)) # {}}
    IN [mine |-> side(g.turn), theirs |-> side(Opponent(g.turn)),
        captures |-> Cardinality(takes), quiet |-> Cardinality(turns \ takes)]

\* solutionNarration: what is said of the i-th turn.  A capture in reply is one the opponent has
\* to make, and the only one when there is no other turn.
Landing(move) == move.hops[Len(move.hops)][2]
Forced(here) == Cardinality(FullMoves(here)) = 1
Told(g, line, i) ==
    LET taken == TakenBy(g, line, i)
    IN [removed |-> taken, crowned |-> line[i].promoted,
        mustTake |-> i % 2 = 0 /\ taken # {}, forced |-> i % 2 = 0 /\ taken # {} /\ Forced(Before(g, line, i)),
        offered |-> IF i % 2 = 1 /\ taken = {} /\ i < Len(line) THEN {Landing(line[i])} \cap TakenBy(g, line, i + 1) ELSE {}]

\* outcomePhrase
Outcome(g, line) ==
    CASE WipesOut(g, line) -> "nothing is left"
      [] Immobilises(g, line) -> "no legal move"
      [] OTHER -> "goes on"

\* alternativesNarration: other moves, each with two turns of what the search found for it.
Alternatives(g, line) ==
    {<< s.move >> \o SubSeq(s.pv, 1, Smaller(2, Len(s.pv))) :
        s \in {s \in ScoreMoves(g, CommentaryDepth, 0, 2 * Infinity) : s.exact /\ s.move.hops # line[1].hops}}

------------------------------------------------------------------------------
(* Properties *)

\* The game in which somebody plays the first i turns of a line by its rules.
RECURSIVE After(_, _, _)
After(g, line, i) ==
    IF i = 0 THEN PuzzleGame(g) ELSE The(Replayed(After(g, line, i - 1), line[i].hops))

\* What is said of a turn is so on the board of whoever plays it: before it, after it, and so on.
TellsTrue(told, here, next, later) ==
    LET color == here.turn
        takes(h) == Captured(here, h, Opponent(color)) # {}
    IN /\ told.removed = Captured(here, next, Opponent(color))
       /\ told.crowned <=> Counts(next.board, color).kings > Counts(here.board, color).kings
       /\ \E turns \in {Turns(here)} :
              (told.mustTake => \A h \in turns : takes(h)) /\ (told.forced => turns = {next})
       /\ told.offered \subseteq Captured(next, later, color)

\* The game ends as the commentary says, or goes on.
EndsAsTold(outcome, color, end) ==
    CASE outcome = "nothing is left" -> end.over /\ end.winner = color /\ Owned(end.board, Opponent(color)) = {}
      [] outcome = "no legal move" -> end.over /\ end.winner = color /\ end.turn # color /\ Legal(end) = {}
      [] OTHER -> ~end.over

\* A line of the search is one that can be played.
RECURSIVE Playable(_, _)
Playable(g, line) == line = << >> \/ \E m \in FullMoves(g) : m.hops = Head(line).hops /\ Playable(m.after, Tail(line))

CommentaryIsTrue(g, p) ==
    /\ \E games \in {[i \in 0 .. Len(p.line) |-> After(g, p.line, i)]} :
           /\ \A i \in DOMAIN p.line :
                  TellsTrue(Told(g, p.line, i), games[i - 1], games[i], games[Smaller(i + 1, Len(p.line))])
           /\ EndsAsTold(Outcome(g, p.line), g.turn, games[Len(p.line)])
    /\ \A shown \in {<<Final(p.line), p.continuation>>} \cup {<<g, line>> : line \in Alternatives(g, p.line)} :
           Playable(shown[1], shown[2])

\* A published puzzle has one solution, full width, to the depth it claims, which is accepted when
\* it is played by the rules of the game; and what is written about it is true of the game that is
\* played, although it was found by a search that knows of no draws.  Of its mirror image, which
\* counts as a copy of it, the same would be said.  (processPosition, buildCommentary)
PuzzlesAreSound ==
    ~match.over /\ match.chain = NoSquare =>
        /\ \A p \in ProcessPosition(match, MinPly) : HasOneSolution(match, p) /\ CommentaryIsTrue(match, p)
        /\ \E sides \in {{PositionSummary(g, FullMoves(g)) : g \in {match, Mirror(match)}}} : Cardinality(sides) = 1
==============================================================================
