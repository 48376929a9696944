-------------------------------- MODULE Checkers --------------------------------
(***************************************************************************)
(* The rules of the game: captures are obligatory and go on with the same  *)
(* piece for as long as it can, queens fly, a promotion ends the turn, and *)
(* repetition or a long time without captures makes a draw.                *)
(*                                                                         *)
(* A board is a function from the occupied squares to pieces.  Clocks and  *)
(* the two players' agreement to end a game are GameLifecycle's.           *)
(***************************************************************************)
EXTENDS Integers, FiniteSets

CONSTANTS
    Openings,           \* bound: the boards games begin from, red to move
    RepetitionLimit,    \* DRAW_REPETITION_COUNT
    QuietLimit          \* DRAW_NO_CAPTURE_MOVES

ASSUME DrawAssumption == RepetitionLimit \in Nat \ {0, 1} /\ QuietLimit \in Nat \ {0}

VARIABLE match          \* the game in play

Square == (0..7) \X (0..7)
Direction == {-1, 1} \X {-1, 1}
NoSquare == <<8, 8>>
Piece == [color : {"red", "black"}, queen : BOOLEAN]

Opponent(color) == IF color = "red" THEN "black" ELSE "red"
Beyond(s, d, n) == <<s[1] + n * d[1], s[2] + n * d[2]>>
Vacant(b, s) == s \in Square \ DOMAIN b
Clear(b, s, d, between) == \A n \in between : Vacant(b, Beyond(s, d, n))
Owned(b, color) == {s \in DOMAIN b : b[s].color = color}

------------------------------------------------------------------------------
(* Moves *)

\* A man jumps over a neighbour; a queen over the first piece it meets, however far,
\* to any of the free squares behind it.
Captures(b, s) ==
    LET Range == IF b[s].queen THEN 1..6 ELSE {1}
        Jump == { j \in Direction \X Range \X (1..6) :
                    /\ Beyond(s, j[1], j[2]) \in Owned(b, Opponent(b[s].color))
                    /\ (~b[s].queen => j[3] = 1)
                    /\ Clear(b, s, j[1], 1..(j[2] - 1)) /\ Clear(b, s, j[1], (j[2] + 1)..(j[2] + j[3])) } IN
    {[from |-> s, to |-> Beyond(s, j[1], j[2] + j[3]), taken |-> {Beyond(s, j[1], j[2])}] : j \in Jump}

Forward(color) == IF color = "red" THEN -1 ELSE 1

SimpleMoves(b, s) ==
    LET Slide == { j \in Direction \X (IF b[s].queen THEN 1..7 ELSE {1}) :
                    Clear(b, s, j[1], 1..j[2]) /\ (b[s].queen \/ j[1][1] = Forward(b[s].color)) } IN
    {[from |-> s, to |-> Beyond(s, j[1], j[2]), taken |-> {}] : j \in Slide}

\* getAllValidMoves: who can capture must, and a piece that is capturing goes on.
Legal(g) ==
    LET movers == IF g.chain = NoSquare THEN Owned(g.board, g.turn) ELSE {g.chain}
        takes == UNION {Captures(g.board, s) : s \in movers} IN
    IF takes # {} \/ g.chain # NoSquare THEN takes ELSE UNION {SimpleMoves(g.board, s) : s \in movers}

------------------------------------------------------------------------------
(* makeMove *)

Crowned(piece, to) == ~piece.queen /\ to[1] = (IF piece.color = "red" THEN 0 ELSE 7)

Moved(b, m) ==
    [s \in (DOMAIN b \ ({m.from} \cup m.taken)) \cup {m.to} |->
        IF s = m.to THEN [b[m.from] EXCEPT !.queen = @ \/ Crowned(b[m.from], m.to)] ELSE b[s]]

Position(g) == <<g.board, g.turn>>
Occurs(g, p) == IF p \in DOMAIN g.seen THEN g.seen[p] ELSE 0
Count(g, p) == [q \in DOMAIN g.seen \cup {p} |-> Occurs(g, q) + (IF q = p THEN 1 ELSE 0)]

\* The position after a hop, before it is looked at.
Hop(g, m) ==
    LET board == Moved(g.board, m)
        goes == m.taken # {} /\ ~Crowned(g.board[m.from], m.to) /\ Captures(board, m.to) # {} IN
    [g EXCEPT !.board = board,
              !.chain = IF goes THEN m.to ELSE NoSquare,
              !.turn = IF goes THEN @ ELSE Opponent(@),
              !.quiet = IF goes THEN @ ELSE IF m.taken # {} THEN 0 ELSE @ + 1]

\* _checkGameOver: whoever cannot move has lost.
Blocked(g) == [g EXCEPT !.over = Legal(g) = {}, !.winner = IF Legal(g) = {} THEN Opponent(g.turn) ELSE @]

\* _checkForcedDraw
Drawn(g) ==
    LET seen == Count(g, Position(g)) IN
    [g EXCEPT !.seen = seen,
              !.over = seen[Position(g)] >= RepetitionLimit \/ g.quiet >= QuietLimit]

Passed(g) == IF Blocked(g).over THEN Blocked(g) ELSE Drawn(g)
Play(g, m) == IF Hop(g, m).chain = NoSquare THEN Passed(Hop(g, m)) ELSE Hop(g, m)

\* The puzzle search does not know of draws.
PlayOn(g, m) == IF Hop(g, m).chain = NoSquare THEN Blocked(Hop(g, m)) ELSE Hop(g, m)

------------------------------------------------------------------------------
(* evaluate, in its integer units *)

Worth(piece, s) ==
    (IF piece.queen THEN 100 ELSE 20 + 2 * (IF piece.color = "red" THEN 7 - s[1] ELSE s[1]))
        + (IF s[2] \in 2..5 THEN 1 ELSE 0)

------------------------------------------------------------------------------
NewGame(b) ==
    [board |-> b, turn |-> "red", chain |-> NoSquare, over |-> FALSE, winner |-> "none", quiet |-> 0,
     seen |-> [p \in {<<b, "red">>} |-> 1]]

CheckersInit == \E b \in Openings : match = NewGame(b)
CheckersMove == ~match.over /\ \E m \in Legal(match) : match' = Play(match, m)
CheckersSpec == CheckersInit /\ [][CheckersMove]_match
==============================================================================
