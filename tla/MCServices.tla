------------------------------ MODULE MCServices ------------------------------
(***************************************************************************)
(* Small instances, for TLC, of the services that share no state with one  *)
(* another: the rules with the two searches and the puzzles made from      *)
(* them, the puzzle calendar, quick play, account actions, the worker      *)
(* pool, one person's session, and the life of a process.  In each         *)
(* behaviour one of them, the subject, is at work.                         *)
(***************************************************************************)
EXTENDS PuzzleCommentary, PuzzlePublishing, QuickPlay, AccountActions, WorkerPool, Sessions, ServerRuntime, TLC

CONSTANTS a, b, u1, u2, w1, w2, t1, t2, j1, j2

VARIABLE subject

services == <<match, puzzleVars, quickVars, accountVars, poolState, sessionVars, runtimeVars, subject>>

Red(s, q) == s :> [color |-> "red", queen |-> q]
Black(s, q) == s :> [color |-> "black", queen |-> q]

\* A chain of two captures with a choice, a race to promote, a queen against
\* men; and positions puzzles are made from.
MCOpenings ==
    { Red(<<6, 1>>, FALSE) @@ Black(<<5, 2>>, FALSE) @@ Black(<<3, 2>>, FALSE) @@ Black(<<3, 4>>, FALSE),
      Red(<<1, 2>>, FALSE) @@ Red(<<5, 6>>, FALSE) @@ Black(<<5, 0>>, FALSE),
      Red(<<7, 0>>, TRUE) @@ Black(<<4, 3>>, FALSE) @@ Black(<<1, 4>>, FALSE),
      Red(<<6, 5>>, FALSE) @@ Red(<<5, 6>>, FALSE) @@ Black(<<0, 7>>, FALSE) @@ Black(<<7, 4>>, TRUE),
      Red(<<1, 2>>, FALSE) @@ Red(<<7, 2>>, FALSE) @@ Black(<<0, 3>>, FALSE) @@ Black(<<3, 6>>, FALSE),
      Red(<<5, 4>>, FALSE) @@ Red(<<6, 5>>, FALSE) @@ Red(<<6, 1>>, FALSE) @@ Red(<<7, 6>>, FALSE) @@ Red(<<7, 0>>, FALSE)
          @@ Black(<<3, 2>>, FALSE) @@ Black(<<3, 4>>, FALSE) }

\* A position, its mirror image, and another.
MCFound == {<<1, 0>>, <<1, 1>>, <<2, 0>>}

MCSymmetry == Permutations(Publisher) \cup Permutations(Searcher)

\* Two pieces of work beside a fenced chore; one beside two games to settle; and all chores.
MCExtents ==
    { [tasks |-> {t1, t2}, jobs |-> {}, chores |-> {"guests"}],
      [tasks |-> {t1}, jobs |-> {j1, j2}, chores |-> {"settlement"}],
      [tasks |-> {}, jobs |-> {j1}, chores |-> {"settlement", "guests", "profiles"}] }

\* Notices dismissed over a connection that is replaced; and two searches.
MCAllowances ==
    { [notices |-> 2, links |-> 2, searches |-> 0, moves |-> 0, faults |-> 2, moments |-> 0],
      [notices |-> 0, links |-> 2, searches |-> 2, moves |-> 2, faults |-> 1, moments |-> 2] }

\* A game that is over, for the behaviours that are about something else.
NoMatch == [NewGame(<< >>) EXCEPT !.over = TRUE]

MCInit ==
    /\ subject \in {"search", "calendar", "quick play", "actions", "pool", "session", "process"}
    /\ IF subject = "search" THEN CheckersInit ELSE match = NoMatch
    /\ PuzzleInit /\ PoolInit
    /\ SessionsInit /\ RuntimeInit /\ (subject # "process" => server.extent.tasks = {})
    /\ (subject # "session" => left.searches = 0)
    /\ QuickInit /\ (subject # "quick play" => waiting = {})
    /\ AccountInit /\ (subject # "actions" => friendship = NoFriendship)

\* The last opening, of seven pieces, is only looked at.
Crowd == 4
SearchStep ==
    /\ subject = "search" /\ Cardinality(DOMAIN match.board) <= Crowd /\ CheckersMove
    /\ UNCHANGED <<puzzleVars, quickVars, accountVars, poolState, sessionVars, runtimeVars, subject>>
CalendarStep ==
    /\ subject = "calendar" /\ PuzzleNext
    /\ UNCHANGED <<match, quickVars, accountVars, poolState, sessionVars, runtimeVars, subject>>
QuickPlayStep ==
    /\ subject = "quick play" /\ QuickNext
    /\ UNCHANGED <<match, puzzleVars, accountVars, poolState, sessionVars, runtimeVars, subject>>
ActionStep ==
    /\ subject = "actions" /\ AccountNext
    /\ UNCHANGED <<match, puzzleVars, quickVars, poolState, sessionVars, runtimeVars, subject>>
PoolStep ==
    /\ subject = "pool" /\ PoolNext
    /\ UNCHANGED <<match, puzzleVars, quickVars, accountVars, sessionVars, runtimeVars, subject>>
SessionStep ==
    /\ subject = "session" /\ SessionsNext
    /\ UNCHANGED <<match, puzzleVars, quickVars, accountVars, poolState, runtimeVars, subject>>
ProcessStep ==
    /\ subject = "process" /\ RuntimeNext
    /\ UNCHANGED <<match, puzzleVars, quickVars, accountVars, poolState, sessionVars, subject>>

MCNext == SearchStep \/ CalendarStep \/ QuickPlayStep \/ ActionStep \/ PoolStep \/ SessionStep \/ ProcessStep

MCSpec == MCInit /\ [][MCNext]_services

\* View: the other services stay as they began, so the one at work tells the states apart;
\* and of a request that nobody awaits only what it asks, and whether it was served, matters.
InMind(c) == IF c.awaits \in {"reply", "confirmation"} THEN c ELSE <<c.intent, c.awaits, c.answer = "none">>
Actions == <<tabVars, intents, [n \in DOMAIN calls |-> InMind(calls[n])], serverVars>>

ServiceAtWork ==
    <<subject, CASE subject = "search" -> match [] subject = "calendar" -> puzzleVars [] subject = "quick play" -> quickVars
                 [] subject = "actions" -> Actions [] subject = "pool" -> poolState
                 [] subject = "session" -> sessionVars [] OTHER -> runtimeVars>>
==============================================================================
