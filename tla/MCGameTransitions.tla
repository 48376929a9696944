-------------------------- MODULE MCGameTransitions --------------------------
(***************************************************************************)
(* Small instances of GameTransitions for TLC.                             *)
(***************************************************************************)
EXTENDS GameTransitions

CONSTANTS p1, p2, k1, k2

\* Two players' moves for the first two positions; one identity is used twice.
MCMoves ==
    { [key |-> k1, body |-> "move", ply |-> 0],
      [key |-> k1, body |-> "move", ply |-> 1],
      [key |-> k2, body |-> "move", ply |-> 1] }

\* The first owner has a name; fairness rules symmetry out.
MCInit == Init /\ state[p1] = "running"

\* Next without the two steps that this instance cannot take: it has no third process, which
\* would take over from one that still starts, and no draw offer to answer (see MCHandover).
MCNext ==
    \/ Settle
    \/ \E p \in Process :
          Commit(p) \/ BeginCommand(p) \/ BeginTick(p) \/ BeginBot(p) \/ Start(p)
              \/ Supersede(p) \/ Stop(p) \/ Crash(p)

MCFairSpec == MCInit /\ [][MCNext]_vars /\ Fairness
==============================================================================
