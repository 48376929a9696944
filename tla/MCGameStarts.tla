----------------------------- MODULE MCGameStarts -----------------------------
(***************************************************************************)
(* Small instances of GameStarts for TLC.                                    *)
(***************************************************************************)
EXTENDS GameStarts, TLC

CONSTANTS a, b, c, r1, r2

\* Two rooms with two faults, or one room with all of them.
MCInit ==
    /\ Init /\ record[r1] = Absent
    /\ faults = IF record[r2] = Absent THEN MaxFaults - 2 ELSE 0
MCFairSpec == MCInit /\ [][Next]_vars /\ Fairness
==============================================================================
