------------------------------ MODULE GameLedger ------------------------------
(***************************************************************************)
(* What one game promises its players, without processes, revisions,       *)
(* receipts or failures: a list of moves that only grows, in which a       *)
(* command counts once however often it is sent, and which closes for      *)
(* good.  GameTransitions, the commit pipeline of the server, implements   *)
(* this specification.                                                     *)
(***************************************************************************)
EXTENDS Naturals, Sequences

CONSTANTS Key,      \* identities of the players' commands
          NoKey     \* stands in the list for a move of the bot

VARIABLES played,   \* the moves played so far
          over,     \* the game has ended
          accepted, \* the commands that have taken effect
          acked     \* the commands reported to their player as done

ledgerVars == <<played, over, accepted, acked>>

LedgerInit ==
    /\ played = << >>
    /\ over = FALSE
    /\ accepted = {}
    /\ acked = {}

\* Nothing, or one move played at the current end of the list.
Extend(k) ==
    played' \in {played, Append(played, [key |-> k, ply |-> Len(played)])}

\* A player's command takes effect, now and never again.
Accept(k) ==
    /\ ~over
    /\ k \notin accepted
    /\ accepted' = accepted \cup {k}
    /\ Extend(k)
    /\ over' \in BOOLEAN
    /\ acked' = acked

\* The server's own doing: the bot's move, the clock, a deadline.
Background ==
    /\ ~over
    /\ Extend(NoKey)
    /\ over' \in BOOLEAN
    /\ UNCHANGED <<accepted, acked>>

\* Success is reported only for what has taken effect, or once the game is over.
Acknowledge(k) ==
    /\ k \in accepted \/ over
    /\ acked' = acked \cup {k}
    /\ UNCHANGED <<played, over, accepted>>

LedgerNext ==
    \/ Background
    \/ \E k \in Key : Accept(k) \/ Acknowledge(k)

LedgerSpec == LedgerInit /\ [][LedgerNext]_ledgerVars
===============================================================================
