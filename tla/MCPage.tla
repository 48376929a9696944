--------------------------------- MODULE MCPage ---------------------------------
(***************************************************************************)
(* Small instances, for TLC, of parts that share no state with one         *)
(* another.  Of what one page of the browser does: whose it is, where it   *)
(* is, what becomes of its puzzle, and *)
(* the chat.  And of a game of two people.  In each behaviour one of them, *)
(* the subject, is at work.                                                *)
(***************************************************************************)
EXTENDS Accounts, Navigation, PuzzleProgress, Chat, GameLifecycle

CONSTANTS newcomer, regular, r1, r2, i1, m1, m2

VARIABLE subject

page == <<accountsVars, navigationVars, progressVars, chatVars>>
parts == <<page, vars, subject>>

\* Three messages of others and a break; a text beside another's and two breaks; two
\* texts and the database's own failures.
MCBudgets ==
    { [messages |-> 3, texts |-> 0, requests |-> 2, breaks |-> 1],
      [messages |-> 2, texts |-> 1, requests |-> 2, breaks |-> 2],
      [messages |-> 2, texts |-> 2, requests |-> 3, breaks |-> 0] }

MCBoth == {"red", "black"}

MCInit ==
    /\ subject \in {"accounts", "navigation", "progress", "chat", "game"}
    /\ AccountsInit /\ (subject # "accounts" => tab.user = NoProfile)
    /\ NavigationInit /\ (subject # "navigation" => nav.intent = Browse(Lobby))
    /\ ProgressInit
    /\ ChatInit /\ (subject # "chat" => budget.messages = 3)
    /\ Init /\ (subject # "game" => game.paused /\ ~game.started)

AccountsStep ==
    subject = "accounts" /\ AccountsNext /\ UNCHANGED <<navigationVars, progressVars, chatVars, vars, subject>>
NavigationStep ==
    subject = "navigation" /\ NavigationNext /\ UNCHANGED <<accountsVars, progressVars, chatVars, vars, subject>>
ProgressStep ==
    subject = "progress" /\ ProgressNext /\ UNCHANGED <<accountsVars, navigationVars, chatVars, vars, subject>>
ChatStep ==
    subject = "chat" /\ ChatNext /\ UNCHANGED <<accountsVars, navigationVars, progressVars, vars, subject>>
GameStep == subject = "game" /\ Next /\ UNCHANGED <<page, subject>>

MCNext == AccountsStep \/ NavigationStep \/ ProgressStep \/ ChatStep \/ GameStep

MCSpec == MCInit /\ [][MCNext]_parts

\* View: the other parts stay as they began, so the part at work tells the states apart.
PartAtWork ==
    <<subject, CASE subject = "accounts" -> accountsVars [] subject = "navigation" -> navigationVars
                 [] subject = "progress" -> progressVars [] subject = "chat" -> chatVars [] OTHER -> vars>>
==============================================================================
