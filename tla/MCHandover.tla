------------------------------ MODULE MCHandover ------------------------------
(***************************************************************************)
(* Small instances, for TLC, of parts that share no state with one         *)
(* another: a game that is handed from one process of the server to the    *)
(* next, and the phantom players, what they do and what they say.  In each *)
(* behaviour one of them, the subject, is at work.                         *)
(***************************************************************************)
EXTENDS GameTransitions, Phantoms, PhantomChat, TLC

CONSTANTS p1, p2, p3, k1, f1, f2

VARIABLE subject

phantoms == <<phantomVars, phantomChatVars>>
handover == <<vars, phantoms, subject>>

\* A player's return, which each restart in a row asks for again, and the
\* answer to a draw offer under the same identity.
MCReturn ==
    { [key |-> k1, body |-> "ready", ply |-> 0],
      [key |-> k1, body |-> "answer", ply |-> 0] }

\* The first owner has a name; the others are alike.
MCSymmetry == Permutations(Process \ {p1})

\* Two sessions end while connections fail; a game is found, with a lost connection or the end
\* of a session; and a room that starts, one that others join or leave, one whose host gives up.
NoPlan == [sockets |-> 0, faults |-> 0, sessions |-> 0, stats |-> 0, rooms |-> 0, games |-> 0, checks |-> 0, moves |-> 0, others |-> 0]
MCPlans ==
    { NoPlan,
      [NoPlan EXCEPT !.sockets = 4, !.faults = 1, !.sessions = 2],
      [NoPlan EXCEPT !.sockets = 3, !.faults = 1, !.stats = 1, !.games = 1, !.moves = 2],
      [NoPlan EXCEPT !.sockets = 2, !.sessions = 1, !.stats = 1, !.games = 1, !.moves = 2],
      [NoPlan EXCEPT !.sockets = 2, !.rooms = 1, !.checks = 1, !.games = 1],
      [NoPlan EXCEPT !.sockets = 2, !.rooms = 1, !.checks = 1, !.others = 1],
      [NoPlan EXCEPT !.sockets = 2, !.rooms = 1, !.checks = 2] }

\* People talk to nobody; they mention the phantoms; phantoms come and say hello; they banter;
\* and they talk of themselves.
NoEvening == [here |-> Phantom, messages |-> 0, called |-> {{}}, changes |-> 0, remarks |-> 0, resets |-> 0]
MCEvenings ==
    { NoEvening,
      [NoEvening EXCEPT !.messages = 3, !.changes = 1],
      [NoEvening EXCEPT !.messages = 2, !.called = SUBSET Phantom, !.changes = 1],
      [NoEvening EXCEPT !.messages = 2, !.here = {}, !.changes = 3],
      [NoEvening EXCEPT !.messages = 3, !.called = {}, !.remarks = 1, !.resets = 1],
      [NoEvening EXCEPT !.messages = 1, !.called = {}, !.remarks = 2, !.changes = 2] }

MCInit ==
    /\ subject \in {"succession", "successor", "phantoms", "talk"}
    /\ Init /\ state[p1] = "running"
    /\ PhantomInit /\ Head(batches[1].rest) = f1 /\ (subject # "phantoms" => plan = NoPlan)
    /\ EveningInit /\ (subject # "talk" => evening = NoEvening)

\* Several processes one after the other, when nobody answers a draw offer and nothing fails;
\* and one successor.
Handing ==
    /\ \/ subject = "succession" /\ faults' = 0 /\ ~\E p \in Process : req'[p].body = "answer"
       \/ subject = "successor" /\ owner' <= 2
    /\ UNCHANGED <<phantoms, subject>>

\* Next, by what it is that happens.
Committing == (Settle \/ \E p \in Process : Commit(p)) /\ Handing
Serving == (\E p \in Process : BeginCommand(p) \/ BeginTick(p) \/ BeginBot(p)) /\ Handing
AnsweringLate == (\E p \in Process : AnswerOver(p)) /\ Handing
Starting == (\E p \in Process : Start(p)) /\ Handing
FailingToStart == (\E p \in Process : FailStart(p)) /\ Handing
Ending == (\E p \in Process : Supersede(p) \/ Stop(p) \/ Crash(p)) /\ Handing
PhantomStep == subject = "phantoms" /\ PhantomNext /\ UNCHANGED <<vars, phantomChatVars, subject>>
TalkStep == subject = "talk" /\ PhantomChatNext /\ UNCHANGED <<vars, phantomVars, subject>>

\* The other parts never move, so a state is known by the part at work.
PartAtWork ==
    <<subject, IF subject = "phantoms" THEN phantomVars ELSE IF subject = "talk" THEN phantomChatVars ELSE vars>>

MCNext ==
    \/ Committing \/ Serving \/ AnsweringLate \/ Starting \/ FailingToStart \/ Ending
    \/ PhantomStep \/ TalkStep

MCSpec == MCInit /\ [][MCNext]_handover
==============================================================================
