----------------------------- MODULE PuzzleProgress -----------------------------
(***************************************************************************)
(* Today's puzzle in one browser: what its board reports, the journal that *)
(* keeps each account's progress until the server has confirmed it, and    *)
(* the record of attempts on the server, which other devices of the same   *)
(* accounts write as well.  Visitors have a scope of their own, which the  *)
(* next account to log in takes over.                                      *)
(***************************************************************************)
EXTENDS Naturals

CONSTANTS
    Member, Visitor,    \* the scopes of the journal
    MaxReports,         \* bound: what the board reports
    MaxPosts,           \* bound: requests of the journal
    MaxLogins           \* bound: changes of account and reloads of the page

ASSUME PuzzleProgressAssumption == Visitor \notin Member /\ {MaxReports, MaxPosts, MaxLogins} \subseteq Nat

VARIABLES
    visitor,        \* the scope of PuzzleJournal.identity
    rows,           \* the row of the puzzle in each scope, saved in localStorage
    board,          \* PuzzleController: attempts, revealed and scope
    awaited,        \* the request the journal awaits
    late,           \* requests given up that may still arrive
    stored,         \* puzzleAttempt
    puzzleCoins,    \* coins paid for the puzzle
    today,          \* whether its day has not passed
    claimed,        \* scopes in which it was solved in this browser, ...
    elsewhere,      \* ... and on another device
    reported, posted, logins

journalVars == <<visitor, rows, board, awaited, late>>
attemptVars == <<stored, puzzleCoins>>
progressVars == <<journalVars, attemptVars, today, claimed, elsewhere, reported, posted, logins>>

Scope == Member \cup {Visitor}

\* attempts stands for hints and time as well, which merge like it.
NoProgress == [solved |-> FALSE, revealed |-> FALSE, attempts |-> 0, rewarded |-> FALSE]
NoRow == [progress |-> NoProgress, confirmed |-> NoProgress, payload |-> NoProgress, synced |-> NoProgress]
NoRequest == [scope |-> Visitor, body |-> NoProgress, sent |-> FALSE, answered |-> FALSE, answer |-> NoProgress]
FreshBoard(s) == [attempts |-> 1, revealed |-> FALSE, scope |-> s]

ProgressInit ==
    /\ visitor = Visitor /\ rows = [s \in Scope |-> NoRow] /\ board = FreshBoard(Visitor)
    /\ awaited = NoRequest /\ late = {}
    /\ stored = [s \in Scope |-> NoProgress] /\ puzzleCoins = [u \in Member |-> 0] /\ today = TRUE
    /\ claimed = {} /\ elsewhere = {} /\ reported = 0 /\ posted = 0 /\ logins = 0

More(x, y) == IF x > y THEN x ELSE y

------------------------------------------------------------------------------
(* The journal's rows *)

Merged(old, next) ==
    LET revealed == IF old.solved THEN old.revealed ELSE old.revealed \/ next.revealed IN
    [solved |-> ~revealed /\ (old.solved \/ next.solved), revealed |-> revealed,
     attempts |-> More(old.attempts, next.attempts), rewarded |-> old.rewarded]

MergedPayload(old, next) == IF old.solved /\ ~old.revealed THEN Merged(old, next) ELSE next

Unsynced(row) == row.payload # NoProgress /\ row.synced # row.payload

\* Mutant: an answer settles whatever is in the row when it arrives.
OvertakenNever(row, sent) == FALSE

\* The row holds something newer than what was sent; nothing is sent to read the history.
Overtaken(row, sent) == Unsynced(row) /\ row.payload # sent

\* accept, after an attempt or the history
Confirmed(row, confirmed, sent) ==
    LET payload == IF row.payload # NoProgress /\ confirmed.revealed
                   THEN [row.payload EXCEPT !.solved = FALSE, !.revealed = TRUE] ELSE row.payload
        synced == IF Overtaken(row, sent) THEN row.synced ELSE payload IN
    [progress |-> IF payload # NoProgress /\ synced # payload THEN Merged(confirmed, payload) ELSE confirmed,
     confirmed |-> confirmed, payload |-> payload, synced |-> synced]

\* restore: the board takes over what its account has done already.
Restored(b, s, row) ==
    LET own == IF b.scope # Visitor /\ b.scope # s THEN FreshBoard(s) ELSE b IN
    [attempts |-> More(own.attempts, row.progress.attempts), revealed |-> own.revealed \/ row.progress.revealed, scope |-> s]

\* save and publish, in scope s
Saved(s, new) == rows' = new /\ board' = Restored(board, s, new[s])

------------------------------------------------------------------------------
(* The page *)

\* A wrong turn, a hint, the solution shown, or the last turn played.
Report(kind) ==
    LET shown == [board EXCEPT !.attempts = IF kind = "wrong" THEN @ + 1 ELSE @, !.revealed = @ \/ kind = "reveal"]
        payload == [solved |-> kind = "solve" /\ ~shown.revealed, revealed |-> shown.revealed, attempts |-> shown.attempts, rewarded |-> FALSE]
        row == rows[visitor]
        next == MergedPayload(row.payload, payload)
        known == IF row.confirmed # NoProgress THEN row.confirmed ELSE row.progress
        new == [row EXCEPT !.progress = Merged(known, next), !.payload = next] IN
    /\ reported < MaxReports /\ reported' = reported + 1
    /\ rows' = [rows EXCEPT ![visitor] = new] /\ board' = Restored(shown, visitor, new)
    /\ claimed' = IF payload.solved THEN claimed \cup {visitor} ELSE claimed
    /\ UNCHANGED <<visitor, awaited, late, attemptVars, today, elsewhere, posted, logins>>

\* The request awaited is aborted; the server may have it, or get it later.
Abandoned == IF awaited.sent /\ awaited.body # NoProgress /\ ~awaited.answered
             THEN late \cup {[scope |-> awaited.scope, body |-> awaited.body]} ELSE late

\* What a visitor did goes to the account that logs in.
TakenOver(u) ==
    LET v == rows[Visitor]
        own == rows[u] IN
    IF v = NoRow THEN rows
    ELSE [rows EXCEPT ![Visitor] = NoRow,
              ![u] = [own EXCEPT !.progress = Merged(@, v.progress), !.synced = NoProgress,
                                 !.payload = IF v.payload = NoProgress THEN @ ELSE MergedPayload(@, v.payload)]]

\* A visitor's solve goes with it, unless the server has said that it had shown the solution.
HandedOver == IF Visitor \in claimed /\ (rows[Visitor].payload.solved \/ ~stored[Visitor].revealed) THEN {visitor'} ELSE {}

\* setIdentity, or a reload of the page, which mounts a new board
Identity(s) ==
    /\ logins < MaxLogins /\ logins' = logins + 1
    /\ visitor' = s /\ awaited' = NoRequest /\ late' = Abandoned
    /\ IF s = visitor THEN rows' = rows /\ board' = Restored(FreshBoard(s), s, rows[s])
       ELSE Saved(s, IF s = Visitor THEN rows ELSE TakenOver(s))
    /\ claimed' = IF s # Visitor THEN (claimed \ {Visitor}) \cup HandedOver ELSE claimed
    /\ UNCHANGED <<attemptVars, today, elsewhere, reported, posted>>

------------------------------------------------------------------------------
(* sync: the attempt first, then the history of an account *)

Ask(body) == awaited' = [scope |-> visitor, body |-> body, sent |-> TRUE, answered |-> FALSE, answer |-> NoProgress]

Sync ==
    /\ ~awaited.sent /\ posted < MaxPosts /\ posted' = posted + 1
    /\ Unsynced(rows[visitor]) \/ visitor # Visitor
    /\ Ask(IF Unsynced(rows[visitor]) THEN rows[visitor].payload ELSE NoProgress)
    /\ UNCHANGED <<visitor, rows, board, late, attemptVars, today, claimed, elsewhere, reported, logins>>

\* The answer to an attempt, after which an account's history is read; or that history.
TakeAnswer ==
    LET row == rows[visitor]
        sent == awaited.body
        new == IF sent # NoProgress
               THEN Confirmed(IF row.payload = sent THEN [row EXCEPT !.synced = sent] ELSE row, awaited.answer, sent)
               ELSE IF awaited.answer # NoProgress THEN Confirmed(row, awaited.answer, sent)
               ELSE IF Unsynced(row) THEN row ELSE NoRow IN
    /\ awaited.answered
    /\ Saved(visitor, [rows EXCEPT ![visitor] = new])
    /\ IF sent # NoProgress /\ visitor # Visitor THEN Ask(NoProgress) ELSE awaited' = NoRequest
    /\ UNCHANGED <<visitor, late, attemptVars, today, claimed, elsewhere, reported, posted, logins>>

\* The deadline passes, or the connection fails.
LoseAnswer ==
    /\ awaited.sent /\ awaited' = NoRequest /\ late' = Abandoned
    /\ UNCHANGED <<visitor, rows, board, attemptVars, today, claimed, elsewhere, reported, posted, logins>>

------------------------------------------------------------------------------
(* The server *)

\* recordPuzzleAttempt, of an account or of a visitor
Record(s, body) ==
    LET old == stored[s]
        revealed == IF old.solved THEN old.revealed ELSE old.revealed \/ body.revealed
        solved == old.solved \/ (body.solved /\ ~revealed)
        pays == s \in Member /\ solved /\ ~revealed /\ ~old.rewarded /\ today IN
    /\ stored' = [stored EXCEPT ![s] = [solved |-> solved, revealed |-> revealed, attempts |-> More(old.attempts, body.attempts),
                                        rewarded |-> old.rewarded \/ pays]]
    /\ puzzleCoins' = [u \in Member |-> IF u = s /\ pays THEN puzzleCoins[u] + 1 ELSE puzzleCoins[u]]

ServeAttempt ==
    /\ awaited.sent /\ ~awaited.answered
    /\ IF awaited.body # NoProgress THEN Record(awaited.scope, awaited.body) ELSE UNCHANGED attemptVars
    /\ awaited' = [awaited EXCEPT !.answered = TRUE, !.answer = stored'[awaited.scope]]
    /\ UNCHANGED <<visitor, rows, board, late, today, claimed, elsewhere, reported, posted, logins>>

ServeLate ==
    /\ \E request \in late : Record(request.scope, request.body) /\ late' = late \ {request}
    /\ UNCHANGED <<visitor, rows, board, awaited, today, claimed, elsewhere, reported, posted, logins>>

\* Another device of the account solves the puzzle, or shows its solution.
OtherDevice(u) ==
    /\ u \notin elsewhere
    /\ \E solve \in BOOLEAN : Record(u, [solved |-> solve, revealed |-> ~solve, attempts |-> 1, rewarded |-> FALSE])
    /\ elsewhere' = elsewhere \cup {u}
    /\ UNCHANGED <<journalVars, today, claimed, reported, posted, logins>>

Midnight ==
    /\ today /\ today' = FALSE
    /\ UNCHANGED <<journalVars, attemptVars, claimed, elsewhere, reported, posted, logins>>

ProgressNext ==
    \/ \E kind \in {"wrong", "reveal", "solve"} : Report(kind)
    \/ \E s \in Scope : Identity(s)
    \/ Sync \/ TakeAnswer \/ LoseAnswer \/ ServeAttempt \/ ServeLate \/ Midnight
    \/ \E u \in Member : OtherDevice(u)

ProgressSpec == ProgressInit /\ [][ProgressNext]_progressVars

------------------------------------------------------------------------------
(* Properties *)

\* What the journal no longer wants to send is on the server.
SyncedIsStored ==
    \A s \in Scope :
        LET payload == rows[s].payload IN
        payload # NoProgress /\ ~Unsynced(rows[s]) =>
            /\ stored[s].attempts >= payload.attempts
            /\ payload.solved => stored[s].solved
            /\ payload.revealed => stored[s].revealed \/ stored[s].solved

\* A solve is on the server or on its way there, unless the solution was shown to its owner.
SolvesAreKept ==
    \A s \in claimed : stored[s].solved \/ stored[s].revealed \/ (rows[s].payload.solved /\ Unsynced(rows[s]))

\* An account is credited only with its own solves and with those a visitor handed over to it.
SolvesAreOwn == \A u \in Member : stored[u].solved => u \in claimed \cup elsewhere

\* The coin is paid once, for a solve without the solution; and such a solve is the only one shown.
CoinsAreFair ==
    /\ \A u \in Member :
           puzzleCoins[u] = (IF stored[u].rewarded THEN 1 ELSE 0) /\ (stored[u].rewarded => stored[u].solved /\ ~stored[u].revealed)
    /\ \A s \in Scope : rows[s].confirmed.revealed => ~rows[s].progress.solved

\* Whatever answers are lost, late or overtaken by newer attempts, accounts change and other
\* devices do, a visitor's work is neither forgotten nor credited twice or to another account.
\* (PuzzleJournal, recordPuzzleAttempt)
ProgressIsKept == SyncedIsStored /\ SolvesAreKept /\ SolvesAreOwn /\ CoinsAreFair
==============================================================================
