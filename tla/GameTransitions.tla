--------------------------- MODULE GameTransitions ---------------------------
(***************************************************************************)
(* The durable commit boundary of one game.                                *)
(*                                                                         *)
(* Server processes come and go; each claims the next ownership generation *)
(* when it starts.  The owner keeps the game as a GameRoom in memory and    *)
(* changes it only through GameRoom.commit: one transaction                 *)
(* (commitGameTransition) checks the ownership fence, the command receipt   *)
(* and the revision, applies the transition to a draft of the room's own    *)
(* state and stores checkpoint, receipt and terminal records together; only *)
(* then is the checkpoint installed in the room.  The database may fail a   *)
(* transaction or lose its response; clients may send every command any     *)
(* number of times; processes stop, crash and are superseded at any step.   *)
(***************************************************************************)
EXTENDS Naturals, Sequences, FiniteSets

CONSTANTS
    Process,      \* server processes, each started at most once
    Key,          \* identities of the players' commands
    NoKey,        \* the identity of commits no player asked for
    Request,      \* what the clients may send, again and again
    MaxRevision,  \* bound: no write beyond this revision
    MaxFaults     \* bound: transactions failed or responses lost

CommandBody == {"move", "answer", "ready"}
BackgroundBody == {"bot", "tick"}

ASSUME KeyAssumption == NoKey \notin Key
ASSUME RequestAssumption == Request \subseteq [key : Key, body : CommandBody, ply : Nat]
ASSUME BoundAssumption == MaxRevision \in Nat \ {0} /\ MaxFaults \in Nat

VARIABLES
    \* the database
    owner,        \* GameplayOwner.generation
    run,          \* the GameRun row: revision, checkpoint, status
    receipts,     \* the GameCommandReceipt rows
    job,          \* the GameSettlementJob of this game exists
    result,       \* its GameResultRecord exists
    seats,        \* its ActiveGamePlayer claims exist
    \* each process
    gen,          \* the generation it claimed, 0 before it starts
    state,        \* where it is in its life
    rev,          \* GameRoom.stateRevision
    view,         \* the installed game state
    step,         \* where the head of GameRoom.transitions is
    req,          \* the commit being served
    saved,        \* what the database answered and is not yet installed
    cause,        \* why the commit failed, "none" while it did not
    \* the clients
    acked,        \* the commands a client was told are done
    \* bookkeeping
    faults,
    ledger        \* history: every checkpoint committed, with its writer

dbVars == <<owner, run, receipts, job, result, seats, ledger>>
roomVars == <<gen, state, rev, view>>
taskVars == <<step, req, saved, cause>>
vars == <<owner, run, receipts, job, result, seats, gen, state, rev, view,
          step, req, saved, cause, acked, faults, ledger>>

------------------------------------------------------------------------------
(* Checkpoints and transitions *)

Move == [key : Key \cup {NoKey}, ply : Nat]
Checkpoint == [moves : Seq(Move), recovery : Nat, over : BOOLEAN]

\* A checkpoint as a new game opens: no moves, colour reveal in progress.
Opening == [moves |-> << >>, recovery |-> 0, over |-> FALSE]

Tick == [key |-> NoKey, body |-> "tick", ply |-> 0]
BotMove(c) == [key |-> NoKey, body |-> "bot", ply |-> Len(c.moves)]
Task == Request \cup [key : {NoKey}, body : BackgroundBody, ply : Nat]
IsCommand(r) == r.key # NoKey

Play(c, r) == [c EXCEPT !.moves = Append(@, [key |-> r.key, ply |-> r.ply])]
Finish(c) == [c EXCEPT !.over = TRUE]
Resume(c) == [c EXCEPT !.recovery = 0]
\* Mutant: startup restores the checkpoint without pausing it.
PauseForgotten(c, g) == c

Pause(c, g) == [c EXCEPT !.recovery = g]

\* Mutant: a move is played whatever position it was chosen for.
MovedAnywhere(c, r) ==
    {d \in {Play(c, r), Finish(Play(c, r))} : c.recovery = 0}

\* A move is refused while the game waits for its players after a restart, and
\* when it was chosen for another position.
Moved(c, r) ==
    {d \in {Play(c, r), Finish(Play(c, r))} : c.recovery = 0 /\ r.ply = Len(c.moves)}

\* The drafts a transition may produce from the room's state.  Clocks, draw
\* offers and readiness are below the level of a checkpoint here, so a
\* transition that only changes those yields the checkpoint it started from.
Drafts(c, r) ==
    CASE r.body \in {"move", "bot"} -> Moved(c, r)
      [] r.body = "answer" -> {d \in {c, Finish(c)} : c.recovery = 0}
      [] r.body = "ready" -> {d \in {c, Resume(c), Finish(c)} : c.recovery # 0}
      [] r.body = "tick" -> {d \in {c, Finish(c)} : c.recovery = 0}
                                \cup {d \in {Resume(c), Finish(c)} : c.recovery # 0}

\* The elapsed clock is charged before a player's or the bot's move; it may end
\* the game instead of the move.
TimedOut(c, r) ==
    {d \in {Finish(c)} : c.recovery = 0 /\ r.body \in {"move", "bot"}}

------------------------------------------------------------------------------
(* The fenced transaction *)

\* assertGameplayOwnership: the shared lock on the owner row is held to the end
\* of the transaction, so the check and the writes are one step.
HoldsOwnership(p) == owner = gen[p]

\* Where GameRoom.commit goes when its transaction did not return.
AfterFailure(r) == IF IsCommand(r) THEN "confirm" ELSE "reread"

\* The durable receipt of this very command, or of any under its identity.
Recorded(r) == \E x \in receipts : x.request = r
KeyUsed(r) == \E x \in receipts : x.request.key = r.key

Current == [revision |-> run.revision, checkpoint |-> run.checkpoint]
Nothing == [revision |-> 0, checkpoint |-> Opening]

Working(p) == state[p] \in {"running", "stopped"}

\* The response of a committed transaction reaches the process or is lost.
Respond(p, value, why) ==
    \/ /\ step' = [step EXCEPT ![p] = "install"]
       /\ saved' = [saved EXCEPT ![p] = value]
       /\ cause' = [cause EXCEPT ![p] = why]
       /\ faults' = faults
    \/ /\ faults < MaxFaults
       /\ faults' = faults + 1
       /\ step' = [step EXCEPT ![p] = AfterFailure(req[p])]
       /\ cause' = [cause EXCEPT ![p] = "unavailable"]
       /\ saved' = saved

\* The transition or one of the checks threw: the transaction rolled back.
RolledBack(p, why) ==
    /\ step' = [step EXCEPT ![p] = AfterFailure(req[p])]
    /\ cause' = [cause EXCEPT ![p] = why]
    /\ UNCHANGED <<dbVars, saved, faults>>

\* The writes of an accepted transition: the checkpoint under the next
\* revision, and with a terminal one its settlement job, its result and the
\* release of its players.
Store(c, writer) ==
    /\ run' = [run EXCEPT !.revision = @ + 1, !.checkpoint = c]
    /\ ledger' = Append(ledger, [checkpoint |-> c, writer |-> writer])
    /\ job' = (job \/ c.over)
    /\ result' = (result \/ c.over)
    /\ seats' = (seats /\ ~c.over)

\* Mutant: the receipt names the revision the command was decided on.
WriteReceiptEarly(r, revision) ==
    receipts' = IF IsCommand(r)
                THEN receipts \cup {[request |-> r, revision |-> revision - 1]}
                ELSE receipts

WriteReceipt(r, revision) ==
    receipts' = IF IsCommand(r)
                THEN receipts \cup {[request |-> r, revision |-> revision]}
                ELSE receipts

\* Mutant: an identity used by another command is accepted again.
AdmittedReusedKey(p) ==
    /\ run.revision = rev[p]
    /\ run.status = "OPEN"
    /\ ~run.checkpoint.over

\* Mutant: the end of the game closes it to commands only once it is settled.
AdmittedUntilSettled(p) ==
    /\ ~KeyUsed(req[p])
    /\ run.revision = rev[p]
    /\ run.status = "OPEN"

\* The checks that precede the transition.
Admitted(p) ==
    /\ ~KeyUsed(req[p])
    /\ run.revision = rev[p]
    /\ run.status = "OPEN"
    /\ ~run.checkpoint.over

InCommit(p) == Working(p) /\ step[p] = "commit"

\* The transaction finds the command's receipt and returns the current state.
Duplicate(p) ==
    /\ InCommit(p)
    /\ HoldsOwnership(p)
    /\ Recorded(req[p])
    /\ Respond(p, Current, "none")
    /\ UNCHANGED <<dbVars, roomVars, req, acked>>

\* Another command used this identity, the room is behind, or the game closed.
Conflict(p) ==
    /\ InCommit(p)
    /\ HoldsOwnership(p)
    /\ ~Recorded(req[p]) /\ ~Admitted(p)
    /\ RolledBack(p, "conflict")
    /\ UNCHANGED <<roomVars, req, acked>>

\* The transition refuses: the session changed, or the command is not legal.
Reject(p) ==
    /\ InCommit(p)
    /\ HoldsOwnership(p)
    /\ Admitted(p)
    /\ req[p].body # "tick"
    /\ RolledBack(p, "rejected")
    /\ UNCHANGED <<roomVars, req, acked>>

\* The transition has nothing to change: only the receipt is written.
Pass(p) ==
    /\ InCommit(p)
    /\ HoldsOwnership(p)
    /\ Admitted(p)
    /\ req[p].body # "move"
    /\ WriteReceipt(req[p], run.revision)
    /\ Respond(p, Current, "none")
    /\ UNCHANGED <<owner, run, job, result, seats, ledger, roomVars, req, acked>>

\* The transition produces a draft of the room's state, which is stored.
Write(p) ==
    /\ InCommit(p)
    /\ HoldsOwnership(p)
    /\ Admitted(p)
    /\ run.revision < MaxRevision
    /\ \E d \in Drafts(view[p], req[p]) \cup TimedOut(view[p], req[p]) :
          /\ Store(d, gen[p])
          /\ WriteReceipt(req[p], run.revision + 1)
          /\ Respond(p, [revision |-> run.revision + 1, checkpoint |-> d],
                     IF d \in TimedOut(view[p], req[p]) THEN "rejected" ELSE "none")
    /\ UNCHANGED <<owner, roomVars, req, acked>>

------------------------------------------------------------------------------
(* GameRoom.commit around the transaction *)

\* A player's request, the clock or the bot takes the head of the queue.
Begin(p, r) ==
    /\ state[p] = "running"
    /\ step[p] = "idle"
    /\ step' = [step EXCEPT ![p] = "commit"]
    /\ req' = [req EXCEPT ![p] = r]
    /\ cause' = [cause EXCEPT ![p] = "none"]
    /\ saved' = [saved EXCEPT ![p] = Nothing]
    /\ UNCHANGED <<dbVars, roomVars, acked, faults>>

BeginCommand(p) == \E r \in Request : Begin(p, r)

\* The clock advances, and recovery deadlines fall due, only in a live game.
BeginTick(p) == ~view[p].over /\ Begin(p, Tick)

BeginBot(p) ==
    /\ ~view[p].over /\ view[p].recovery = 0
    /\ Begin(p, BotMove(view[p]))

\* Mutant: the transition works on the room itself, and a failed transaction
\* leaves its draft there.
UnavailableInPlace(p) ==
    /\ InCommit(p)
    /\ faults < MaxFaults
    /\ faults' = faults + 1
    /\ step' = [step EXCEPT ![p] = AfterFailure(req[p])]
    /\ cause' = [cause EXCEPT ![p] = "unavailable"]
    /\ \E d \in Drafts(view[p], req[p]) : view' = [view EXCEPT ![p] = d]
    /\ UNCHANGED <<dbVars, gen, state, rev, req, saved, acked>>

\* The transaction fails and nothing is stored.
Unavailable(p) ==
    /\ InCommit(p)
    /\ faults < MaxFaults
    /\ faults' = faults + 1
    /\ step' = [step EXCEPT ![p] = AfterFailure(req[p])]
    /\ cause' = [cause EXCEPT ![p] = "unavailable"]
    /\ UNCHANGED <<dbVars, roomVars, req, saved, acked>>

\* After a failure, the same command is offered with a transition that throws:
\* only its receipt can make this succeed.
Confirm(p) ==
    /\ Working(p) /\ step[p] = "confirm"
    /\ HoldsOwnership(p)
    /\ \/ /\ Recorded(req[p])
          /\ step' = [step EXCEPT ![p] = "install"]
          /\ saved' = [saved EXCEPT ![p] = Current]
          /\ cause' = [cause EXCEPT ![p] = "none"]
          /\ faults' = faults
       \/ /\ ~Recorded(req[p])
          /\ step' = [step EXCEPT ![p] = "reread"]
          /\ UNCHANGED <<saved, cause, faults>>
       \/ /\ faults < MaxFaults
          /\ faults' = faults + 1
          /\ step' = [step EXCEPT ![p] = "reread"]
          /\ UNCHANGED <<saved, cause>>
    /\ UNCHANGED <<dbVars, roomVars, req, acked>>

\* Mutant: a failed commit keeps the last confirmed state without reading.
RereadNothing(p) ==
    /\ Working(p) /\ step[p] = "reread"
    /\ HoldsOwnership(p)
    /\ step' = [step EXCEPT ![p] = "install"]
    /\ UNCHANGED <<dbVars, roomVars, req, saved, cause, acked, faults>>

\* Without a receipt the authoritative run is read, if storage answers.
Reread(p) ==
    /\ Working(p) /\ step[p] = "reread"
    /\ HoldsOwnership(p)
    /\ step' = [step EXCEPT ![p] = "install"]
    /\ \/ /\ saved' = [saved EXCEPT ![p] = Current]
          /\ faults' = faults
       \/ /\ faults < MaxFaults
          /\ faults' = faults + 1
          /\ saved' = [saved EXCEPT ![p] = Nothing]
    /\ UNCHANGED <<dbVars, roomVars, req, cause, acked>>

\* The client is told "ok".  A refusal, an error, and the check of the move
\* handler in a runtime that stopped meanwhile all tell it otherwise.
Succeeded(p) ==
    /\ cause[p] = "none"
    /\ state[p] = "stopped" => req[p].body # "move"

\* The closure of a finished commit is gone.
EndTask(p) ==
    /\ step' = [step EXCEPT ![p] = "idle"]
    /\ req' = [req EXCEPT ![p] = Tick]
    /\ saved' = [saved EXCEPT ![p] = Nothing]
    /\ cause' = [cause EXCEPT ![p] = "none"]

\* installCommitted, then the answer: a stopped room installs nothing, and a
\* room never goes back to an older revision.
Install(p) ==
    /\ Working(p) /\ step[p] = "install"
    /\ IF state[p] = "running" /\ saved[p].revision > rev[p]
       THEN /\ rev' = [rev EXCEPT ![p] = saved[p].revision]
            /\ view' = [view EXCEPT ![p] = saved[p].checkpoint]
       ELSE UNCHANGED <<rev, view>>
    /\ acked' = IF IsCommand(req[p]) /\ Succeeded(p) THEN acked \cup {req[p]} ELSE acked
    /\ EndTask(p)
    /\ UNCHANGED <<dbVars, gen, state, faults>>

\* A draw answer to a game that is over returns before any commit.
AnswerOver(p) ==
    /\ state[p] = "running"
    /\ view[p].over
    /\ \E r \in Request : r.body = "answer" /\ acked' = acked \cup {r}
    /\ UNCHANGED <<dbVars, roomVars, taskVars, faults>>

------------------------------------------------------------------------------
(* Processes *)

\* A process that ends takes its room and the commit in flight with it.
Die(p) ==
    /\ state' = [state EXCEPT ![p] = "dead"]
    /\ rev' = [rev EXCEPT ![p] = 0]
    /\ view' = [view EXCEPT ![p] = Opening]
    /\ EndTask(p)
    /\ UNCHANGED <<gen, acked>>

\* A process takes over gameplay: every older generation is superseded.
Claim(p) ==
    /\ state[p] = "off"
    /\ owner' = owner + 1
    /\ gen' = [gen EXCEPT ![p] = owner + 1]
    /\ state' = [state EXCEPT ![p] = "claimed"]
    /\ UNCHANGED <<run, receipts, job, result, seats, ledger, rev, view, taskVars,
                   acked, faults>>

\* Startup reads the run.  An unfinished one has its players' claims rebuilt
\* and must still be paused; a finished one is only shown again.
Load(p) ==
    /\ state[p] = "claimed"
    /\ HoldsOwnership(p)
    /\ rev' = [rev EXCEPT ![p] = run.revision]
    /\ view' = [view EXCEPT ![p] = run.checkpoint]
    /\ state' = [state EXCEPT ![p] = IF run.checkpoint.over THEN "running" ELSE "loaded"]
    /\ seats' = ~run.checkpoint.over
    /\ UNCHANGED <<owner, run, receipts, job, result, ledger, gen, taskVars, acked, faults>>

\* Startup pauses the unfinished game under its own generation.  Unless the
\* commit is confirmed, startup fails.
Recover(p) ==
    /\ state[p] = "loaded"
    /\ HoldsOwnership(p)
    /\ run.revision = rev[p]
    /\ run.status = "OPEN" /\ ~run.checkpoint.over
    /\ run.revision < MaxRevision
    /\ LET c == Pause(view[p], gen[p]) IN
          /\ Store(c, gen[p])
          /\ \/ /\ rev' = [rev EXCEPT ![p] = run.revision + 1]
                /\ view' = [view EXCEPT ![p] = c]
                /\ state' = [state EXCEPT ![p] = "running"]
                /\ UNCHANGED <<gen, taskVars, acked, faults>>
             \/ /\ faults < MaxFaults
                /\ faults' = faults + 1
                /\ Die(p)
    /\ UNCHANGED <<owner, receipts>>

\* The watcher or a transaction finds a newer owner: the room stops, and a
\* transaction in flight throws.
Supersede(p) ==
    /\ ~HoldsOwnership(p)
    /\ state[p] = "running" \/ (state[p] = "stopped" /\ step[p] \in {"commit", "confirm", "reread"})
    /\ state' = [state EXCEPT ![p] = "stopped"]
    /\ IF step[p] \in {"commit", "confirm", "reread"}
       THEN EndTask(p)
       ELSE UNCHANGED taskVars
    /\ UNCHANGED <<dbVars, gen, rev, view, acked, faults>>

\* A startup that finds a newer owner fails.
FailStart(p) ==
    /\ ~HoldsOwnership(p)
    /\ state[p] \in {"claimed", "loaded"}
    /\ Die(p)
    /\ UNCHANGED <<dbVars, faults>>

\* An orderly shutdown closes admission and lets the commit in flight finish.
Stop(p) ==
    /\ state[p] = "running"
    /\ state' = [state EXCEPT ![p] = "stopped"]
    /\ UNCHANGED <<dbVars, gen, rev, view, taskVars, acked, faults>>

\* The process exits, after its shutdown or in the middle of anything.
Crash(p) ==
    /\ state[p] \in {"claimed", "loaded", "running", "stopped"}
    /\ Die(p)
    /\ UNCHANGED <<dbVars, faults>>

\* The settlement of the recorded terminal intent, by any process: it is not
\* fenced.  The money is the subject of GameStarts.
Settle ==
    /\ job /\ run.status = "OPEN"
    /\ run' = [run EXCEPT !.status = "SETTLED"]
    /\ seats' = FALSE
    /\ UNCHANGED <<owner, receipts, job, result, ledger, roomVars, taskVars, acked, faults>>

------------------------------------------------------------------------------

\* A game that has been created, opened and installed by its first owner.
Init ==
    /\ owner = 1
    /\ run = [revision |-> 1, checkpoint |-> Opening, status |-> "OPEN"]
    /\ ledger = << [checkpoint |-> Opening, writer |-> 1] >>
    /\ receipts = {}
    /\ job = FALSE /\ result = FALSE /\ seats = TRUE
    /\ \E first \in Process :
          /\ gen = [p \in Process |-> IF p = first THEN 1 ELSE 0]
          /\ state = [p \in Process |-> IF p = first THEN "running" ELSE "off"]
          /\ rev = [p \in Process |-> IF p = first THEN 1 ELSE 0]
    /\ view = [p \in Process |-> Opening]
    /\ step = [p \in Process |-> "idle"]
    /\ req = [p \in Process |-> Tick]
    /\ saved = [p \in Process |-> Nothing]
    /\ cause = [p \in Process |-> "none"]
    /\ acked = {}
    /\ faults = 0

Transact(p) == Duplicate(p) \/ Conflict(p) \/ Reject(p) \/ Pass(p) \/ Write(p) \/ Unavailable(p)
Commit(p) == Transact(p) \/ Confirm(p) \/ Reread(p) \/ Install(p)
Serve(p) == BeginCommand(p) \/ BeginTick(p) \/ BeginBot(p) \/ AnswerOver(p)
Start(p) == Claim(p) \/ Load(p) \/ Recover(p)
End(p) == Supersede(p) \/ FailStart(p) \/ Stop(p) \/ Crash(p)

Next == Settle \/ \E p \in Process : Commit(p) \/ Serve(p) \/ Start(p) \/ End(p)

Spec == Init /\ [][Next]_vars

\* The event loop runs what is pending; the clock interval of a timed game and
\* the recovery timer keep committing.  Nothing makes clients send, or
\* processes stop.
Fairness ==
    /\ \A p \in Process : WF_vars(Commit(p)) /\ WF_vars(Supersede(p)) /\ WF_vars(BeginTick(p))

FairSpec == Spec /\ Fairness
------------------------------------------------------------------------------
(* Properties *)

Response == [revision : Nat, checkpoint : Checkpoint]

LedgerEntry == [checkpoint : Checkpoint, writer : Nat]

DbTypeOK ==
    /\ owner \in Nat
    /\ run \in [revision : Nat, checkpoint : Checkpoint, status : {"OPEN", "SETTLED"}]
    /\ receipts \subseteq [request : Request, revision : Nat]
    /\ job \in BOOLEAN /\ result \in BOOLEAN /\ seats \in BOOLEAN
    /\ ledger \in Seq(LedgerEntry)

RoomTypeOK ==
    /\ gen \in [Process -> Nat]
    /\ state \in [Process -> {"off", "claimed", "loaded", "running", "stopped", "dead"}]
    /\ rev \in [Process -> Nat]
    /\ view \in [Process -> Checkpoint]

TaskTypeOK ==
    /\ step \in [Process -> {"idle", "commit", "confirm", "reread", "install"}]
    /\ req \in [Process -> Task]
    /\ saved \in [Process -> Response]
    /\ cause \in [Process -> {"none", "rejected", "conflict", "unavailable"}]
    /\ acked \subseteq Request
    /\ faults \in Nat

\* The shape of every variable: database rows, rooms of the processes, commits.
TypeOK == DbTypeOK /\ RoomTypeOK /\ TaskTypeOK

PlayedKey(c, k) == \E i \in 1..Len(c.moves) : c.moves[i].key = k

\* What a room shows is always a state the database committed under the room's
\* revision, however many responses were lost: installCommitted never leaves
\* speculative or mixed state visible to a sync request.
InstalledIsCommitted ==
    \A p \in Process : rev[p] # 0 =>
        /\ rev[p] <= Len(ledger)
        /\ view[p] = ledger[rev[p]].checkpoint

\* Each move was chosen for the position it was played in, and no command's
\* move is in the game twice: retries, confirmations, bots rescheduled after a
\* lost response and takeovers included.
MovesOnce ==
    LET m == run.checkpoint.moves IN
    /\ \A i \in 1..Len(m) : m[i].ply = i - 1
    /\ \A i, j \in 1..Len(m) : m[i].key # NoKey /\ m[i].key = m[j].key => i = j

\* A client told "ok" got what it asked for: a move is in the game or the game
\* is over, and any other command is recorded or came after the end.
AcknowledgedTookEffect ==
    \A r \in acked :
        \/ run.checkpoint.over
        \/ /\ Recorded(r)
           /\ r.body = "move" => PlayedKey(run.checkpoint, r.key)

\* The receipt of a move names exactly the revision that played it.
ReceiptNamesItsRevision ==
    \A k \in Key : \A i \in 1..Len(ledger) :
        PlayedKey(ledger[i].checkpoint, k) /\ (i = 1 \/ ~PlayedKey(ledger[i - 1].checkpoint, k)) =>
            \E x \in receipts : x.request.key = k /\ x.revision = i

\* What clients and receipts say of commands is so: what was acknowledged took effect,
\* and the revision that a receipt names is the one that played the move.
RepliesHold == AcknowledgedTookEffect /\ ReceiptNamesItsRevision

\* The terminal checkpoint, its settlement job, its result record and the
\* release of the players' claims are never seen apart; only a recorded end is
\* settled.
TerminalTogether ==
    /\ job = run.checkpoint.over
    /\ result = run.checkpoint.over
    /\ seats = ~run.checkpoint.over
    /\ run.status = "SETTLED" => job

\* Generations follow each other in the history, and the first thing a new one
\* commits is the pause that makes the players confirm the restart: no process
\* plays on in a game it has just taken over.
HandoverPausesTheGame ==
    \A i \in 2..Len(ledger) :
        ledger[i].writer # ledger[i - 1].writer =>
            /\ ledger[i].writer > ledger[i - 1].writer
            /\ ledger[i].checkpoint.recovery = ledger[i].writer

\* Once a takeover is committed no older generation commits a gameplay write.
OnlyTheOwnerWrites ==
    [][ledger' # ledger => ledger'[Len(ledger')].writer = owner]_vars

\* A game that has ended keeps the checkpoint and the receipts it ended with,
\* and a settled one is never reopened.
OutcomeIsFinal ==
    [][/\ run.checkpoint.over => run'.checkpoint = run.checkpoint /\ receipts' = receipts
       /\ run.status = "SETTLED" => run' = run]_vars

\* After lost responses the owner of a live game does not stay behind the
\* database: its own commits make it read the current state.
OwnerCatchesUp ==
    \A p \in Process :
        (state[p] = "running" /\ rev[p] < run.revision)
            ~> (rev[p] = run.revision \/ state[p] # "running")

------------------------------------------------------------------------------
(* What the proofs need besides: the facts that make the properties above   *)
(* inductive.                                                               *)

Last == ledger[Len(ledger)]

\* The GameRun row is the last entry of its history.
RunIsLastEntry ==
    /\ Len(ledger) >= 1
    /\ run.revision = Len(ledger)
    /\ run.checkpoint = Last.checkpoint

\* No generation is ahead of the owner; a process that runs as the owner has
\* written the last entry, unless the game ended before it started.
OwnerIsNewest ==
    /\ \A p \in Process : gen[p] <= owner
    /\ Last.writer <= owner
    /\ \A p \in Process : Working(p) /\ HoldsOwnership(p) =>
            run.checkpoint.over \/ Last.writer = owner

\* What is on its way from the database into a room was committed.
SavedIsCommitted ==
    \A p \in Process : saved[p].revision # 0 =>
        /\ saved[p].revision <= Len(ledger)
        /\ saved[p].checkpoint = ledger[saved[p].revision].checkpoint

OnlyLastIsOver == \A i \in 1..Len(ledger) : ledger[i].checkpoint.over => i = Len(ledger)

MovesAreRecorded ==
    \A i \in 1..Len(run.checkpoint.moves) :
        run.checkpoint.moves[i].key # NoKey => KeyUsed(run.checkpoint.moves[i])

RecordedMovesArePlayed ==
    \A x \in receipts : x.request.body = "move" =>
        run.checkpoint.over \/ PlayedKey(run.checkpoint, x.request.key)

SuccessIsRecorded ==
    \A p \in Process :
        step[p] = "install" /\ cause[p] = "none" /\ IsCommand(req[p]) => Recorded(req[p])

FailuresHaveCauses == \A p \in Process : step[p] \in {"confirm", "reread"} => cause[p] # "none"

NothingLoadedIsOpening == \A p \in Process : rev[p] = 0 => view[p] = Opening

IInv ==
    /\ TypeOK
    /\ RunIsLastEntry
    /\ OwnerIsNewest
    /\ FailuresHaveCauses
    /\ NothingLoadedIsOpening
    /\ InstalledIsCommitted
    /\ SavedIsCommitted
    /\ OnlyLastIsOver
    /\ TerminalTogether
    /\ HandoverPausesTheGame
    /\ MovesAreRecorded
    /\ MovesOnce
    /\ RecordedMovesArePlayed
    /\ SuccessIsRecorded
    /\ AcknowledgedTookEffect

\* The pipeline implements the ledger the players are promised.
Ledger == INSTANCE GameLedger WITH
    played <- run.checkpoint.moves,
    over <- run.checkpoint.over,
    accepted <- {x.request.key : x \in receipts},
    acked <- {r.key : r \in acked}

ImplementsLedger == Ledger!LedgerSpec
==============================================================================
