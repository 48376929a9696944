------------------------ MODULE GameTransitionsProofs ------------------------
(***************************************************************************)
(* Proofs about GameTransitions, for every number of processes, commands,   *)
(* revisions and faults.                                                    *)
(***************************************************************************)
EXTENDS GameTransitions, TLAPS

------------------------------------------------------------------------------
(* Transitions yield checkpoints *)

LEMMA TaskFields ==
    ASSUME NEW r \in Task
    PROVE  /\ r.key \in Key \cup {NoKey}
           /\ r.body \in CommandBody \cup BackgroundBody
           /\ r.ply \in Nat
           /\ IsCommand(r) => r \in Request
BY RequestAssumption DEF Task, IsCommand

LEMMA BackgroundTasks ==
    /\ Tick \in Task /\ ~IsCommand(Tick)
    /\ \A c \in Checkpoint : BotMove(c) \in Task /\ ~IsCommand(BotMove(c))
BY DEF Tick, BotMove, Task, BackgroundBody, IsCommand, Checkpoint

LEMMA CheckpointEdits ==
    ASSUME NEW c \in Checkpoint, NEW r \in Task, NEW g \in Nat
    PROVE  /\ Play(c, r) \in Checkpoint
           /\ Finish(c) \in Checkpoint
           /\ Resume(c) \in Checkpoint
           /\ Pause(c, g) \in Checkpoint
<1>1. [key |-> r.key, ply |-> r.ply] \in Move
  BY TaskFields DEF Move
<1>2. Append(c.moves, [key |-> r.key, ply |-> r.ply]) \in Seq(Move)
  BY <1>1 DEF Checkpoint
<1>3. Play(c, r) \in Checkpoint
  BY <1>2 DEF Play, Checkpoint
<1>4. Finish(c) \in Checkpoint /\ Resume(c) \in Checkpoint /\ Pause(c, g) \in Checkpoint
  BY DEF Finish, Resume, Pause, Checkpoint
<1>. QED  BY <1>3, <1>4

LEMMA DraftsAreCheckpoints ==
    ASSUME NEW c \in Checkpoint, NEW r \in Task
    PROVE  Drafts(c, r) \cup TimedOut(c, r) \subseteq Checkpoint
<1>1. Moved(c, r) \subseteq Checkpoint
  BY CheckpointEdits DEF Moved
<1>2. Finish(c) \in Checkpoint /\ Resume(c) \in Checkpoint
  BY CheckpointEdits
<1>3. r.body \in {"move", "bot", "answer", "ready", "tick"}
  BY TaskFields DEF CommandBody, BackgroundBody
<1>4. Drafts(c, r) \subseteq Checkpoint
  BY <1>1, <1>2, <1>3 DEF Drafts
<1>5. TimedOut(c, r) \subseteq Checkpoint
  BY <1>2 DEF TimedOut
<1>. QED  BY <1>4, <1>5

LEMMA OpeningIsCheckpoint == Opening \in Checkpoint
BY DEF Opening, Checkpoint

LEMMA NothingIsResponse == Nothing \in Response
BY OpeningIsCheckpoint DEF Nothing, Response

------------------------------------------------------------------------------
(* Type correctness *)

LEMMA TypeInit == Init => TypeOK
<1>. SUFFICES ASSUME Init PROVE TypeOK
  OBVIOUS
<1>1. [checkpoint |-> Opening, writer |-> 1] \in LedgerEntry
  BY OpeningIsCheckpoint DEF LedgerEntry
<1>2. DbTypeOK
  <2>1. ledger \in Seq(LedgerEntry)
    BY <1>1 DEF Init
  <2>2. run \in [revision : Nat, checkpoint : Checkpoint, status : {"OPEN", "SETTLED"}]
    BY OpeningIsCheckpoint DEF Init
  <2>. QED  BY <2>1, <2>2 DEF Init, DbTypeOK
<1>3. RoomTypeOK
  BY OpeningIsCheckpoint DEF Init, RoomTypeOK
<1>4. TaskTypeOK
  BY NothingIsResponse, BackgroundTasks DEF Init, TaskTypeOK
<1>. QED  BY <1>2, <1>3, <1>4 DEF TypeOK

\* The parts of the actions, one at a time.

LEMMA CurrentIsResponse ==
    ASSUME TypeOK
    PROVE  Current \in Response
BY DEF TypeOK, DbTypeOK, Current, Response

LEMMA RespondType ==
    ASSUME TypeOK, NEW p \in Process, NEW v \in Response,
           NEW w \in {"none", "rejected"}, Respond(p, v, w), req' = req, acked' = acked
    PROVE  TaskTypeOK'
BY BoundAssumption DEF TypeOK, TaskTypeOK, Respond, AfterFailure

LEMMA EndTaskType ==
    ASSUME TypeOK, NEW p \in Process, EndTask(p), acked' \subseteq Request, faults' \in Nat
    PROVE  TaskTypeOK'
BY NothingIsResponse, BackgroundTasks DEF TypeOK, TaskTypeOK, EndTask

LEMMA StoreType ==
    ASSUME TypeOK, NEW c \in Checkpoint, NEW w \in Nat, Store(c, w),
           owner' \in Nat, receipts' \subseteq [request : Request, revision : Nat]
    PROVE  DbTypeOK'
<1>1. [checkpoint |-> c, writer |-> w] \in LedgerEntry
  BY DEF LedgerEntry
<1>2. ledger' \in Seq(LedgerEntry)
  BY <1>1 DEF TypeOK, DbTypeOK, Store
<1>3. run' \in [revision : Nat, checkpoint : Checkpoint, status : {"OPEN", "SETTLED"}]
  <2>1. run \in [revision : Nat, checkpoint : Checkpoint, status : {"OPEN", "SETTLED"}]
    BY DEF TypeOK, DbTypeOK
  <2>2. run' = [run EXCEPT !.revision = run.revision + 1, !.checkpoint = c]
    BY Zenon DEF Store
  <2>3. /\ run.revision + 1 \in Nat
        /\ run = [revision |-> run.revision, checkpoint |-> run.checkpoint, status |-> run.status]
        /\ run.status \in {"OPEN", "SETTLED"}
    BY <2>1
  <2>4. run' = [revision |-> run.revision + 1, checkpoint |-> c, status |-> run.status]
    BY <2>2, <2>3
  <2>. QED  BY <2>3, <2>4
<1>4. c.over \in BOOLEAN
  BY DEF Checkpoint
<1>5. job' \in BOOLEAN /\ result' \in BOOLEAN /\ seats' \in BOOLEAN
  <2>1. /\ (job \/ c.over) \in BOOLEAN
        /\ (result \/ c.over) \in BOOLEAN
        /\ (seats /\ ~c.over) \in BOOLEAN
    BY Zenon
  <2>. QED  BY <2>1, Zenon DEF Store
<1>. QED  BY <1>2, <1>3, <1>5 DEF DbTypeOK

LEMMA ReceiptType ==
    ASSUME TypeOK, NEW r \in Task, NEW n \in Nat, WriteReceipt(r, n)
    PROVE  receipts' \subseteq [request : Request, revision : Nat]
BY TaskFields DEF TypeOK, DbTypeOK, WriteReceipt

LEMMA TypeUnchanged ==
    ASSUME TypeOK
    PROVE  /\ UNCHANGED dbVars => DbTypeOK'
           /\ UNCHANGED roomVars => RoomTypeOK'
           /\ UNCHANGED <<taskVars, acked, faults>> => TaskTypeOK'
BY DEF TypeOK, DbTypeOK, RoomTypeOK, TaskTypeOK, dbVars, roomVars, taskVars

LEMMA TypeTransact ==
    ASSUME TypeOK, NEW p \in Process, Transact(p)
    PROVE  TypeOK'
<1>1. CASE Duplicate(p)
  BY <1>1, CurrentIsResponse, RespondType, TypeUnchanged DEF Duplicate, TypeOK
<1>2. CASE Conflict(p) \/ Reject(p) \/ Unavailable(p)
  <2>1. DbTypeOK' /\ RoomTypeOK'
    BY <1>2, TypeUnchanged DEF Conflict, Reject, Unavailable, RolledBack
  <2>2. TaskTypeOK'
    BY <1>2 DEF TypeOK, TaskTypeOK, Conflict, Reject, Unavailable, RolledBack, AfterFailure
  <2>. QED  BY <2>1, <2>2 DEF TypeOK
<1>3. CASE Pass(p)
  <2>1. req[p] \in Task /\ run.revision \in Nat
    BY DEF TypeOK, TaskTypeOK, DbTypeOK
  <2>2. receipts' \subseteq [request : Request, revision : Nat]
    BY <1>3, <2>1, ReceiptType DEF Pass
  <2>3. DbTypeOK'
    BY <1>3, <2>2 DEF Pass, TypeOK, DbTypeOK
  <2>4. RoomTypeOK' /\ TaskTypeOK'
    BY <1>3, CurrentIsResponse, RespondType, TypeUnchanged DEF Pass
  <2>. QED  BY <2>3, <2>4 DEF TypeOK
<1>4. CASE Write(p)
  <2>1. /\ req[p] \in Task /\ run.revision \in Nat /\ view[p] \in Checkpoint
        /\ gen[p] \in Nat /\ owner \in Nat
    BY DEF TypeOK, TaskTypeOK, DbTypeOK, RoomTypeOK
  <2>2. PICK d \in Drafts(view[p], req[p]) \cup TimedOut(view[p], req[p]) :
            /\ Store(d, gen[p])
            /\ WriteReceipt(req[p], run.revision + 1)
            /\ Respond(p, [revision |-> run.revision + 1, checkpoint |-> d],
                       IF d \in TimedOut(view[p], req[p]) THEN "rejected" ELSE "none")
    BY <1>4 DEF Write
  <2>3. d \in Checkpoint
    BY <2>1, <2>2, DraftsAreCheckpoints
  <2>4. receipts' \subseteq [request : Request, revision : Nat]
    BY <2>1, <2>2, ReceiptType
  <2>5. DbTypeOK'
    BY <1>4, <2>1, <2>2, <2>3, <2>4, StoreType DEF Write
  <2>6. [revision |-> run.revision + 1, checkpoint |-> d] \in Response
    BY <2>1, <2>3 DEF Response
  <2>7. RoomTypeOK' /\ TaskTypeOK'
    BY <1>4, <2>2, <2>6, RespondType, TypeUnchanged DEF Write
  <2>. QED  BY <2>5, <2>7 DEF TypeOK
<1>. QED  BY <1>1, <1>2, <1>3, <1>4 DEF Transact

LEMMA TypeStep == TypeOK /\ [Next]_vars => TypeOK'
<1>. SUFFICES ASSUME TypeOK, [Next]_vars PROVE TypeOK'
  OBVIOUS
<1>1. ASSUME NEW p \in Process, Transact(p) PROVE TypeOK'
  BY <1>1, TypeTransact
<1>2. ASSUME NEW p \in Process, Confirm(p) \/ Reread(p) PROVE TypeOK'
  <2>1. DbTypeOK' /\ RoomTypeOK'
    BY <1>2, TypeUnchanged DEF Confirm, Reread
  <2>2. TaskTypeOK'
    BY <1>2, CurrentIsResponse, NothingIsResponse DEF TypeOK, TaskTypeOK, Confirm, Reread
  <2>. QED  BY <2>1, <2>2 DEF TypeOK
<1>3. ASSUME NEW p \in Process, Install(p) PROVE TypeOK'
  <2>1. DbTypeOK'
    BY <1>3, TypeUnchanged DEF Install
  <2>2. saved[p].revision \in Nat /\ saved[p].checkpoint \in Checkpoint
    BY DEF TypeOK, TaskTypeOK, Response
  <2>3. RoomTypeOK'
    BY <1>3, <2>2 DEF Install, TypeOK, RoomTypeOK
  <2>4. acked' \subseteq Request
    BY <1>3, TaskFields DEF Install, TypeOK, TaskTypeOK
  <2>5. TaskTypeOK'
    BY <1>3, <2>4, EndTaskType DEF Install, TypeOK, TaskTypeOK
  <2>. QED  BY <2>1, <2>3, <2>5 DEF TypeOK
<1>4. ASSUME NEW p \in Process, Serve(p) PROVE TypeOK'
  <2>1. ASSUME NEW r \in Task, Begin(p, r) PROVE TypeOK'
    <3>1. DbTypeOK' /\ RoomTypeOK'
      BY <2>1, TypeUnchanged DEF Begin
    <3>2. TaskTypeOK'
      BY <2>1, NothingIsResponse DEF Begin, TypeOK, TaskTypeOK
    <3>. QED  BY <3>1, <3>2 DEF TypeOK
  <2>2. CASE BeginCommand(p)
    BY <2>1, <2>2 DEF BeginCommand, Task
  <2>3. CASE BeginTick(p) \/ BeginBot(p)
    <3>1. view[p] \in Checkpoint
      BY DEF TypeOK, RoomTypeOK
    <3>. QED  BY <2>1, <2>3, <3>1, BackgroundTasks DEF BeginTick, BeginBot
  <2>4. CASE AnswerOver(p)
    <3>1. DbTypeOK' /\ RoomTypeOK'
      BY <2>4, TypeUnchanged DEF AnswerOver
    <3>2. TaskTypeOK'
      BY <2>4 DEF AnswerOver, TypeOK, TaskTypeOK, taskVars
    <3>. QED  BY <3>1, <3>2 DEF TypeOK
  <2>. QED  BY <1>4, <2>2, <2>3, <2>4 DEF Serve
<1>5. ASSUME NEW p \in Process, Claim(p) \/ Load(p) PROVE TypeOK'
  <2>1. TaskTypeOK'
    BY <1>5, TypeUnchanged DEF Claim, Load
  <2>2. run.revision \in Nat /\ run.checkpoint \in Checkpoint
    BY DEF TypeOK, DbTypeOK
  <2>3. DbTypeOK'
    <3>1. owner' \in Nat
      BY <1>5 DEF Claim, Load, TypeOK, DbTypeOK
    <3>2. seats' \in BOOLEAN
      BY <1>5, Zenon DEF Claim, Load, TypeOK, DbTypeOK
    <3>. QED  BY <1>5, <3>1, <3>2 DEF Claim, Load, TypeOK, DbTypeOK
  <2>4. CASE Claim(p)
    <3>1. RoomTypeOK'
      BY <2>4 DEF Claim, TypeOK, RoomTypeOK, DbTypeOK
    <3>. QED  BY <2>1, <2>3, <3>1 DEF TypeOK
  <2>5. CASE Load(p)
    <3>1. RoomTypeOK'
      BY <2>2, <2>5 DEF Load, TypeOK, RoomTypeOK
    <3>. QED  BY <2>1, <2>3, <3>1 DEF TypeOK
  <2>. QED  BY <1>5, <2>4, <2>5
<1>6. ASSUME NEW p \in Process, Recover(p) PROVE TypeOK'
  <2>1. /\ gen[p] \in Nat /\ view[p] \in Checkpoint /\ run.revision \in Nat
        /\ owner \in Nat /\ receipts \subseteq [request : Request, revision : Nat]
    BY DEF TypeOK, RoomTypeOK, DbTypeOK
  <2>2. Pause(view[p], gen[p]) \in Checkpoint
    BY <2>1, BackgroundTasks, CheckpointEdits
  <2>3. DbTypeOK'
    BY <1>6, <2>1, <2>2, StoreType DEF Recover
  <2>4. RoomTypeOK'
    BY <1>6, <2>1, <2>2, OpeningIsCheckpoint DEF Recover, Die, TypeOK, RoomTypeOK
  <2>5. CASE UNCHANGED <<gen, taskVars, acked, faults>>
    BY <1>6, <2>3, <2>4, <2>5, TypeUnchanged DEF TypeOK
  <2>6. CASE faults' = faults + 1 /\ Die(p)
    BY <2>3, <2>4, <2>6, EndTaskType DEF Die, TypeOK, TaskTypeOK
  <2>. QED  BY <1>6, <2>5, <2>6 DEF Recover
<1>7. ASSUME NEW p \in Process, End(p) PROVE TypeOK'
  <2>1. DbTypeOK'
    BY <1>7, TypeUnchanged DEF End, Supersede, FailStart, Stop, Crash
  <2>2. RoomTypeOK'
    BY <1>7, OpeningIsCheckpoint
       DEF End, Supersede, FailStart, Stop, Crash, Die, TypeOK, RoomTypeOK
  <2>3. CASE EndTask(p) /\ UNCHANGED <<acked, faults>>
    BY <2>1, <2>2, <2>3, EndTaskType DEF TypeOK, TaskTypeOK
  <2>4. CASE UNCHANGED <<taskVars, acked, faults>>
    BY <2>1, <2>2, <2>4, TypeUnchanged DEF TypeOK
  <2>. QED  BY <1>7, <2>3, <2>4 DEF End, Supersede, FailStart, Stop, Crash, Die
<1>8. ASSUME Settle PROVE TypeOK'
  <2>1. RoomTypeOK' /\ TaskTypeOK'
    BY <1>8, TypeUnchanged DEF Settle
  <2>2. DbTypeOK'
    BY <1>8 DEF Settle, TypeOK, DbTypeOK
  <2>. QED  BY <2>1, <2>2 DEF TypeOK
<1>9. CASE UNCHANGED vars
  BY <1>9, TypeUnchanged DEF vars, TypeOK, dbVars, roomVars, taskVars
<1>. QED
  BY <1>1, <1>2, <1>3, <1>4, <1>5, <1>6, <1>7, <1>8, <1>9 DEF Next, Commit, Start

\* Every variable keeps its type.
THEOREM TypeCorrect == Spec => []TypeOK
BY TypeInit, TypeStep, PTL DEF Spec

------------------------------------------------------------------------------
(* The database side of the inductive invariant *)

LedgerInv == RunIsLastEntry /\ OnlyLastIsOver /\ TerminalTogether /\ HandoverPausesTheGame

\* What a fenced write leaves: this is all that Write and Recover share.
LEMMA StoreKeepsLedger ==
    ASSUME TypeOK, LedgerInv, NEW c \in Checkpoint, NEW w \in Nat, Store(c, w),
           ~run.checkpoint.over, run.status = "OPEN", Last.writer <= w,
           Last.writer # w => c.recovery = w
    PROVE  /\ LedgerInv'
           /\ run'.checkpoint = c /\ Last'.writer = w
           /\ Len(ledger') = Len(ledger) + 1
           /\ \A i \in 1..Len(ledger) : ledger'[i] = ledger[i]
<1>. DEFINE e == [checkpoint |-> c, writer |-> w]
<1>1. ledger \in Seq(LedgerEntry) /\ e \in LedgerEntry /\ ledger' = Append(ledger, e)
  BY DEF TypeOK, DbTypeOK, LedgerEntry, Store
<1>2. /\ Len(ledger) \in Nat
      /\ Len(ledger') = Len(ledger) + 1
      /\ ledger'[Len(ledger) + 1] = e
      /\ \A i \in 1..Len(ledger) : ledger'[i] = ledger[i]
  BY <1>1
<1>3. Last' = e
  BY <1>2, Zenon DEF Last
<1>4. run' = [run EXCEPT !.revision = run.revision + 1, !.checkpoint = c]
  BY Zenon DEF Store
<1>5. run'.checkpoint = c /\ run'.revision = run.revision + 1 /\ run'.status = run.status
  BY <1>4 DEF TypeOK, DbTypeOK
<1>6. RunIsLastEntry'
  BY <1>2, <1>3, <1>5 DEF RunIsLastEntry, LedgerInv
<1>7. OnlyLastIsOver'
  <2>1. \A i \in 1..Len(ledger) : ~ledger[i].checkpoint.over
    BY <1>2 DEF LedgerInv, OnlyLastIsOver, RunIsLastEntry, Last
  <2>. QED  BY <1>2, <2>1 DEF OnlyLastIsOver
<1>8. TerminalTogether'
  <2>1. ~job /\ ~result /\ seats
    BY DEF LedgerInv, TerminalTogether
  <2>2. c.over \in BOOLEAN
    BY DEF Checkpoint
  <2>3. job' = c.over /\ result' = c.over /\ seats' = ~c.over
    BY <2>1, <2>2, Zenon DEF Store
  <2>. QED  BY <1>5, <2>3 DEF TerminalTogether
<1>9. HandoverPausesTheGame'
  <2>. SUFFICES ASSUME NEW i \in 2..Len(ledger'), ledger'[i].writer # ledger'[i - 1].writer
                PROVE  /\ ledger'[i].writer > ledger'[i - 1].writer
                       /\ ledger'[i].checkpoint.recovery = ledger'[i].writer
    BY DEF HandoverPausesTheGame
  <2>1. CASE i \in 2..Len(ledger)
    BY <1>2, <2>1 DEF LedgerInv, HandoverPausesTheGame
  <2>2. CASE i = Len(ledger) + 1
    <3>1. i - 1 = Len(ledger) /\ Len(ledger) \in 1..Len(ledger)
      BY <1>2, <2>2 DEF LedgerInv, RunIsLastEntry
    <3>2. ledger'[i] = e /\ ledger'[i - 1] = Last
      <4>1. ledger'[Len(ledger)] = ledger[Len(ledger)]
        BY <1>2, <3>1
      <4>. QED  BY <1>2, <2>2, <3>1, <4>1 DEF Last
    <3>3. Last.writer \in Nat
      <4>1. Last \in LedgerEntry
        BY <1>1, <3>1 DEF Last
      <4>. QED  BY <4>1 DEF LedgerEntry
    <3>4. c.recovery = w /\ Last.writer # w
      BY <3>2
    <3>. QED  BY <3>2, <3>3, <3>4
  <2>. QED  BY <1>2, <2>1, <2>2
<1>. QED  BY <1>2, <1>3, <1>5, <1>6, <1>7, <1>8, <1>9 DEF LedgerInv

LEMMA LedgerUnchanged ==
    ASSUME LedgerInv, UNCHANGED <<run, ledger, job, result, seats>>
    PROVE  LedgerInv'
BY DEF LedgerInv, RunIsLastEntry, OnlyLastIsOver, TerminalTogether, HandoverPausesTheGame, Last

\* Every installed or travelling state stays committed while the history grows.
LEMMA HistoryKeepsViews ==
    ASSUME IInv, Len(ledger') = Len(ledger) + 1,
           \A i \in 1..Len(ledger) : ledger'[i] = ledger[i],
           NEW p \in Process
    PROVE  /\ rev[p] # 0 => rev[p] <= Len(ledger') /\ view[p] = ledger'[rev[p]].checkpoint
           /\ saved[p].revision # 0 =>
                  /\ saved[p].revision <= Len(ledger')
                  /\ saved[p].checkpoint = ledger'[saved[p].revision].checkpoint
<1>1. rev[p] \in Nat /\ saved[p].revision \in Nat /\ Len(ledger) \in Nat
  BY DEF IInv, TypeOK, RoomTypeOK, TaskTypeOK, DbTypeOK, Response
<1>2. /\ rev[p] # 0 => rev[p] <= Len(ledger) /\ view[p] = ledger[rev[p]].checkpoint
      /\ saved[p].revision # 0 =>
             /\ saved[p].revision <= Len(ledger)
             /\ saved[p].checkpoint = ledger[saved[p].revision].checkpoint
  BY DEF IInv, InstalledIsCommitted, SavedIsCommitted
<1>. QED  BY <1>1, <1>2

\* A transition works on the room's state and the database stores the draft
\* over its own: the revision check makes the two the same.
LEMMA WriteShape ==
    ASSUME IInv, NEW p \in Process, Write(p)
    PROVE  \E d \in Checkpoint :
              /\ view[p] = run.checkpoint
              /\ ~run.checkpoint.over /\ run.status = "OPEN"
              /\ Last.writer = gen[p] /\ gen[p] = owner
              /\ Store(d, gen[p])
              /\ WriteReceipt(req[p], run.revision + 1)
              /\ Respond(p, [revision |-> run.revision + 1, checkpoint |-> d],
                         IF d \in TimedOut(view[p], req[p]) THEN "rejected" ELSE "none")
              /\ \/ d.moves = run.checkpoint.moves
                 \/ d.moves = Append(run.checkpoint.moves,
                                     [key |-> req[p].key, ply |-> Len(run.checkpoint.moves)])
              /\ req[p].body = "move" =>
                    \/ d.over
                    \/ d.moves = Append(run.checkpoint.moves,
                                        [key |-> req[p].key, ply |-> Len(run.checkpoint.moves)])
<1>. DEFINE c == run.checkpoint
            r == req[p]
<1>1. /\ c \in Checkpoint /\ r \in Task /\ rev[p] \in Nat /\ gen[p] \in Nat
      /\ view[p] \in Checkpoint
  BY DEF IInv, TypeOK, DbTypeOK, RoomTypeOK, TaskTypeOK
<1>2. view[p] = c
  BY DEF IInv, Write, Admitted, RunIsLastEntry, InstalledIsCommitted, Last
<1>3. ~c.over /\ run.status = "OPEN" /\ gen[p] = owner /\ Last.writer = gen[p]
  BY DEF IInv, Write, Admitted, OwnerIsNewest, InCommit, HoldsOwnership
<1>4. PICK d \in Drafts(c, r) \cup TimedOut(c, r) :
          /\ Store(d, gen[p])
          /\ WriteReceipt(r, run.revision + 1)
          /\ Respond(p, [revision |-> run.revision + 1, checkpoint |-> d],
                     IF d \in TimedOut(view[p], r) THEN "rejected" ELSE "none")
  BY <1>2 DEF Write
<1>5. d \in Checkpoint
  BY <1>1, <1>4, DraftsAreCheckpoints
<1>6. /\ Finish(c).moves = c.moves /\ Resume(c).moves = c.moves
      /\ Finish(c).over = TRUE
      /\ Play(c, r).moves = Append(c.moves, [key |-> r.key, ply |-> r.ply])
  BY <1>1 DEF Finish, Resume, Play, Checkpoint
<1>7. Play(c, r) \in Checkpoint
  BY <1>1, CheckpointEdits
<1>8. Finish(Play(c, r)).moves = Play(c, r).moves
  BY <1>7 DEF Finish, Checkpoint
<1>9. r.body \in {"move", "bot", "answer", "ready", "tick"}
  BY <1>1, TaskFields DEF CommandBody, BackgroundBody
<1>10. CASE d \in TimedOut(c, r)
  <2>1. d = Finish(c)
    BY <1>10 DEF TimedOut
  <2>. QED  BY <1>2, <1>3, <1>4, <1>5, <1>6, <2>1
<1>11. CASE d \in Moved(c, r)
  <2>1. d.moves = Append(c.moves, [key |-> r.key, ply |-> Len(c.moves)])
    BY <1>6, <1>8, <1>11 DEF Moved
  <2>. QED  BY <1>2, <1>3, <1>4, <1>5, <2>1
<1>12. CASE d \in {c, Finish(c), Resume(c)} /\ r.body # "move"
  BY <1>2, <1>3, <1>4, <1>5, <1>6, <1>12
<1>13. d \in TimedOut(c, r) \/ d \in Moved(c, r) \/ (d \in {c, Finish(c), Resume(c)} /\ r.body # "move")
  BY <1>4, <1>9 DEF Drafts
<1>. QED  BY <1>10, <1>11, <1>12, <1>13

\* Startup pauses exactly the state it has read.
LEMMA RecoverShape ==
    ASSUME IInv, NEW p \in Process, Recover(p), NEW c, c = Pause(view[p], gen[p])
    PROVE  /\ c \in Checkpoint
           /\ c.moves = run.checkpoint.moves /\ c.recovery = gen[p] /\ ~c.over
           /\ gen[p] = owner /\ Last.writer <= owner
           /\ ~run.checkpoint.over /\ run.status = "OPEN"
           /\ Store(c, gen[p])
<1>1. /\ view[p] \in Checkpoint /\ gen[p] \in Nat /\ rev[p] \in Nat
  BY DEF IInv, TypeOK, RoomTypeOK
<1>2. view[p] = run.checkpoint /\ ~run.checkpoint.over /\ run.status = "OPEN"
  BY DEF IInv, Recover, RunIsLastEntry, InstalledIsCommitted, Last
<1>3. c \in Checkpoint
  BY <1>1, BackgroundTasks, CheckpointEdits
<1>4. c.moves = view[p].moves /\ c.recovery = gen[p] /\ c.over = view[p].over
  BY <1>1 DEF Pause, Checkpoint
<1>5. gen[p] = owner /\ Last.writer <= owner
  BY DEF IInv, Recover, HoldsOwnership, OwnerIsNewest
<1>6. Store(c, gen[p])
  BY DEF Recover
<1>. QED  BY <1>2, <1>3, <1>4, <1>5, <1>6

\* The two writers of history.
LEMMA WriterStep ==
    ASSUME IInv, NEW p \in Process, Write(p) \/ Recover(p)
    PROVE  /\ LedgerInv'
           /\ ~run.checkpoint.over
           /\ Last'.writer = owner /\ owner' = owner
           /\ Len(ledger') = Len(ledger) + 1
           /\ \A i \in 1..Len(ledger) : ledger'[i] = ledger[i]
<1>1. TypeOK /\ LedgerInv /\ gen[p] \in Nat
  BY DEF IInv, LedgerInv, TypeOK, RoomTypeOK
<1>2. CASE Write(p)
  <2>1. PICK d \in Checkpoint :
            /\ ~run.checkpoint.over /\ run.status = "OPEN"
            /\ Last.writer = gen[p] /\ gen[p] = owner
            /\ Store(d, gen[p])
    BY <1>2, WriteShape
  <2>2. Last.writer <= gen[p]
    BY <1>1, <2>1
  <2>3. owner' = owner
    BY <1>2 DEF Write
  <2>. QED  BY <1>1, <2>1, <2>2, <2>3, StoreKeepsLedger
<1>3. CASE Recover(p)
  <2>. DEFINE c == Pause(view[p], gen[p])
  <2>1. /\ c \in Checkpoint /\ c.recovery = gen[p]
        /\ gen[p] = owner /\ Last.writer <= owner
        /\ ~run.checkpoint.over /\ run.status = "OPEN"
        /\ Store(c, gen[p])
    BY <1>3, RecoverShape
  <2>2. owner' = owner
    BY <1>3 DEF Recover
  <2>. QED  BY <1>1, <2>1, <2>2, StoreKeepsLedger
<1>. QED  BY <1>2, <1>3

\* Everything else leaves the history alone; only a load and the settlement
\* touch what TerminalTogether speaks of.
LEMMA OtherStep ==
    ASSUME [Next]_vars, \A p \in Process : ~Write(p) /\ ~Recover(p)
    PROVE  /\ ledger' = ledger
           /\ job' = job /\ result' = result
           /\ run' = run \/ Settle
           /\ seats' = seats \/ Settle \/ \E p \in Process : Load(p)
BY Zenon DEF Next, Commit, Transact, Duplicate, Conflict, Reject, Pass, Unavailable, RolledBack,
       Confirm, Reread, Install, Serve, BeginCommand, BeginTick, BeginBot, Begin, AnswerOver,
       Start, Claim, Load, End, Supersede, FailStart, Stop, Crash, dbVars, vars, Settle

LEMMA LedgerStep ==
    ASSUME IInv, [Next]_vars
    PROVE  /\ LedgerInv'
           /\ Len(ledger) \in Nat /\ Len(ledger') \in Nat
           /\ Len(ledger') = Len(ledger) \/ Len(ledger') = Len(ledger) + 1
           /\ \A i \in 1..Len(ledger) : ledger'[i] = ledger[i]
<1>1. LedgerInv /\ Len(ledger) \in Nat
  BY DEF IInv, LedgerInv, TypeOK, DbTypeOK
<1>2. ASSUME NEW p \in Process, Write(p) \/ Recover(p)
      PROVE  /\ LedgerInv'
             /\ Len(ledger') = Len(ledger) + 1
             /\ \A i \in 1..Len(ledger) : ledger'[i] = ledger[i]
  BY <1>2, WriterStep
<1>3. ASSUME \A p \in Process : ~Write(p) /\ ~Recover(p)
      PROVE  LedgerInv' /\ ledger' = ledger
  <2>1. ledger' = ledger /\ job' = job /\ result' = result
    BY <1>3, OtherStep
  <2>2. CASE run' = run /\ seats' = seats
    BY <1>1, <2>1, <2>2, LedgerUnchanged
  <2>3. CASE Settle
    <3>1. run'.checkpoint = run.checkpoint /\ run'.revision = run.revision
      BY <2>3 DEF Settle, IInv, TypeOK, DbTypeOK
    <3>2. job /\ seats' = FALSE
      BY <2>3 DEF Settle
    <3>3. run.checkpoint.over = TRUE
      BY <1>1, <3>2, Zenon DEF LedgerInv, TerminalTogether
    <3>4. TerminalTogether'
      <4>1. job' = run'.checkpoint.over /\ result' = run'.checkpoint.over
        BY <1>1, <2>1, <3>1 DEF LedgerInv, TerminalTogether
      <4>. QED  BY <2>1, <3>1, <3>2, <3>3, <4>1 DEF TerminalTogether
    <3>. QED  BY <1>1, <2>1, <3>1, <3>4
              DEF LedgerInv, RunIsLastEntry, OnlyLastIsOver, HandoverPausesTheGame, Last
  <2>4. ASSUME NEW p \in Process, Load(p) PROVE LedgerInv'
    <3>1. run' = run /\ seats' = ~run.checkpoint.over
      BY <2>4, Zenon DEF Load
    <3>2. TerminalTogether'
      BY <1>1, <2>1, <3>1, Zenon DEF LedgerInv, TerminalTogether
    <3>. QED  BY <1>1, <2>1, <3>1, <3>2
              DEF LedgerInv, RunIsLastEntry, OnlyLastIsOver, HandoverPausesTheGame, Last
  <2>5. \/ run' = run /\ seats' = seats
        \/ Settle
        \/ \E p \in Process : Load(p)
    BY <1>3, OtherStep, Zenon
  <2>. QED  BY <2>1, <2>2, <2>3, <2>4, <2>5
<1>. QED  BY <1>1, <1>2, <1>3
------------------------------------------------------------------------------
(* Ownership *)

LEMMA OwnerStep ==
    ASSUME IInv, [Next]_vars
    PROVE  OwnerIsNewest'
<1>1. OwnerIsNewest /\ owner \in Nat /\ gen \in [Process -> Nat]
      /\ state \in [Process -> {"off", "claimed", "loaded", "running", "stopped", "dead"}]
  BY DEF IInv, TypeOK, DbTypeOK, RoomTypeOK
<1>2. ASSUME NEW p \in Process, Write(p) \/ Recover(p) PROVE OwnerIsNewest'
  <2>1. Last'.writer = owner /\ owner' = owner
    BY <1>2, WriterStep
  <2>2. gen' = gen
    BY <1>2 DEF Write, Recover, roomVars, Die
  <2>. QED  BY <1>1, <2>1, <2>2 DEF OwnerIsNewest
<1>3. ASSUME \A p \in Process : ~Write(p) /\ ~Recover(p) PROVE OwnerIsNewest'
  <2>1. Last' = Last /\ run'.checkpoint = run.checkpoint
    <3>1. ledger' = ledger /\ (run' = run \/ Settle)
      BY <1>3, OtherStep
    <3>. QED  BY <3>1 DEF Last, Settle, IInv, TypeOK, DbTypeOK
  <2>2. Last.writer \in Nat
    <3>1. Last \in LedgerEntry
      BY DEF IInv, TypeOK, DbTypeOK, RunIsLastEntry, Last
    <3>. QED  BY <3>1 DEF LedgerEntry
  <2>3. ASSUME NEW p \in Process, Claim(p) PROVE OwnerIsNewest'
    <3>1. owner' = owner + 1 /\ gen' = [gen EXCEPT ![p] = owner + 1]
          /\ state' = [state EXCEPT ![p] = "claimed"]
      BY <2>3 DEF Claim
    <3>2. \A q \in Process : gen'[q] <= owner' /\ (gen'[q] = owner' => q = p)
      BY <1>1, <3>1 DEF OwnerIsNewest
    <3>3. state'[p] = "claimed"
      BY <1>1, <3>1
    <3>4. Last'.writer <= owner'
      BY <1>1, <2>1, <2>2, <3>1 DEF OwnerIsNewest
    <3>. QED  BY <3>2, <3>3, <3>4 DEF OwnerIsNewest, Working, HoldsOwnership
  <2>4. ASSUME NEW p \in Process, Load(p) PROVE OwnerIsNewest'
    <3>. DEFINE next == IF run.checkpoint.over THEN "running" ELSE "loaded"
    <3>1. owner' = owner /\ gen' = gen /\ state' = [state EXCEPT ![p] = next]
      BY <2>4 DEF Load
    <3>2. next = "loaded" \/ run.checkpoint.over
      OBVIOUS
    <3>. HIDE DEF next
    <3>3. state'[p] = next /\ \A q \in Process : q # p => state'[q] = state[q]
      BY <1>1, <3>1
    <3>. QED  BY <1>1, <2>1, <3>1, <3>2, <3>3 DEF OwnerIsNewest, Working, HoldsOwnership
  <2>5. ASSUME owner' = owner, gen' = gen, \A q \in Process : Working(q)' => Working(q)
        PROVE  OwnerIsNewest'
    BY <1>1, <2>1, <2>5 DEF OwnerIsNewest, HoldsOwnership
  <2>6. ASSUME UNCHANGED <<owner, gen, state>> PROVE OwnerIsNewest'
    BY <2>5, <2>6 DEF Working
  <2>7. ASSUME NEW p \in Process, End(p) PROVE OwnerIsNewest'
    <3>1. owner' = owner /\ gen' = gen
      BY <2>7 DEF End, Supersede, FailStart, Stop, Crash, Die, dbVars
    <3>2. \A q \in Process : Working(q)' => Working(q)
      BY <1>1, <2>7 DEF End, Supersede, FailStart, Stop, Crash, Die, Working
    <3>. QED  BY <2>5, <3>1, <3>2
  <2>8. ASSUME NEW p \in Process, Commit(p) \/ Serve(p) PROVE UNCHANGED <<owner, gen, state>>
    BY <1>3, <2>8, Zenon
       DEF Commit, Transact, Duplicate, Conflict, Reject, Pass, Unavailable, RolledBack,
           Confirm, Reread, Install, Serve, BeginCommand, BeginTick, BeginBot, Begin,
           AnswerOver, dbVars, roomVars
  <2>9. Settle \/ UNCHANGED vars => UNCHANGED <<owner, gen, state>>
    BY DEF Settle, vars, roomVars
  <2>. QED  BY <1>3, <2>3, <2>4, <2>6, <2>7, <2>8, <2>9, Zenon DEF Next, Start
<1>. QED  BY <1>2, <1>3

------------------------------------------------------------------------------
(* What rooms show and responses carry *)

ViewInv == InstalledIsCommitted /\ SavedIsCommitted /\ NothingLoadedIsOpening

\* The current state is committed; no state is revision 0.
LEMMA CurrentIsCommitted ==
    ASSUME IInv
    PROVE  /\ Current.revision = Len(ledger) /\ Current.revision # 0
           /\ Current.checkpoint = ledger[Len(ledger)].checkpoint
           /\ Nothing.revision = 0
BY DEF IInv, RunIsLastEntry, Last, Current, Nothing

LEMMA ViewStep ==
    ASSUME IInv, [Next]_vars
    PROVE  ViewInv'
<1>1. /\ ViewInv
      /\ rev \in [Process -> Nat] /\ view \in [Process -> Checkpoint]
      /\ saved \in [Process -> Response]
  BY DEF IInv, ViewInv, TypeOK, RoomTypeOK, TaskTypeOK
<1>2. /\ RunIsLastEntry' /\ Len(ledger) \in Nat /\ Len(ledger) >= 1
      /\ Len(ledger') \in Nat /\ Len(ledger') >= Len(ledger)
      /\ \A i \in 1..Len(ledger) : ledger'[i] = ledger[i]
  <2>1. Len(ledger) >= 1
    BY DEF IInv, RunIsLastEntry
  <2>. QED  BY <2>1, LedgerStep DEF LedgerInv
<1>. DEFINE Room(q) == IF rev[q] = 0 THEN view[q] = Opening
                       ELSE rev[q] <= Len(ledger) /\ view[q] = ledger[rev[q]].checkpoint
            Answer(q) == saved[q].revision # 0 =>
                             /\ saved[q].revision <= Len(ledger)
                             /\ saved[q].checkpoint = ledger[saved[q].revision].checkpoint
<1>3. SUFFICES ASSUME NEW q \in Process PROVE Room(q)' /\ Answer(q)'
  BY <1>3 DEF ViewInv, InstalledIsCommitted, SavedIsCommitted, NothingLoadedIsOpening
<1>4. Room(q) /\ Answer(q) /\ rev[q] \in Nat /\ saved[q] \in Response /\ saved[q].revision \in Nat
  BY <1>1 DEF ViewInv, InstalledIsCommitted, SavedIsCommitted, NothingLoadedIsOpening, Response
<1>5. rev'[q] = rev[q] /\ view'[q] = view[q] => Room(q)'
  BY <1>2, <1>4
<1>6. saved'[q] = saved[q] => Answer(q)'
  BY <1>2, <1>4
<1>7. saved'[q] = Nothing => Answer(q)'
  BY CurrentIsCommitted
<1>8. saved'[q] = Current => Answer(q)'
  BY <1>2, CurrentIsCommitted
<1>9. rev'[q] = 0 /\ view'[q] = Opening => Room(q)'
  OBVIOUS
<1>. HIDE DEF Room, Answer
<1>10. ASSUME NEW p \in Process, Write(p) PROVE Room(q)' /\ Answer(q)'
  <2>1. PICK d \in Checkpoint :
            /\ Store(d, gen[p])
            /\ Respond(p, [revision |-> run.revision + 1, checkpoint |-> d],
                       IF d \in TimedOut(view[p], req[p]) THEN "rejected" ELSE "none")
    BY <1>10, WriteShape
  <2>2. run'.revision = run.revision + 1 /\ run'.checkpoint = d
    <3>1. run' = [run EXCEPT !.revision = run.revision + 1, !.checkpoint = d]
      BY <2>1, Zenon DEF Store
    <3>. QED  BY <3>1 DEF IInv, TypeOK, DbTypeOK
  <2>3. \/ saved'[q] = saved[q]
        \/ saved'[q] = [revision |-> run.revision + 1, checkpoint |-> d]
    BY <1>1, <2>1 DEF Respond
  <2>4. Answer(q)'
    BY <1>2, <1>6, <2>2, <2>3 DEF Answer, RunIsLastEntry, Last
  <2>5. Room(q)'
    BY <1>5, <1>10 DEF Write, roomVars
  <2>. QED  BY <2>4, <2>5
<1>11. ASSUME NEW p \in Process, Duplicate(p) \/ Pass(p) \/ Confirm(p) \/ Reread(p)
       PROVE  Room(q)' /\ Answer(q)'
  <2>1. saved'[q] \in {saved[q], Current, Nothing}
    BY <1>1, <1>11 DEF Duplicate, Pass, Confirm, Reread, Respond
  <2>2. UNCHANGED roomVars
    BY <1>11 DEF Duplicate, Pass, Confirm, Reread
  <2>. QED  BY <1>5, <1>6, <1>7, <1>8, <2>1, <2>2 DEF roomVars
<1>12. ASSUME NEW p \in Process, Install(p) PROVE Room(q)' /\ Answer(q)'
  <2>1. saved'[q] \in {saved[q], Nothing}
    BY <1>1, <1>12 DEF Install, EndTask
  <2>2. \/ rev'[q] = rev[q] /\ view'[q] = view[q]
        \/ saved[q].revision > rev[q] /\ rev'[q] = saved[q].revision
           /\ view'[q] = saved[q].checkpoint
    BY <1>1, <1>12 DEF Install
  <2>3. ledger' = ledger
    BY <1>12 DEF Install, dbVars
  <2>4. Room(q)'
    BY <1>4, <1>5, <2>2, <2>3 DEF Room, Answer
  <2>. QED  BY <1>6, <1>7, <2>1, <2>4
<1>13. ASSUME NEW p \in Process, Die(p) PROVE Room(q)' /\ Answer(q)'
  <2>1. saved'[q] \in {saved[q], Nothing}
    BY <1>1, <1>13 DEF Die, EndTask
  <2>2. (rev'[q] = rev[q] /\ view'[q] = view[q]) \/ (rev'[q] = 0 /\ view'[q] = Opening)
    BY <1>1, <1>13 DEF Die
  <2>. QED  BY <1>5, <1>6, <1>7, <1>9, <2>1, <2>2
<1>14. ASSUME NEW p \in Process, Load(p) PROVE Room(q)' /\ Answer(q)'
  <2>1. saved' = saved /\ run' = run
    BY <1>14 DEF Load, taskVars
  <2>2. \/ rev'[q] = rev[q] /\ view'[q] = view[q]
        \/ rev'[q] = run.revision /\ view'[q] = run.checkpoint
    BY <1>1, <1>14 DEF Load
  <2>3. Room(q)'
    BY <1>2, <1>5, <2>1, <2>2 DEF Room, RunIsLastEntry, Last
  <2>. QED  BY <1>6, <2>1, <2>3
<1>15. ASSUME NEW p \in Process, Recover(p) PROVE Room(q)' /\ Answer(q)'
  <2>. DEFINE c == Pause(view[p], gen[p])
  <2>1. Store(c, gen[p])
    BY <1>15, RecoverShape
  <2>2. run'.revision = run.revision + 1 /\ run'.checkpoint = c
    <3>1. run' = [run EXCEPT !.revision = run.revision + 1, !.checkpoint = c]
      BY <2>1, Zenon DEF Store
    <3>. QED  BY <3>1 DEF IInv, TypeOK, DbTypeOK
  <2>3. CASE rev' = [rev EXCEPT ![p] = run.revision + 1] /\ view' = [view EXCEPT ![p] = c]
             /\ UNCHANGED taskVars
    <3>1. \/ rev'[q] = rev[q] /\ view'[q] = view[q]
          \/ rev'[q] = run'.revision /\ view'[q] = run'.checkpoint
      BY <1>1, <2>2, <2>3
    <3>2. Room(q)'
      BY <1>2, <1>5, <3>1 DEF Room, RunIsLastEntry, Last
    <3>. QED  BY <1>6, <2>3, <3>2 DEF taskVars
  <2>. QED  BY <1>13, <1>15, <2>3 DEF Recover
<1>16. ASSUME NEW p \in Process, Serve(p) \/ Claim(p) \/ Supersede(p) \/ Stop(p)
       PROVE  Room(q)' /\ Answer(q)'
  <2>1. saved'[q] \in {saved[q], Nothing}
    BY <1>1, <1>16 DEF Serve, BeginCommand, BeginTick, BeginBot, Begin, AnswerOver, Claim,
                       Supersede, Stop, EndTask, taskVars
  <2>2. UNCHANGED <<rev, view>>
    BY <1>16 DEF Serve, BeginCommand, BeginTick, BeginBot, Begin, AnswerOver, Claim,
                 Supersede, Stop, roomVars
  <2>. QED  BY <1>5, <1>6, <1>7, <2>1, <2>2
<1>17. ASSUME NEW p \in Process, Conflict(p) \/ Reject(p) \/ Unavailable(p)
       PROVE  Room(q)' /\ Answer(q)'
  BY <1>5, <1>6, <1>17 DEF Conflict, Reject, Unavailable, RolledBack, roomVars
<1>18. CASE Settle \/ UNCHANGED vars
  BY <1>5, <1>6, <1>18 DEF Settle, vars, roomVars, taskVars
<1>. QED
  BY <1>10, <1>11, <1>12, <1>13, <1>14, <1>15, <1>16, <1>17, <1>18
     DEF Next, Commit, Transact, Start, End, FailStart, Crash
------------------------------------------------------------------------------
(* Moves and receipts *)

MovesInv == MovesAreRecorded /\ MovesOnce /\ RecordedMovesArePlayed

\* The identity of the request being committed has no receipt yet, so playing it
\* adds a key the game does not have.
LEMMA AppendKeepsMoves ==
    ASSUME MovesInv, NEW r \in Task, ~KeyUsed(r), NEW n \in Nat, WriteReceipt(r, n),
           run.checkpoint \in Checkpoint, ~run.checkpoint.over,
           run'.checkpoint.moves = Append(run.checkpoint.moves,
                                          [key |-> r.key, ply |-> Len(run.checkpoint.moves)])
    PROVE  MovesInv'
<1>. DEFINE m == run.checkpoint.moves
            e == [key |-> r.key, ply |-> Len(m)]
<1>1. /\ Len(m) \in Nat
      /\ Len(m') = Len(m) + 1 /\ m'[Len(m) + 1] = e
      /\ \A i \in 1..Len(m) : m'[i] = m[i]
  <2>1. m \in Seq(Move)
    BY DEF Checkpoint
  <2>2. m' = Append(m, e)
    OBVIOUS
  <2>. QED  BY <2>1, <2>2
<1>2. /\ \A x \in receipts : x \in receipts'
      /\ r.key # NoKey => [request |-> r, revision |-> n] \in receipts'
      /\ \A x \in receipts' : x \in receipts \/ x.request = r
  BY DEF WriteReceipt, IsCommand
<1>3. MovesAreRecorded'
  <2>. SUFFICES ASSUME NEW i \in 1..Len(m'), m'[i].key # NoKey
                PROVE  \E x \in receipts' : x.request.key = m'[i].key
    BY DEF MovesAreRecorded, KeyUsed
  <2>1. CASE i \in 1..Len(m)
    BY <1>1, <1>2, <2>1 DEF MovesInv, MovesAreRecorded, KeyUsed
  <2>2. CASE i = Len(m) + 1
    <3>1. m'[i].key = r.key
      BY <1>1, <2>2
    <3>2. [request |-> r, revision |-> n].request.key = r.key
      OBVIOUS
    <3>. QED  BY <1>2, <3>1, <3>2
  <2>. QED  BY <1>1, <2>1, <2>2
<1>4. MovesOnce'
  <2>1. \A i \in 1..Len(m) : r.key # NoKey => m[i].key # r.key
    BY DEF MovesInv, MovesAreRecorded, KeyUsed
  <2>2. /\ \A i \in 1..Len(m) : m[i].ply = i - 1
        /\ \A i, j \in 1..Len(m) : m[i].key # NoKey /\ m[i].key = m[j].key => i = j
    BY DEF MovesInv, MovesOnce
  <2>3. \A i \in 1..Len(m') : m'[i].ply = i - 1
    BY <1>1, <2>2
  <2>4. \A i, j \in 1..Len(m') : m'[i].key # NoKey /\ m'[i].key = m'[j].key => i = j
    <3>1. \A i \in 1..Len(m') : i \in 1..Len(m) \/ i = Len(m) + 1
      BY <1>1
    <3>2. e.key = r.key
      OBVIOUS
    <3>. QED  BY <1>1, <2>1, <2>2, <3>1, <3>2
  <2>. QED  BY <2>3, <2>4 DEF MovesOnce
<1>5. RecordedMovesArePlayed'
  <2>1. PlayedKey(run'.checkpoint, r.key)
    BY <1>1 DEF PlayedKey
  <2>2. ASSUME NEW k, PlayedKey(run.checkpoint, k) PROVE PlayedKey(run'.checkpoint, k)
    BY <1>1, <2>2 DEF PlayedKey
  <2>. QED  BY <1>2, <2>1, <2>2 DEF MovesInv, RecordedMovesArePlayed
<1>. QED  BY <1>3, <1>4, <1>5 DEF MovesInv

\* Any other commit leaves the moves, and a move it records ended the game.
LEMMA SameMovesKeepMoves ==
    ASSUME MovesInv, NEW r \in Task, NEW n \in Nat, WriteReceipt(r, n),
           run'.checkpoint.moves = run.checkpoint.moves,
           run.checkpoint.over => run'.checkpoint.over,
           r.body = "move" => run'.checkpoint.over
    PROVE  MovesInv'
<1>1. /\ \A x \in receipts : x \in receipts'
      /\ \A x \in receipts' : x \in receipts \/ x.request = r
  BY DEF WriteReceipt
<1>2. MovesAreRecorded'
  BY <1>1 DEF MovesInv, MovesAreRecorded, KeyUsed
<1>3. MovesOnce'
  BY DEF MovesInv, MovesOnce
<1>4. RecordedMovesArePlayed'
  BY <1>1 DEF MovesInv, RecordedMovesArePlayed, PlayedKey
<1>. QED  BY <1>2, <1>3, <1>4 DEF MovesInv

\* Nothing about the moves changes while they and the receipts stay.
LEMMA NoReceiptKeepsMoves ==
    ASSUME MovesInv, receipts' = receipts,
           run'.checkpoint.moves = run.checkpoint.moves,
           run.checkpoint.over => run'.checkpoint.over
    PROVE  MovesInv'
<1>1. MovesAreRecorded'
  BY DEF MovesInv, MovesAreRecorded, KeyUsed
<1>2. MovesOnce'
  BY DEF MovesInv, MovesOnce
<1>3. RecordedMovesArePlayed'
  BY DEF MovesInv, RecordedMovesArePlayed, PlayedKey
<1>. QED  BY <1>1, <1>2, <1>3 DEF MovesInv

\* No other step touches checkpoint or receipts.
LEMMA QuietStep ==
    ASSUME TypeOK, [Next]_vars, \A p \in Process : ~Write(p) /\ ~Recover(p) /\ ~Pass(p)
    PROVE  run'.checkpoint = run.checkpoint /\ receipts' = receipts
<1>1. receipts' = receipts
  BY Zenon DEF Next, Commit, Transact, Duplicate, Conflict, Reject, Pass, Unavailable,
       RolledBack, Confirm, Reread, Install, Serve, BeginCommand, BeginTick, BeginBot, Begin,
       AnswerOver, Start, Claim, Load, End, Supersede, FailStart, Stop, Crash, dbVars, vars,
       Settle
<1>2. run' = run \/ Settle
  BY OtherStep
<1>. QED  BY <1>1, <1>2 DEF Settle, TypeOK, DbTypeOK

LEMMA MovesStep ==
    ASSUME IInv, [Next]_vars
    PROVE  MovesInv'
<1>1. /\ MovesInv /\ run.revision \in Nat /\ run.checkpoint \in Checkpoint
      /\ \A p \in Process : req[p] \in Task
      /\ run \in [revision : Nat, checkpoint : Checkpoint, status : {"OPEN", "SETTLED"}]
  BY DEF IInv, MovesInv, TypeOK, DbTypeOK, TaskTypeOK
<1>2. ASSUME NEW c, NEW w, Store(c, w) PROVE run'.checkpoint = c
  <2>1. run' = [run EXCEPT !.revision = run.revision + 1, !.checkpoint = c]
    BY <1>2, Zenon DEF Store
  <2>. QED  BY <1>1, <2>1
<1>3. ASSUME NEW p \in Process, Write(p) PROVE MovesInv'
  <2>1. PICK d \in Checkpoint :
            /\ ~run.checkpoint.over
            /\ Store(d, gen[p])
            /\ WriteReceipt(req[p], run.revision + 1)
            /\ \/ d.moves = run.checkpoint.moves
               \/ d.moves = Append(run.checkpoint.moves,
                                   [key |-> req[p].key, ply |-> Len(run.checkpoint.moves)])
            /\ req[p].body = "move" =>
                  \/ d.over
                  \/ d.moves = Append(run.checkpoint.moves,
                                      [key |-> req[p].key, ply |-> Len(run.checkpoint.moves)])
    BY <1>3, WriteShape
  <2>2. run'.checkpoint = d /\ ~KeyUsed(req[p]) /\ run.revision + 1 \in Nat
    BY <1>1, <1>2, <1>3, <2>1 DEF Write, Admitted
  <2>3. CASE d.moves = Append(run.checkpoint.moves,
                              [key |-> req[p].key, ply |-> Len(run.checkpoint.moves)])
    BY <1>1, <2>1, <2>2, <2>3, AppendKeepsMoves
  <2>4. CASE d.moves = run.checkpoint.moves /\ (req[p].body = "move" => d.over)
    BY <1>1, <2>1, <2>2, <2>4, SameMovesKeepMoves
  <2>. QED  BY <2>1, <2>3, <2>4
<1>4. ASSUME NEW p \in Process, Pass(p) PROVE MovesInv'
  <2>1. WriteReceipt(req[p], run.revision) /\ run' = run /\ req[p].body # "move"
    BY <1>4 DEF Pass
  <2>. QED  BY <1>1, <2>1, SameMovesKeepMoves
<1>5. ASSUME NEW p \in Process, Recover(p) PROVE MovesInv'
  <2>. DEFINE c == Pause(view[p], gen[p])
  <2>1. c.moves = run.checkpoint.moves /\ ~run.checkpoint.over /\ Store(c, gen[p])
    BY <1>5, RecoverShape
  <2>2. run'.checkpoint = c /\ receipts' = receipts
    BY <1>2, <1>5, <2>1 DEF Recover
  <2>. HIDE DEF c
  <2>. QED  BY <1>1, <2>1, <2>2, NoReceiptKeepsMoves
<1>6. ASSUME \A p \in Process : ~Write(p) /\ ~Recover(p) /\ ~Pass(p) PROVE MovesInv'
  <2>1. run'.checkpoint = run.checkpoint /\ receipts' = receipts
    BY <1>6, QuietStep DEF IInv
  <2>. QED  BY <1>1, <2>1, NoReceiptKeepsMoves
<1>. QED  BY <1>3, <1>4, <1>5, <1>6
------------------------------------------------------------------------------
(* What the clients are told *)

\* Receipts are only added, a game that ended stays ended, and what has been
\* played stays played.
LEMMA ReceiptsGrow ==
    ASSUME IInv, [Next]_vars
    PROVE  /\ \A x \in receipts : x \in receipts'
           /\ run.checkpoint.over => run'.checkpoint = run.checkpoint /\ receipts' = receipts
<1>1. ASSUME NEW p \in Process, Write(p) \/ Recover(p) \/ Pass(p)
      PROVE  (\A x \in receipts : x \in receipts') /\ ~run.checkpoint.over
  BY <1>1 DEF Write, Recover, Pass, WriteReceipt, Admitted
<1>2. ASSUME \A p \in Process : ~Write(p) /\ ~Recover(p) /\ ~Pass(p)
      PROVE  receipts' = receipts /\ run'.checkpoint = run.checkpoint
  BY <1>2, QuietStep DEF IInv
<1>. QED  BY <1>1, <1>2

ReplyInv == SuccessIsRecorded /\ FailuresHaveCauses

LEMMA WrittenIsRecorded ==
    ASSUME NEW r, NEW n, WriteReceipt(r, n), IsCommand(r)
    PROVE  \E x \in receipts' : x.request = r
<1>. DEFINE e == [request |-> r, revision |-> n]
<1>1. e \in receipts'
  BY DEF WriteReceipt
<1>2. e.request = r
  OBVIOUS
<1>. QED  BY <1>1, <1>2

LEMMA RespondKeepsReplies ==
    ASSUME IInv, [Next]_vars, NEW p \in Process, NEW v, NEW why,
           Respond(p, v, why), req' = req, why = "none" /\ IsCommand(req[p]) => Recorded(req[p])'
    PROVE  ReplyInv'
<1>1. /\ ReplyInv
      /\ step \in [Process -> {"idle", "commit", "confirm", "reread", "install"}]
      /\ cause \in [Process -> {"none", "rejected", "conflict", "unavailable"}]
  BY DEF IInv, ReplyInv, TypeOK, TaskTypeOK
<1>2. \A r : Recorded(r) => Recorded(r)'
  BY ReceiptsGrow DEF Recorded
<1>3. \A q \in Process : q # p => step'[q] = step[q] /\ cause'[q] = cause[q]
  BY <1>1 DEF Respond
<1>4. \/ step'[p] = "install" /\ cause'[p] = why
      \/ step'[p] = AfterFailure(req[p]) /\ cause'[p] = "unavailable"
  BY <1>1 DEF Respond
<1>5. FailuresHaveCauses'
  BY <1>1, <1>3, <1>4 DEF ReplyInv, FailuresHaveCauses
<1>6. SuccessIsRecorded'
  BY <1>1, <1>2, <1>3, <1>4 DEF ReplyInv, SuccessIsRecorded
<1>. QED  BY <1>5, <1>6 DEF ReplyInv

LEMMA ReplyStep ==
    ASSUME IInv, [Next]_vars
    PROVE  ReplyInv'
<1>1. /\ ReplyInv
      /\ step \in [Process -> {"idle", "commit", "confirm", "reread", "install"}]
      /\ cause \in [Process -> {"none", "rejected", "conflict", "unavailable"}]
      /\ req \in [Process -> Task]
  BY DEF IInv, ReplyInv, TypeOK, TaskTypeOK
<1>2. \A r : Recorded(r) => Recorded(r)'
  BY ReceiptsGrow DEF Recorded
<1>3. ASSUME \A q \in Process :
                \/ step'[q] \in {"idle", "commit"}
                \/ step'[q] = step[q] /\ cause'[q] = cause[q] /\ req'[q] = req[q]
      PROVE  ReplyInv'
  BY <1>1, <1>2, <1>3 DEF ReplyInv, SuccessIsRecorded, FailuresHaveCauses
<1>4. ASSUME NEW p \in Process, EndTask(p) PROVE ReplyInv'
  BY <1>1, <1>3, <1>4 DEF EndTask
<1>5. ASSUME UNCHANGED taskVars PROVE ReplyInv'
  BY <1>3, <1>5 DEF taskVars
<1>6. ASSUME NEW p \in Process, Duplicate(p) \/ Pass(p) PROVE ReplyInv'
  <2>1. Respond(p, Current, "none") /\ req' = req
    BY <1>6 DEF Duplicate, Pass
  <2>2. CASE Duplicate(p)
    BY <1>2, <2>1, <2>2, RespondKeepsReplies DEF Duplicate
  <2>3. CASE Pass(p)
    <3>1. IsCommand(req[p]) => Recorded(req[p])'
      BY <2>1, <2>3, WrittenIsRecorded DEF Pass, Recorded
    <3>. QED  BY <2>1, <3>1, RespondKeepsReplies
  <2>. QED  BY <1>6, <2>2, <2>3
<1>7. ASSUME NEW p \in Process, Write(p) PROVE ReplyInv'
  <2>1. PICK d \in Checkpoint :
            /\ WriteReceipt(req[p], run.revision + 1)
            /\ Respond(p, [revision |-> run.revision + 1, checkpoint |-> d],
                       IF d \in TimedOut(view[p], req[p]) THEN "rejected" ELSE "none")
    BY <1>7, WriteShape
  <2>2. req' = req
    BY <1>7 DEF Write
  <2>3. IsCommand(req[p]) => Recorded(req[p])'
    BY <2>1, <2>2, WrittenIsRecorded DEF Recorded
  <2>. QED  BY <2>1, <2>2, <2>3, RespondKeepsReplies
<1>8. ASSUME NEW p \in Process, Conflict(p) \/ Reject(p) \/ Unavailable(p) PROVE ReplyInv'
  <2>1. /\ step' = [step EXCEPT ![p] = AfterFailure(req[p])] /\ req' = req
        /\ \E why \in {"conflict", "rejected", "unavailable"} : cause' = [cause EXCEPT ![p] = why]
    BY <1>8 DEF Conflict, Reject, Unavailable, RolledBack
  <2>2. step'[p] \in {"confirm", "reread"} /\ cause'[p] # "none"
    BY <1>1, <2>1 DEF AfterFailure
  <2>3. \A q \in Process : q # p => step'[q] = step[q] /\ cause'[q] = cause[q] /\ req'[q] = req[q]
    BY <1>1, <2>1
  <2>. QED  BY <1>1, <1>2, <2>2, <2>3 DEF ReplyInv, SuccessIsRecorded, FailuresHaveCauses
<1>9. ASSUME NEW p \in Process, Confirm(p) \/ Reread(p) PROVE ReplyInv'
  <2>1. /\ cause[p] # "none" /\ req' = req
        /\ \A q \in Process : q # p => step'[q] = step[q] /\ cause'[q] = cause[q]
    BY <1>1, <1>9 DEF Confirm, Reread, ReplyInv, FailuresHaveCauses
  <2>2. \/ cause'[p] = cause[p]
        \/ step'[p] = "install" /\ Recorded(req[p])
    BY <1>1, <1>9 DEF Confirm, Reread
  <2>3. FailuresHaveCauses'
    BY <1>1, <2>1, <2>2 DEF ReplyInv, FailuresHaveCauses
  <2>4. SuccessIsRecorded'
    BY <1>1, <1>2, <2>1, <2>2 DEF ReplyInv, SuccessIsRecorded
  <2>. QED  BY <2>3, <2>4 DEF ReplyInv
<1>10. ASSUME NEW p \in Process, NEW r, Begin(p, r) PROVE ReplyInv'
  <2>1. /\ step' = [step EXCEPT ![p] = "commit"] /\ req' = [req EXCEPT ![p] = r]
        /\ cause' = [cause EXCEPT ![p] = "none"]
    BY <1>10 DEF Begin
  <2>2. /\ step'[p] = "commit"
        /\ \A q \in Process : q # p => step'[q] = step[q] /\ cause'[q] = cause[q] /\ req'[q] = req[q]
    BY <1>1, <2>1
  <2>. QED  BY <1>3, <2>2
<1>11. ASSUME NEW p \in Process, Transact(p) PROVE ReplyInv'
  BY <1>6, <1>7, <1>8, <1>11 DEF Transact
<1>12. ASSUME NEW p \in Process, Commit(p) PROVE ReplyInv'
  BY <1>4, <1>9, <1>11, <1>12 DEF Commit, Install
<1>13. ASSUME NEW p \in Process, Serve(p) PROVE ReplyInv'
  BY <1>5, <1>10, <1>13 DEF Serve, BeginCommand, BeginTick, BeginBot, AnswerOver
<1>14. ASSUME NEW p \in Process, Start(p) \/ End(p) PROVE ReplyInv'
  <2>1. EndTask(p) \/ UNCHANGED taskVars
    BY <1>14 DEF Start, Claim, Load, Recover, End, Supersede, FailStart, Stop, Crash, Die
  <2>. QED  BY <1>4, <1>5, <2>1
<1>15. CASE Settle \/ UNCHANGED vars
  BY <1>5, <1>15 DEF Settle, vars, taskVars
<1>. QED  BY <1>12, <1>13, <1>14, <1>15 DEF Next

\* A room that shows the end of the game shows the truth.
LEMMA EndIsCommitted ==
    ASSUME IInv, NEW p \in Process, view[p].over
    PROVE  run.checkpoint.over
<1>1. rev[p] # 0 /\ rev[p] \in Nat /\ Len(ledger) \in Nat
  BY DEF IInv, TypeOK, RoomTypeOK, DbTypeOK, NothingLoadedIsOpening, Opening
<1>2. rev[p] \in 1..Len(ledger) /\ ledger[rev[p]].checkpoint.over
  BY <1>1 DEF IInv, InstalledIsCommitted
<1>. QED  BY <1>2 DEF IInv, OnlyLastIsOver, RunIsLastEntry, Last

LEMMA AcknowledgedStep ==
    ASSUME IInv, [Next]_vars
    PROVE  AcknowledgedTookEffect'
<1>. DEFINE Effect(r) == \/ run.checkpoint.over
                         \/ /\ Recorded(r)
                            /\ r.body = "move" => PlayedKey(run.checkpoint, r.key)
<1>1. /\ \A r \in acked : Effect(r)
      /\ run.checkpoint.over => run'.checkpoint.over
      /\ \A r : Recorded(r) => Recorded(r)'
      /\ \A x \in receipts' : x.request.body = "move" =>
             run'.checkpoint.over \/ PlayedKey(run'.checkpoint, x.request.key)
  <2>1. \A r : Recorded(r) => Recorded(r)'
    BY ReceiptsGrow DEF Recorded
  <2>. QED  BY <2>1, MovesStep, ReceiptsGrow
            DEF IInv, AcknowledgedTookEffect, MovesInv, RecordedMovesArePlayed
<1>2. \A r : Recorded(r)' => Effect(r)'
  BY <1>1 DEF Recorded
<1>3. ASSUME acked' = acked PROVE AcknowledgedTookEffect'
  BY <1>1, <1>2, <1>3 DEF AcknowledgedTookEffect
<1>4. ASSUME NEW p \in Process, Install(p) PROVE AcknowledgedTookEffect'
  <2>1. acked' = acked \/ (acked' = acked \cup {req[p]} /\ Recorded(req[p]))
    BY <1>4 DEF Install, Succeeded, IInv, SuccessIsRecorded
  <2>. QED  BY <1>1, <1>2, <1>3, <2>1 DEF AcknowledgedTookEffect
<1>5. ASSUME NEW p \in Process, AnswerOver(p) PROVE AcknowledgedTookEffect'
  <2>1. run.checkpoint.over
    BY <1>5, EndIsCommitted DEF AnswerOver
  <2>. QED  BY <1>1, <2>1 DEF AcknowledgedTookEffect
<1>6. \/ acked' = acked
      \/ \E p \in Process : Install(p) \/ AnswerOver(p)
  BY DEF Next, Commit, Transact, Duplicate, Conflict, Reject, Pass, Write, Unavailable,
         Confirm, Reread, Serve, BeginCommand, BeginTick, BeginBot, Begin, Start, Claim, Load,
         Recover, Die, End, Supersede, FailStart, Stop, Crash, vars, Settle
<1>. QED  BY <1>3, <1>4, <1>5, <1>6

------------------------------------------------------------------------------
(* The inductive invariant, and what follows from it *)

LEMMA InvInit == Init => IInv
<1>. SUFFICES ASSUME Init PROVE IInv
  OBVIOUS
<1>1. TypeOK
  BY TypeInit
<1>2. /\ Opening.over = FALSE /\ Opening.moves = << >>
      /\ Nothing.revision = 0
  BY DEF Opening, Nothing
<1>3. /\ Len(ledger) = 1 /\ ledger[1] = [checkpoint |-> Opening, writer |-> 1]
      /\ run.revision = 1 /\ run.checkpoint = Opening /\ run.status = "OPEN"
  BY DEF Init
<1>4. RunIsLastEntry /\ OnlyLastIsOver /\ HandoverPausesTheGame
  BY <1>3 DEF RunIsLastEntry, OnlyLastIsOver, HandoverPausesTheGame, Last
<1>5. TerminalTogether
  BY <1>2, <1>3, Zenon DEF Init, TerminalTogether
<1>6. OwnerIsNewest
  BY <1>3 DEF Init, OwnerIsNewest, Last, Working, HoldsOwnership
<1>7. InstalledIsCommitted /\ NothingLoadedIsOpening
  BY <1>3 DEF Init, InstalledIsCommitted, NothingLoadedIsOpening
<1>8. SavedIsCommitted
  BY <1>2 DEF Init, SavedIsCommitted
<1>9. FailuresHaveCauses /\ SuccessIsRecorded
  BY DEF Init, FailuresHaveCauses, SuccessIsRecorded
<1>10. MovesAreRecorded /\ MovesOnce
  BY <1>2, <1>3 DEF MovesAreRecorded, MovesOnce
<1>11. RecordedMovesArePlayed /\ AcknowledgedTookEffect
  BY DEF Init, RecordedMovesArePlayed, AcknowledgedTookEffect
<1>. QED  BY <1>1, <1>4, <1>5, <1>6, <1>7, <1>8, <1>9, <1>10, <1>11 DEF IInv

LEMMA InvStep == IInv /\ [Next]_vars => IInv'
<1>. SUFFICES ASSUME IInv, [Next]_vars PROVE IInv'
  OBVIOUS
<1>1. TypeOK'
  BY TypeStep DEF IInv
<1>2. LedgerInv' /\ OwnerIsNewest' /\ ViewInv' /\ MovesInv' /\ ReplyInv' /\ AcknowledgedTookEffect'
  BY LedgerStep, OwnerStep, ViewStep, MovesStep, ReplyStep, AcknowledgedStep
<1>. QED  BY <1>1, <1>2 DEF IInv, LedgerInv, ViewInv, MovesInv, ReplyInv

LEMMA Invariance == Spec => []IInv
BY InvInit, InvStep, PTL DEF Spec

\* Rooms only ever show committed states (GameRoom.installCommitted).
THEOREM RoomsShowCommittedStates == Spec => []InstalledIsCommitted
<1>1. IInv => InstalledIsCommitted
  BY DEF IInv
<1>. QED  BY <1>1, Invariance, PTL

\* No command is played twice, no move in a position it was not chosen for
\* (the receipt and revision checks of commitGameTransition).
THEOREM EveryMoveCountsOnce == Spec => []MovesOnce
<1>1. IInv => MovesOnce
  BY DEF IInv
<1>. QED  BY <1>1, Invariance, PTL

\* What a client is told is done, is done (the confirmation in GameRoom.commit).
THEOREM AcknowledgementsAreTrue == Spec => []AcknowledgedTookEffect
<1>1. IInv => AcknowledgedTookEffect
  BY DEF IInv
<1>. QED  BY <1>1, Invariance, PTL

\* A terminal checkpoint comes with its records and releases its players.
THEOREM TerminalRecordsAreAtomic == Spec => []TerminalTogether
<1>1. IInv => TerminalTogether
  BY DEF IInv
<1>. QED  BY <1>1, Invariance, PTL

\* A new owner pauses the game before anything else (restoreActiveGames).
THEOREM EveryHandoverPauses == Spec => []HandoverPausesTheGame
<1>1. IInv => HandoverPausesTheGame
  BY DEF IInv
<1>. QED  BY <1>1, Invariance, PTL

\* The fence: only the newest generation appends to the history.
THEOREM TheFenceHolds == Spec => OnlyTheOwnerWrites
<1>. DEFINE A == ledger' # ledger => ledger'[Len(ledger')].writer = owner
<1>1. ASSUME IInv, [Next]_vars PROVE A
  <2>1. ASSUME NEW p \in Process, Write(p) \/ Recover(p) PROVE Last'.writer = owner
    BY <1>1, <2>1, WriterStep
  <2>2. ASSUME \A p \in Process : ~Write(p) /\ ~Recover(p) PROVE ledger' = ledger
    BY <1>1, <2>2, OtherStep
  <2>. QED  BY <2>1, <2>2 DEF Last
<1>2. IInv /\ [Next]_vars => [A]_vars
  BY <1>1
<1>. QED  BY <1>2, Invariance, PTL DEF Spec, OnlyTheOwnerWrites

\* What ended stays as it ended, and settled stays settled.
THEOREM OutcomesAreFinal == Spec => OutcomeIsFinal
<1>. DEFINE A == /\ run.checkpoint.over => run'.checkpoint = run.checkpoint /\ receipts' = receipts
                 /\ run.status = "SETTLED" => run' = run
<1>1. ASSUME IInv, [Next]_vars PROVE A
  <2>1. run.status = "SETTLED" => run' = run
    <3>1. ASSUME NEW p \in Process, Write(p) \/ Recover(p) PROVE run.status = "OPEN"
      BY <3>1 DEF Write, Recover, Admitted
    <3>2. ASSUME \A p \in Process : ~Write(p) /\ ~Recover(p) PROVE run' = run \/ run.status = "OPEN"
      BY <1>1, <3>2, OtherStep DEF Settle
    <3>. QED  BY <3>1, <3>2
  <2>. QED  BY <1>1, <2>1, ReceiptsGrow
<1>2. IInv /\ [Next]_vars => [A]_vars
  BY <1>1
<1>. QED  BY <1>2, Invariance, PTL DEF Spec, OutcomeIsFinal
------------------------------------------------------------------------------
(* Receipts and revisions *)

\* Entry i is the first to hold the move of command k, and a receipt says so.
Named(k, i) == \E x \in receipts : x.request.key = k /\ x.revision = i
Introduced(k, i) ==
    PlayedKey(ledger[i].checkpoint, k) /\ (i = 1 \/ ~PlayedKey(ledger[i - 1].checkpoint, k))

\* The entry a write appends introduces at most the command it writes a receipt for.
LEMMA WriteNamesItsRevision ==
    ASSUME IInv, NEW p \in Process, Write(p), NEW k \in Key,
           NEW i \in Nat, i = Len(ledger) + 1, Introduced(k, i)'
    PROVE  Named(k, i)'
<1>. DEFINE n == Len(ledger)
<1>1. /\ run.checkpoint \in Checkpoint /\ ledger \in Seq(LedgerEntry) /\ n \in Nat /\ n # 0
      /\ run.revision = n /\ ledger[n].checkpoint = run.checkpoint /\ req[p] \in Task
  BY DEF IInv, TypeOK, DbTypeOK, TaskTypeOK, RunIsLastEntry, Last
<1>2. PICK d \in Checkpoint :
          /\ Store(d, gen[p])
          /\ WriteReceipt(req[p], n + 1)
          /\ \/ d.moves = run.checkpoint.moves
             \/ d.moves = Append(run.checkpoint.moves,
                                 [key |-> req[p].key, ply |-> Len(run.checkpoint.moves)])
  BY <1>1, WriteShape
<1>3. ledger' = Append(ledger, [checkpoint |-> d, writer |-> gen[p]])
  BY <1>2 DEF Store
<1>4. ledger'[n + 1].checkpoint = d /\ ledger'[n] = ledger[n]
  BY <1>1, <1>3
<1>5. PlayedKey(d, k) /\ ~PlayedKey(run.checkpoint, k)
  <2>1. PlayedKey(ledger'[i].checkpoint, k) /\ ~PlayedKey(ledger'[i - 1].checkpoint, k)
    BY <1>1 DEF Introduced, PlayedKey
  <2>. QED  BY <1>1, <1>4, <2>1
<1>6. d.moves # run.checkpoint.moves
  BY <1>5 DEF PlayedKey
<1>7. req[p].key = k
  <2>. DEFINE m == run.checkpoint.moves
  <2>1. m \in Seq(Move) /\ d.moves = Append(m, [key |-> req[p].key, ply |-> Len(m)])
    BY <1>1, <1>2, <1>6 DEF Checkpoint
  <2>2. PICK j \in 1..Len(d.moves) : d.moves[j].key = k
    BY <1>5 DEF PlayedKey
  <2>3. j \in 1..Len(m) => m[j].key = k
    BY <2>1, <2>2
  <2>4. j \notin 1..Len(m)
    BY <1>5, <2>3 DEF PlayedKey
  <2>. QED  BY <2>1, <2>2, <2>4
<1>8. IsCommand(req[p])
  BY <1>7, KeyAssumption DEF IsCommand
<1>9. [request |-> req[p], revision |-> n + 1] \in receipts'
  BY <1>2, <1>8 DEF WriteReceipt
<1>10. /\ [request |-> req[p], revision |-> n + 1].request.key = k
       /\ [request |-> req[p], revision |-> n + 1].revision = n + 1
  BY <1>7
<1>11. \E x \in receipts' : x.request.key = k /\ x.revision = n + 1
  BY <1>9, <1>10
<1>. QED  BY <1>11, <1>3, <1>1 DEF Named

LEMMA ReceiptNameStep ==
    ASSUME IInv, ReceiptNamesItsRevision, [Next]_vars
    PROVE  ReceiptNamesItsRevision'
<1>1. /\ Len(ledger) \in Nat /\ Len(ledger') \in Nat /\ Len(ledger) # 0
      /\ Len(ledger') = Len(ledger) \/ Len(ledger') = Len(ledger) + 1
      /\ \A i \in 1..Len(ledger) : ledger'[i] = ledger[i]
  BY LedgerStep DEF IInv, RunIsLastEntry
<1>2. \A x \in receipts : x \in receipts'
  BY ReceiptsGrow
<1>. SUFFICES ASSUME NEW k \in Key, NEW i \in 1..Len(ledger'), Introduced(k, i)'
              PROVE  Named(k, i)'
  BY DEF ReceiptNamesItsRevision, Introduced, Named
<1>3. CASE i \in 1..Len(ledger)
  <2>1. ledger'[i] = ledger[i] /\ (i # 1 => i - 1 \in 1..Len(ledger))
    BY <1>1, <1>3
  <2>2. i # 1 => ledger'[i - 1] = ledger[i - 1]
    BY <1>1, <2>1
  <2>3. Introduced(k, i)
    BY <2>1, <2>2 DEF Introduced, PlayedKey
  <2>4. Named(k, i)
    BY <1>3, <2>3 DEF ReceiptNamesItsRevision, Introduced, Named
  <2>. QED  BY <1>2, <2>4 DEF Named
<1>4. CASE i = Len(ledger) + 1
  <2>1. ledger' # ledger
    BY <1>1, <1>4
  <2>2. PICK p \in Process : Write(p) \/ Recover(p)
    BY <2>1, OtherStep
  <2>3. CASE Write(p)
    BY <1>4, <2>3, WriteNamesItsRevision, <1>1
  <2>4. CASE Recover(p)
    <3>. DEFINE c == Pause(view[p], gen[p])
    <3>1. c.moves = run.checkpoint.moves /\ Store(c, gen[p])
      BY <2>4, RecoverShape
    <3>2. ledger' = Append(ledger, [checkpoint |-> c, writer |-> gen[p]])
      BY <3>1 DEF Store
    <3>3. ledger'[i].checkpoint = c
      BY <1>1, <1>4, <3>2 DEF IInv, TypeOK, DbTypeOK
    <3>4. ledger'[i - 1].checkpoint = run.checkpoint
      BY <1>1, <1>4 DEF IInv, RunIsLastEntry, Last
    <3>5. PlayedKey(c, k) /\ ~PlayedKey(run.checkpoint, k)
      <4>1. PlayedKey(ledger'[i].checkpoint, k) /\ ~PlayedKey(ledger'[i - 1].checkpoint, k)
        BY <1>1, <1>4 DEF Introduced, PlayedKey
      <4>. HIDE DEF c
      <4>. QED  BY <3>3, <3>4, <4>1
    <3>. QED  BY <3>1, <3>5 DEF PlayedKey
  <2>. QED  BY <2>2, <2>3, <2>4
<1>. QED  BY <1>1, <1>3, <1>4

\* The receipt of a move names the revision that played it, so that a reader
\* of the receipt finds the state the command produced (commitGameTransition
\* stores checkpoint and receipt under one revision).
THEOREM ReceiptsNameRevisions == Spec => []ReceiptNamesItsRevision
<1>1. Init => ReceiptNamesItsRevision
  <2>. SUFFICES ASSUME Init, NEW k \in Key, NEW i \in 1..Len(ledger), PlayedKey(ledger[i].checkpoint, k)
                PROVE  FALSE
    BY DEF ReceiptNamesItsRevision
  <2>1. Len(ledger) = 1 /\ ledger[1].checkpoint = Opening
    BY DEF Init
  <2>2. i = 1
    BY <2>1
  <2>. QED  BY <2>1, <2>2 DEF PlayedKey, Opening
<1>2. IInv /\ ReceiptNamesItsRevision /\ [Next]_vars => ReceiptNamesItsRevision'
  BY ReceiptNameStep
<1>. QED  BY <1>1, <1>2, Invariance, PTL DEF Spec

\* What a client was told took effect, and what a receipt says of a move is so, however
\* often commands are repeated, replies lost and processes superseded.
THEOREM RepliesAreTrue == Spec => []RepliesHold
<1>1. AcknowledgedTookEffect /\ ReceiptNamesItsRevision => RepliesHold
  BY DEF RepliesHold
<1>. QED  BY <1>1, AcknowledgementsAreTrue, ReceiptsNameRevisions, PTL

------------------------------------------------------------------------------
(* Refinement of GameLedger *)

accepted == {x.request.key : x \in receipts}

LEMMA ReceiptIsAcceptance ==
    ASSUME NEW r \in Task, NEW n \in Nat, WriteReceipt(r, n)
    PROVE  /\ accepted' = IF IsCommand(r) THEN accepted \cup {r.key} ELSE accepted
           /\ ~KeyUsed(r) => r.key \notin accepted
           /\ IsCommand(r) => r.key \in Key
<1>. DEFINE e == [request |-> r, revision |-> n]
<1>1. e.request.key = r.key
  OBVIOUS
<1>2. CASE IsCommand(r)
  <2>1. receipts' = receipts \cup {e}
    BY <1>2 DEF WriteReceipt
  <2>. HIDE DEF e
  <2>2. accepted' = accepted \cup {r.key}
    BY <1>1, <2>1 DEF accepted
  <2>. QED  BY <1>2, <2>2, TaskFields DEF accepted, KeyUsed, IsCommand
<1>3. CASE ~IsCommand(r)
  BY <1>3 DEF WriteReceipt, accepted, KeyUsed
<1>. QED  BY <1>2, <1>3

\* Every commit that is stored is one step of the ledger, every step that tells a
\* client something another, and nothing else shows.
LEMMA LedgerRefinementStep ==
    ASSUME IInv, [Next]_vars
    PROVE  [Ledger!LedgerNext]_(Ledger!ledgerVars)
<1>. DEFINE played == run.checkpoint.moves
            over == run.checkpoint.over
            told == {r.key : r \in acked}
<1>1. /\ run.revision \in Nat /\ run.checkpoint \in Checkpoint
      /\ run \in [revision : Nat, checkpoint : Checkpoint, status : {"OPEN", "SETTLED"}]
      /\ \A p \in Process : req[p] \in Task
      /\ acked \subseteq Request
  BY DEF IInv, TypeOK, DbTypeOK, TaskTypeOK
<1>2. ASSUME NEW c, NEW w, Store(c, w) PROVE run'.checkpoint = c
  <2>1. run' = [run EXCEPT !.revision = run.revision + 1, !.checkpoint = c]
    BY <1>2, Zenon DEF Store
  <2>. QED  BY <1>1, <2>1
<1>3. ASSUME NEW p \in Process, Write(p) PROVE Ledger!LedgerNext
  <2>1. PICK d \in Checkpoint :
            /\ ~run.checkpoint.over
            /\ Store(d, gen[p])
            /\ WriteReceipt(req[p], run.revision + 1)
            /\ \/ d.moves = run.checkpoint.moves
               \/ d.moves = Append(run.checkpoint.moves,
                                   [key |-> req[p].key, ply |-> Len(run.checkpoint.moves)])
    BY <1>3, WriteShape
  <2>2. run'.checkpoint = d /\ ~KeyUsed(req[p]) /\ acked' = acked /\ run.revision + 1 \in Nat
    BY <1>1, <1>2, <1>3, <2>1 DEF Write, Admitted
  <2>3. over' \in BOOLEAN
    BY <2>2 DEF Checkpoint
  <2>4. /\ accepted' = IF IsCommand(req[p]) THEN accepted \cup {req[p].key} ELSE accepted
        /\ req[p].key \notin accepted
        /\ IsCommand(req[p]) => req[p].key \in Key
    BY <1>1, <2>1, <2>2, ReceiptIsAcceptance
  <2>5. CASE IsCommand(req[p])
    <3>1. PICK k \in Key : k = req[p].key
      BY <2>4, <2>5
    <3>2. Ledger!Accept(k)
      BY <2>1, <2>2, <2>3, <2>4, <2>5, <3>1 DEF Ledger!Accept, Ledger!Extend, accepted
    <3>. QED  BY <3>2 DEF Ledger!LedgerNext
  <2>6. CASE ~IsCommand(req[p])
    <3>1. req[p].key = NoKey
      BY <2>6 DEF IsCommand
    <3>2. Ledger!Background
      BY <2>1, <2>2, <2>3, <2>4, <2>6, <3>1 DEF Ledger!Background, Ledger!Extend, accepted
    <3>. QED  BY <3>2 DEF Ledger!LedgerNext
  <2>. QED  BY <2>5, <2>6
<1>4. ASSUME NEW p \in Process, Recover(p) PROVE Ledger!LedgerNext
  <2>. DEFINE c == Pause(view[p], gen[p])
  <2>1. c.moves = run.checkpoint.moves /\ ~run.checkpoint.over /\ Store(c, gen[p]) /\ c \in Checkpoint
    BY <1>4, RecoverShape
  <2>2. run'.checkpoint = c /\ receipts' = receipts /\ acked' = acked
    BY <1>2, <1>4, <2>1 DEF Recover, Die
  <2>3. c.over \in BOOLEAN
    BY <2>1 DEF Checkpoint
  <2>. HIDE DEF c
  <2>4. Ledger!Background
    BY <2>1, <2>2, <2>3 DEF Ledger!Background, Ledger!Extend
  <2>. QED  BY <2>4 DEF Ledger!LedgerNext
<1>5. ASSUME NEW p \in Process, Pass(p) PROVE Ledger!LedgerNext \/ UNCHANGED Ledger!ledgerVars
  <2>1. /\ WriteReceipt(req[p], run.revision) /\ run' = run /\ acked' = acked
        /\ ~run.checkpoint.over /\ ~KeyUsed(req[p])
    BY <1>5 DEF Pass, Admitted
  <2>2. /\ accepted' = IF IsCommand(req[p]) THEN accepted \cup {req[p].key} ELSE accepted
        /\ req[p].key \notin accepted
        /\ IsCommand(req[p]) => req[p].key \in Key
    BY <1>1, <2>1, ReceiptIsAcceptance
  <2>3. over \in BOOLEAN
    BY <1>1 DEF Checkpoint
  <2>4. CASE IsCommand(req[p])
    <3>1. PICK k \in Key : k = req[p].key
      BY <2>2, <2>4
    <3>2. Ledger!Accept(k)
      BY <2>1, <2>2, <2>3, <2>4, <3>1 DEF Ledger!Accept, Ledger!Extend, accepted
    <3>. QED  BY <3>2 DEF Ledger!LedgerNext
  <2>5. CASE ~IsCommand(req[p])
    BY <2>1, <2>2, <2>5 DEF Ledger!ledgerVars, accepted
  <2>. QED  BY <2>4, <2>5
<1>6. ASSUME NEW r \in Request, acked' = acked \cup {r}, UNCHANGED <<run, receipts>>,
             Recorded(r) \/ over
      PROVE  Ledger!LedgerNext
  <2>1. r.key \in Key
    BY RequestAssumption
  <2>2. r.key \in accepted \/ over
    BY <1>6 DEF Recorded, accepted
  <2>3. told' = told \cup {r.key}
    BY <1>6
  <2>4. Ledger!Acknowledge(r.key)
    BY <1>6, <2>2, <2>3 DEF Ledger!Acknowledge, accepted
  <2>. QED  BY <2>1, <2>4 DEF Ledger!LedgerNext
<1>7. ASSUME run'.checkpoint = run.checkpoint, receipts' = receipts, acked' = acked
      PROVE  UNCHANGED Ledger!ledgerVars
  BY <1>7 DEF Ledger!ledgerVars
<1>8. ASSUME NEW p \in Process, Install(p) PROVE Ledger!LedgerNext \/ UNCHANGED Ledger!ledgerVars
  <2>1. UNCHANGED <<run, receipts>>
    BY <1>8 DEF Install, dbVars
  <2>2. \/ acked' = acked
        \/ acked' = acked \cup {req[p]} /\ IsCommand(req[p]) /\ Recorded(req[p])
    BY <1>8 DEF Install, Succeeded, IInv, SuccessIsRecorded
  <2>3. IsCommand(req[p]) => req[p] \in Request
    BY <1>1, TaskFields
  <2>. QED  BY <1>6, <1>7, <2>1, <2>2, <2>3
<1>9. ASSUME NEW p \in Process, AnswerOver(p) PROVE Ledger!LedgerNext
  <2>1. run.checkpoint.over
    BY <1>9, EndIsCommitted DEF AnswerOver
  <2>2. UNCHANGED <<run, receipts>>
    BY <1>9 DEF AnswerOver, dbVars
  <2>3. PICK r \in Request : acked' = acked \cup {r}
    BY <1>9 DEF AnswerOver
  <2>. QED  BY <1>6, <2>1, <2>2, <2>3
<1>10. ASSUME \A p \in Process : ~Write(p) /\ ~Recover(p) /\ ~Pass(p) /\ ~Install(p) /\ ~AnswerOver(p)
       PROVE  UNCHANGED Ledger!ledgerVars
  <2>1. run'.checkpoint = run.checkpoint /\ receipts' = receipts
    BY <1>10, QuietStep DEF IInv
  <2>2. acked' = acked
    BY <1>10 DEF Next, Commit, Transact, Duplicate, Conflict, Reject, Unavailable,
         Confirm, Reread, Serve, BeginCommand, BeginTick, BeginBot, Begin, Start, Claim, Load,
         Die, End, Supersede, FailStart, Stop, Crash, vars, Settle
  <2>. QED  BY <1>7, <2>1, <2>2
<1>. QED  BY <1>3, <1>4, <1>5, <1>8, <1>9, <1>10

\* The commit pipeline, with its processes, failures and retries, implements the
\* ledger: a list of moves that only grows, in which a command counts once.
THEOREM PipelineImplementsLedger == Spec => ImplementsLedger
<1>1. Init => Ledger!LedgerInit
  BY DEF Init, Opening, Ledger!LedgerInit
<1>. QED  BY <1>1, LedgerRefinementStep, Invariance, PTL DEF Spec, ImplementsLedger, Ledger!LedgerSpec
==============================================================================
