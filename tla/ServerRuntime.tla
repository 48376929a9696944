----------------------------- MODULE ServerRuntime -----------------------------
(***************************************************************************)
(* One server process from its start to its end: the gameplay work it      *)
(* admits while it owns the games, the chores it repeats (finding games    *)
(* that are not settled, expired guests, profiles that changed), and its   *)
(* shutdown, which drains what was admitted before it lets go of the       *)
(* database.  What the work does is left to the other modules; here it     *)
(* waits in queues, is at the database, looks for the outcome of a write   *)
(* that was not answered, or waits for other work.                         *)
(***************************************************************************)
EXTENDS Naturals, Sequences, FiniteSets

CONSTANTS
    Task,           \* pieces of work
    Job,            \* GameSettlementJobs
    BatchSize,      \* of the settlement recovery
    LastTick,       \* bound: time
    MaxTries,       \* bound: operations of the database that fail or are not answered
    Extents         \* bound: the work that is asked for, the games that end and the chores done in one behaviour

ASSUME ServerRuntimeAssumption ==
    /\ IsFiniteSet(Task) /\ IsFiniteSet(Job)
    /\ BatchSize \in Nat \ {0} /\ LastTick \in Nat /\ MaxTries \in Nat
    /\ Extents \subseteq [tasks: SUBSET Task, jobs: SUBSET Job, chores: SUBSET {"settlement", "guests", "profiles"}]

VARIABLES
    owned,      \* GameplayOwner names this process
    lost,       \* the process knows that it does not
    lifetime,   \* of admitted work: "none" yet, "open", "stopped"
    tasks,      \* of each piece of work: where it is, and which other it waits for
    chores,     \* the periodic workers: what they do, and the items of the batch
    settlements,    \* of each job: recorded, done, tries, when it is due
    server,     \* "starting", "serving", "stopping"; the work shutdown waits for; sockets; database;
                \* and what there is to do in this behaviour
    tick, tries

runtimeVars == <<owned, lost, lifetime, tasks, chores, settlements, server, tick, tries>>

RepeatedChores == {"settlement", "guests", "profiles"}

RuntimeInit ==
    /\ owned = TRUE /\ lost = FALSE /\ lifetime = "none"
    /\ tasks = [t \in Task |-> [stage |-> "new", for |-> {}]]
    /\ chores = [c \in RepeatedChores |-> [stage |-> "idle", todo |-> << >>]]
    /\ settlements = [j \in Job |-> [known |-> FALSE, done |-> FALSE, attempts |-> 0, next |-> 0]]
    /\ \E e \in Extents : server = [stage |-> "starting", awaited |-> {}, sockets |-> FALSE, database |-> TRUE, extent |-> e]
    /\ tick = 0 /\ tries = 0

Faulty == tries < MaxTries /\ tries' = tries + 1

------------------------------------------------------------------------------
(* Shutdown *)

Admitted(t) == tasks[t].stage \notin {"new", "ended"}

\* stopLifetime ends the waiting between two readings; what else was admitted is awaited.
EndedTask == [stage |-> "ended", for |-> {}]
Aborted(ts) == [t \in Task |-> IF ts[t].stage = "waiting" THEN EndedTask ELSE ts[t]]

\* stopGameRuntime and stopRoomRuntime
Stop(ts, stage, sockets) ==
    /\ lifetime' = "stopped" /\ tasks' = Aborted(ts)
    /\ server' = [server EXCEPT !.stage = stage, !.sockets = sockets,
                                !.awaited = {t \in Task : Aborted(ts)[t].stage \notin {"new", "ended"}}]

\* shutdownGameplayServer, which runs once
Shutdown(ts) ==
    IF server.stage = "serving" THEN Stop(ts, "stopping", TRUE) ELSE tasks' = ts /\ UNCHANGED <<lifetime, server>>

\* reportLost tells the shutdown, once the server is listening to it.
ReportLost(ts) == lost' = TRUE /\ IF lost THEN tasks' = ts /\ UNCHANGED <<lifetime, server>> ELSE Shutdown(ts)

Signal ==
    /\ server.stage = "serving" /\ Shutdown(tasks)
    /\ UNCHANGED <<owned, lost, chores, settlements, tick, tries>>

\* The restoration at the start; a process that lost the games meanwhile does not get further.
Restored ==
    /\ server.stage = "starting" /\ ~lost
    /\ server' = [server EXCEPT !.stage = "serving", !.sockets = TRUE]
    /\ UNCHANGED <<owned, lost, lifetime, tasks, chores, settlements, tick, tries>>

RestoreFails ==
    /\ server.stage = "starting" /\ Stop(tasks, "stopping", FALSE)
    /\ UNCHANGED <<owned, lost, chores, settlements, tick, tries>>

SocketsClosed ==
    /\ server.stage = "stopping" /\ server.sockets /\ server' = [server EXCEPT !.sockets = FALSE]
    /\ UNCHANGED <<owned, lost, lifetime, tasks, chores, settlements, tick, tries>>

CloseDatabase ==
    /\ server.stage = "stopping" /\ ~server.sockets /\ server.database
    /\ \A t \in server.awaited : ~Admitted(t)
    /\ \A c \in RepeatedChores : chores[c].stage = "idle"
    /\ server' = [server EXCEPT !.database = FALSE]
    /\ UNCHANGED <<owned, lost, lifetime, tasks, chores, settlements, tick, tries>>

\* A newer process takes the games over, and the watch sees it.
TakeOver ==
    /\ owned /\ owned' = FALSE
    /\ UNCHANGED <<lost, lifetime, tasks, chores, settlements, server, tick, tries>>

Watch ==
    /\ server.stage = "serving" /\ ~owned /\ ~lost /\ ReportLost(tasks)
    /\ UNCHANGED <<owned, chores, settlements, tick, tries>>

------------------------------------------------------------------------------
(* runGameplayWork *)

\* isCurrent
CurrentWork == lifetime = "open" /\ ~lost

\* Mutant: only the owner is looked at when the work begins.
StillOwner == ~lost

MayBegin == CurrentWork

Goes(t, stage) == [tasks EXCEPT ![t] = [stage |-> stage, for |-> {}]]
Known(l) == IF l = "none" THEN "open" ELSE l

Admit(t) ==
    /\ t \in server.extent.tasks /\ tasks[t].stage = "new"
    /\ IF lost THEN tasks' = Goes(t, "ended") /\ UNCHANGED lifetime
       ELSE tasks' = Goes(t, "queued") /\ lifetime' = Known(lifetime)
    /\ UNCHANGED <<owned, lost, chores, settlements, server, tick, tries>>

\* When its turn in the queues has come, it goes to the database, or has other work done.
Begin(t) ==
    /\ tasks[t].stage = "queued"
    /\ \/ ~MayBegin /\ tasks' = Goes(t, "ended")
       \/ MayBegin /\ tasks' = Goes(t, "writing")
       \/ \E u \in server.extent.tasks :
            /\ MayBegin /\ tasks[u].stage = "new"
            /\ tasks' = [tasks EXCEPT ![t] = [stage |-> "delegating", for |-> {u}], ![u] = [stage |-> "queued", for |-> {}]]
    /\ UNCHANGED <<owned, lost, lifetime, chores, settlements, server, tick, tries>>

Return(t) ==
    /\ tasks[t].stage = "delegating" /\ \A u \in tasks[t].for : tasks[u].stage = "ended"
    /\ tasks' = Goes(t, "ended")
    /\ UNCHANGED <<owned, lost, lifetime, chores, settlements, server, tick, tries>>

\* inGameplayTransaction: it is fenced; it succeeds or fails; or there is no answer.
Write(t) ==
    /\ tasks[t].stage = "writing"
    /\ \/ ~owned /\ ReportLost(Goes(t, "ended")) /\ UNCHANGED tries
       \/ owned /\ tasks' = Goes(t, "ended") /\ UNCHANGED <<lost, lifetime, server, tries>>
       \/ /\ Faulty /\ tasks' = Goes(t, IF CurrentWork THEN "reading" ELSE "ended")
          /\ UNCHANGED <<lost, lifetime, server>>
    /\ UNCHANGED <<owned, chores, settlements, tick>>

\* retryGameplayRecovery
Reread(t) ==
    /\ tasks[t].stage = "reading"
    /\ \/ ~owned /\ ReportLost(Goes(t, "ended")) /\ UNCHANGED tries
       \/ owned /\ tasks' = Goes(t, "ended") /\ UNCHANGED <<lost, lifetime, server, tries>>
       \/ /\ Faulty /\ tasks' = Goes(t, IF CurrentWork THEN "waiting" ELSE "ended")
          /\ UNCHANGED <<lost, lifetime, server>>
    /\ UNCHANGED <<owned, chores, settlements, tick>>

ReadAgain(t) ==
    /\ tasks[t].stage = "waiting" /\ tasks' = Goes(t, IF CurrentWork THEN "reading" ELSE "ended")
    /\ UNCHANGED <<owned, lost, lifetime, chores, settlements, server, tick, tries>>

------------------------------------------------------------------------------
(* The chores: createSettlementRecovery, createGuestCleanup, createProfileReconciliation *)

Stopped == server.stage = "stopping"
Doing(c, stage, todo) == chores' = [chores EXCEPT ![c] = [stage |-> stage, todo |-> todo]]

RunOnce(c) ==
    /\ c \in server.extent.chores /\ server.stage = "serving" /\ chores[c].stage = "idle" /\ Doing(c, "finding", << >>)
    /\ UNCHANGED <<owned, lost, lifetime, tasks, settlements, server, tick, tries>>

\* The jobs that are due, those due longest first.
Due == {j \in Job : settlements[j].known /\ ~settlements[j].done /\ settlements[j].next <= tick}
Batch(found) ==
    /\ Len(found) <= BatchSize /\ \A i, k \in DOMAIN found : i < k => found[i] # found[k] /\ settlements[found[i]].next <= settlements[found[k]].next
    /\ \A j \in Due : (\E i \in DOMAIN found : found[i] = j) \/
                      (Len(found) = BatchSize /\ \A i \in DOMAIN found : settlements[found[i]].next <= settlements[j].next)

BatchOf(c) == IF c = "settlement" THEN {f \in UNION {[1..n -> Due] : n \in 0..Cardinality(Due)} : Batch(f)} ELSE {<<c>>, << >>}

Find(c) ==
    /\ chores[c].stage = "finding"
    /\ \/ \E found \in BatchOf(c) : Doing(c, "working", found) /\ UNCHANGED tries
       \/ Faulty /\ Doing(c, "idle", << >>)
    /\ UNCHANGED <<owned, lost, lifetime, tasks, settlements, server, tick>>

\* The end of the batch, or the first item that a stopped worker leaves to others.
EndOfBatch(c) ==
    /\ chores[c].stage = "working" /\ (chores[c].todo = << >> \/ Stopped) /\ Doing(c, "idle", << >>)
    /\ UNCHANGED <<owned, lost, lifetime, tasks, settlements, server, tick, tries>>

SettleJob(j) == settlements' = [settlements EXCEPT ![j].done = TRUE]

\* settleQueuedGame: paid unless there is a receipt; or it fails, and the failure is noted next.
Settle ==
    LET c == "settlement" j == Head(chores[c].todo) IN
    /\ chores[c].stage = "working" /\ chores[c].todo # << >>
    /\ \/ SettleJob(j) /\ Doing(c, "working", Tail(chores[c].todo)) /\ UNCHANGED tries
       \/ Faulty /\ (SettleJob(j) \/ UNCHANGED settlements) /\ Doing(c, "failed", chores[c].todo)
    /\ UNCHANGED <<owned, lost, lifetime, tasks, server, tick>>

Delay(j) == IF settlements[j].attempts = 0 THEN 1 ELSE 2
BackOff ==
    LET c == "settlement" j == Head(chores[c].todo) IN
    /\ chores[c].stage = "failed"
    /\ \/ /\ settlements' = IF settlements[j].done THEN settlements
                             ELSE [settlements EXCEPT ![j].attempts = @ + 1, ![j].next = tick + Delay(j)]
          /\ Doing(c, "working", Tail(chores[c].todo)) /\ UNCHANGED tries
       \/ Faulty /\ Doing(c, "idle", << >>) /\ UNCHANGED settlements
    /\ UNCHANGED <<owned, lost, lifetime, tasks, server, tick>>

\* retireExpiredGuest, which is fenced; and the revisions told to those still connected.
RetireGuests ==
    /\ chores["guests"].stage = "working" /\ chores["guests"].todo # << >>
    /\ \/ ~owned /\ ReportLost(tasks) /\ Doing("guests", "idle", << >>)
       \/ owned /\ Doing("guests", "working", << >>) /\ UNCHANGED <<lost, lifetime, tasks, server>>
    /\ UNCHANGED <<owned, settlements, tick, tries>>

TellRevisions ==
    /\ chores["profiles"].stage = "working" /\ chores["profiles"].todo # << >> /\ Doing("profiles", "working", << >>)
    /\ UNCHANGED <<owned, lost, lifetime, tasks, settlements, server, tick, tries>>

\* A game ends, here or in a newer process; and whoever committed its end settles it.
GameEnds(j) ==
    /\ j \in server.extent.jobs /\ ~settlements[j].known /\ settlements' = [settlements EXCEPT ![j].known = TRUE, ![j].next = tick]
    /\ UNCHANGED <<owned, lost, lifetime, tasks, chores, server, tick, tries>>
SettledElsewhere(j) ==
    /\ settlements[j].known /\ SettleJob(j)
    /\ UNCHANGED <<owned, lost, lifetime, tasks, chores, server, tick, tries>>

Tick ==
    /\ tick < LastTick /\ tick' = tick + 1
    /\ UNCHANGED <<owned, lost, lifetime, tasks, chores, settlements, server, tries>>

RuntimeNext ==
    \/ Signal \/ Restored \/ RestoreFails \/ SocketsClosed \/ CloseDatabase \/ TakeOver \/ Watch
    \/ \E t \in Task : Admit(t) \/ Begin(t) \/ Return(t) \/ Write(t) \/ Reread(t) \/ ReadAgain(t)
    \/ \E c \in RepeatedChores : RunOnce(c) \/ Find(c) \/ EndOfBatch(c)
    \/ Settle \/ BackOff \/ RetireGuests \/ TellRevisions \/ Tick
    \/ \E j \in Job : GameEnds(j) \/ SettledElsewhere(j)

RuntimeSpec == RuntimeInit /\ [][RuntimeNext]_runtimeVars

------------------------------------------------------------------------------
(* Properties *)

\* Once the process lets go of the database, none of its work is there, and none of its
\* chores is under way: whatever was admitted before, or after, or by work being drained.
DatabaseClosesLast ==
    ~server.database =>
        /\ \A t \in Task : tasks[t].stage \notin {"writing", "reading"}
        /\ \A c \in RepeatedChores : chores[c].stage = "idle"

\* Shutdown is not kept waiting: nothing it drains sleeps, whether its reading failed before
\* the process was told to stop or after.
StoppedWorkEnds == lifetime = "stopped" => \A t \in Task : tasks[t].stage # "waiting"

RuntimeIsSound == DatabaseClosesLast /\ StoppedWorkEnds

------------------------------------------------------------------------------
(* What the proofs need besides *)

Stages == {"new", "queued", "delegating", "writing", "reading", "waiting", "ended"}
Chore == {x \in [stage : {"idle", "finding", "working", "failed"}, todo : Seq(Job \cup RepeatedChores)] :
             x.stage = "failed" => x.todo # << >>}

\* The shape of what shutdown is about.
RuntimeTypeOK ==
    /\ owned \in BOOLEAN /\ lost \in BOOLEAN /\ lifetime \in {"none", "open", "stopped"}
    /\ tasks \in [Task -> [stage : Stages, for : SUBSET Task]]
    /\ chores \in [RepeatedChores -> Chore]
    /\ server \in [stage : {"starting", "serving", "stopping"}, awaited : SUBSET Task, sockets : BOOLEAN, database : BOOLEAN, extent : Extents]

\* Stopping and the end of the lifetime of the work are one.
LifetimeEnds == (lifetime = "stopped") <=> (server.stage = "stopping")

\* Work that shutdown does not wait for does not begin any more.
OnlyTheAwaitedRun == server.stage = "stopping" => \A t \in Task \ server.awaited : tasks[t].stage \in {"new", "queued", "ended"}

\* The chores run while the server serves, and are over before it closes the database.
ClosedIsQuiet ==
    ~server.database =>
        /\ server.stage = "stopping"
        /\ \A t \in Task : tasks[t].stage \in {"new", "queued", "ended"}
        /\ \A c \in RepeatedChores : chores[c].stage = "idle"

RuntimeInv == RuntimeTypeOK /\ LifetimeEnds /\ OnlyTheAwaitedRun /\ ClosedIsQuiet /\ StoppedWorkEnds
==============================================================================
