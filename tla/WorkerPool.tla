------------------------------- MODULE WorkerPool -------------------------------
(***************************************************************************)
(* The pool of search threads: jobs wait in order of priority, each thread *)
(* works on one job, and a thread whose job timed out or was cancelled is  *)
(* terminated.  Threads run, answer, crash and exit on their own; their    *)
(* messages and exits arrive whenever the event loop takes them.  A thread *)
(* can always be started and be sent its job.                              *)
(***************************************************************************)
EXTENDS Naturals, Sequences, FiniteSets

CONSTANTS
    Size, MaxQueue,     \* the pool's limits
    MaxJobs,            \* bound: jobs asked for
    MaxThreads          \* bound: threads ever spawned

ASSUME WorkerPoolAssumption == Size \in Nat \ {0} /\ MaxQueue \in Nat /\ MaxJobs \in Nat /\ MaxThreads \in Nat

VARIABLES
    jobs,       \* of each job: its priority, and whether it is open, answered or failed
    queue,      \* jobs waiting, which the code keeps in the order of their urgency
    slots,      \* the pool's slots: thread, job, retired
    threads,    \* the worker threads: alive or not, the job they work on, the answers they posted
    closed

poolState == <<jobs, queue, slots, threads, closed>>

NoTask == 0
Pending(j) == jobs[j].ended = "open"

PoolInit ==
    /\ jobs = << >> /\ queue = {} /\ slots = {} /\ threads = << >> /\ closed = FALSE

\* The order of priorities, then of ids.  The queue is sorted whenever a job has been added to it.
Precedes(j, k) ==
    jobs'[j].priority > jobs'[k].priority \/ (jobs'[j].priority = jobs'[k].priority /\ j < k)

First(q) == CHOOSE j \in q : \A k \in q \ {j} : Precedes(j, k)

Idle(s) == ~s.retired /\ s.job = NoTask
SlotOf(j) == {s \in slots : s.job = j}

------------------------------------------------------------------------------
(* drain: as far as it gets with these slots and this queue.  Every operation ends *)
(* with it.                                                                        *)

Pool(ss, q, ts) == [slots |-> ss, queue |-> q, threads |-> ts]

\* Gives the first job to this slot, whose thread receives it.
Assign(p, s) ==
    LET j == First(p.queue) IN
    Pool((p.slots \ {s}) \cup {[s EXCEPT !.job = j]}, p.queue \ {j}, [p.threads EXCEPT ![s.thread].work = j])

Spawn(p) ==
    LET t == Len(p.threads) + 1 IN
    Pool(p.slots \cup {[thread |-> t, job |-> NoTask, retired |-> FALSE]}, p.queue,
         Append(p.threads, [alive |-> TRUE, work |-> NoTask, posted |-> {}]))

DrainOnce(p) ==
    CASE p.queue = {} \/ closed -> p
      [] p.queue # {} /\ ~closed /\ \E s \in p.slots : Idle(s) ->
             Assign(p, CHOOSE s \in p.slots : Idle(s) /\ \A o \in p.slots : Idle(o) => s.thread <= o.thread)
      [] p.queue # {} /\ ~closed /\ (\A s \in p.slots : ~Idle(s)) /\ Cardinality(p.slots) < Size
             /\ Len(p.threads) < MaxThreads -> Spawn(p)
      [] OTHER -> p

\* An operation adds one job or frees one slot: there is a thread to start and a job to assign.
Drained(p) == DrainOnce(DrainOnce(DrainOnce(p)))

Drain(ss, q, ts) ==
    LET p == Drained(Pool(ss, q, ts)) IN slots' = p.slots /\ queue' = p.queue /\ threads' = p.threads

------------------------------------------------------------------------------
(* The pool's operations *)

\* run
Run(priority) ==
    LET j == Len(jobs) + 1
        full == ~(\E s \in slots : Idle(s)) /\ Cardinality(slots) >= Size /\ Cardinality(queue) >= MaxQueue IN
    /\ j <= MaxJobs
    /\ jobs' = Append(jobs, [priority |-> priority, ended |-> IF closed \/ full THEN "failed" ELSE "open"])
    /\ IF closed \/ full THEN UNCHANGED <<slots, queue, threads>>
       ELSE Drain(slots, queue \cup {j}, threads)
    /\ UNCHANGED closed

\* Mutant: a retired slot is given up before its thread has exited.
RetireAtOnce(gone) == slots \ gone

\* retire: the thread still counts until it has exited.
Retire(gone) == (slots \ gone) \cup {[s EXCEPT !.job = NoTask, !.retired = TRUE] : s \in gone}

\* finish, of a job that failed: its slot is retired.
GiveUpOn(j) ==
    /\ jobs' = [jobs EXCEPT ![j].ended = "failed"]
    /\ Drain(Retire(SlotOf(j)), queue \ {j}, threads)

\* The deadline passes, or the caller's signal aborts.
End(j) == Pending(j) /\ GiveUpOn(j) /\ UNCHANGED closed

\* A message of a worker: only of the job its slot is on, and of no retired slot.
Message(t, j) ==
    LET mine == {s \in slots : s.thread = t /\ ~s.retired /\ s.job = j}
        read == [threads EXCEPT ![t].posted = @ \ {j}] IN
    /\ j \in threads[t].posted
    /\ \/ mine = {} /\ threads' = read /\ UNCHANGED <<jobs, queue, slots>>
       \/ \E s \in mine, ended \in {"answered", "failed"} :
              /\ jobs' = [jobs EXCEPT ![j].ended = ended]
              /\ Drain((slots \ {s}) \cup {[s EXCEPT !.job = NoTask]}, queue, read)
    /\ UNCHANGED closed

\* failSlot, on an error or an exit that nobody asked for
Fail(t) ==
    LET mine == {s \in slots : s.thread = t /\ ~s.retired} IN
    /\ ~threads[t].alive /\ mine # {}
    /\ LET s == CHOOSE s \in mine : TRUE IN
       IF s.job # NoTask THEN GiveUpOn(s.job)
       ELSE UNCHANGED jobs /\ Drain(Retire({s}), queue, threads)
    /\ UNCHANGED closed

\* terminate has resolved
Exited(t) ==
    LET mine == {s \in slots : s.thread = t /\ s.retired} IN
    /\ mine # {} /\ ~threads[t].alive
    /\ UNCHANGED <<jobs, closed>>
    /\ Drain(slots \ mine, queue, threads)

\* close: everything open is refused, and the threads are terminated.
Close ==
    /\ ~closed /\ closed' = TRUE
    /\ jobs' = [j \in DOMAIN jobs |-> IF Pending(j) THEN [jobs[j] EXCEPT !.ended = "failed"] ELSE jobs[j]]
    /\ queue' = {} /\ slots' = {}
    /\ threads' = [t \in DOMAIN threads |-> [threads[t] EXCEPT !.alive = FALSE]]

------------------------------------------------------------------------------
(* The threads *)

Post(t) ==
    /\ threads[t].alive /\ threads[t].work # NoTask
    /\ threads' = [threads EXCEPT ![t].posted = @ \cup {threads[t].work}, ![t].work = NoTask]
    /\ UNCHANGED <<jobs, queue, slots, closed>>

\* It crashes, or has been told to terminate.
Die(t) ==
    /\ threads[t].alive
    /\ threads' = [threads EXCEPT ![t].alive = FALSE, ![t].work = NoTask]
    /\ UNCHANGED <<jobs, queue, slots, closed>>

PoolNext ==
    \/ \E priority \in {0, 1} : Run(priority)
    \/ \E j \in DOMAIN jobs : End(j)
    \/ \E t \in DOMAIN threads : Fail(t) \/ Exited(t) \/ Post(t) \/ Die(t) \/ \E j \in DOMAIN jobs : Message(t, j)
    \/ Close

PoolSpec == PoolInit /\ [][PoolNext]_poolState

------------------------------------------------------------------------------
(* Properties *)

\* No more threads are alive than the pool may have, those being terminated included.
ThreadsAreBounded == Cardinality({t \in DOMAIN threads : threads[t].alive}) <= Size

\* A job waits only while no thread is free and none may be started.
NobodyWaitsForNothing ==
    queue # {} =>
        /\ \A s \in slots : ~Idle(s)
        /\ Cardinality(slots) >= Size \/ Len(threads) >= MaxThreads

\* An open job, and no other, is in the queue or on a live slot, and not in two places; the
\* thread of a slot with a job is at work for that job alone, or has posted its answer.
JobsAreHeldOnce ==
    /\ \A j \in DOMAIN jobs :
           /\ Pending(j) <=> j \in queue \/ SlotOf(j) # {}
           /\ j \in queue => SlotOf(j) = {}
    /\ \A r, s \in slots : (r.job # NoTask /\ r.job = s.job) \/ r.thread = s.thread => r = s
    /\ \A s \in slots : s.job # NoTask => threads[s.thread].work \in {s.job, NoTask} /\ ~s.retired

\* However deadlines, cancellations, crashes and late answers fall, a job ends once, threads stay
\* within the limit, and free threads take the work that waits.  (WorkerPool.finish, retire, drain)
PoolIsSound == ThreadsAreBounded /\ NobodyWaitsForNothing /\ JobsAreHeldOnce
==============================================================================
