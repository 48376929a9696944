----------------------------- MODULE ServicesProofs -----------------------------
(***************************************************************************)
(* What holds of the worker pool, of quick play and of the other services  *)
(* in every reachable state, for any limits, people and bounds.            *)
(***************************************************************************)
EXTENDS PuzzlePublishing, QuickPlay, WorkerPool, AccountActions, Sessions, ServerRuntime, FiniteSetTheorems, SequenceTheorems, WellFoundedInduction, TLAPS

------------------------------------------------------------------------------
(* Least elements *)

LEMMA LeastNatural ==
    ASSUME NEW S \in SUBSET Nat, S # {}
    PROVE  \E n \in S : \A m \in S : n <= m
<1>. DEFINE Less == {p \in Nat \X Nat : p[1] < p[2]}
<1>1. IsWellFoundedOn(Less, Nat)
  BY NatLessThanWellFounded DEF OpToRel
<1>2. PICK n \in S : \A m \in S : <<m, n>> \notin Less
  <2>. HIDE DEF Less
  <2>. QED  BY <1>1, WFMin
<1>3. \A m \in S : n <= m
  <2>. SUFFICES ASSUME NEW m \in S, m < n PROVE FALSE
    OBVIOUS
  <2>1. <<m, n>> \in Nat \X Nat /\ <<m, n>>[1] = m /\ <<m, n>>[2] = n
    OBVIOUS
  <2>. QED  BY <1>2, <2>1 DEF Less
<1>. QED  BY <1>3

------------------------------------------------------------------------------
(* The worker pool: the inductive invariant *)

JobState == [priority : {0, 1}, ended : {"open", "answered", "failed"}]
Slot == [thread : Nat, job : Nat, retired : BOOLEAN]
Thread == [alive : BOOLEAN, work : Nat, posted : SUBSET Nat]
PoolShape == [slots : SUBSET Slot, queue : SUBSET Nat, threads : Seq(Thread)]

WithinLimits(p) == IsFiniteSet(p.slots) /\ Cardinality(p.slots) <= Size

\* Every living thread has a slot, and every slot a thread of its own.
ThreadsHaveSlots(p) ==
    /\ \A s \in p.slots : s.thread \in 1..Len(p.threads)
    /\ \A r, s \in p.slots : r.thread = s.thread => r = s
    /\ \A t \in 1..Len(p.threads) : p.threads[t].alive => \E s \in p.slots : s.thread = t

\* An open job, and no other, is in one place, the queue or a slot.
WorkIsHeld(p, js) ==
    /\ p.queue \subseteq 1..Len(js)
    /\ \A s \in p.slots : s.job # NoTask =>
           s.job \in 1..Len(js) /\ ~s.retired /\ p.threads[s.thread].work \in {s.job, NoTask}
    /\ \A r, s \in p.slots : r.job # NoTask /\ r.job = s.job => r = s
    /\ \A j \in p.queue : \A s \in p.slots : s.job # j
    /\ \A j \in 1..Len(js) : js[j].ended = "open" <=> j \in p.queue \/ \E s \in p.slots : s.job = j

Sound(p, js) == p \in PoolShape /\ WithinLimits(p) /\ ThreadsHaveSlots(p) /\ WorkIsHeld(p, js)

\* No job waits that a free slot could take, or a thread that may be started.
AtCapacity(p) == Cardinality(p.slots) >= Size \/ Len(p.threads) >= MaxThreads
NoneIdle(p) == \A s \in p.slots : ~Idle(s)
Settled(p) == p.queue # {} => NoneIdle(p) /\ AtCapacity(p)

Here == Pool(slots, queue, threads)

PoolInv ==
    /\ jobs \in Seq(JobState) /\ closed \in BOOLEAN
    /\ Sound(Here, jobs) /\ Settled(Here)
    /\ closed => slots = {} /\ queue = {}

------------------------------------------------------------------------------
(* The worker pool: draining *)

LEMMA PoolFields ==
    ASSUME NEW ss, NEW q, NEW ts
    PROVE  /\ Pool(ss, q, ts).slots = ss /\ Pool(ss, q, ts).queue = q /\ Pool(ss, q, ts).threads = ts
           /\ ss \subseteq Slot /\ q \subseteq Nat /\ ts \in Seq(Thread) => Pool(ss, q, ts) \in PoolShape
BY DEF Pool, PoolShape

\* One slot turns into another of the same thread.
LEMMA SlotTurns ==
    ASSUME NEW ss \in SUBSET Slot, IsFiniteSet(ss), \A r, s \in ss : r.thread = s.thread => r = s,
           NEW s \in ss, NEW new \in Slot, new.thread = s.thread
    PROVE  /\ IsFiniteSet((ss \ {s}) \cup {new})
           /\ Cardinality((ss \ {s}) \cup {new}) = Cardinality(ss)
           /\ \A r, o \in (ss \ {s}) \cup {new} : r.thread = o.thread => r = o
<1>1. new \notin ss \ {s}
  OBVIOUS
<1>2. IsFiniteSet(ss \ {s}) /\ Cardinality(ss \ {s}) = Cardinality(ss) - 1 /\ Cardinality(ss) \in Nat
  BY FS_RemoveElement, FS_CardinalityType
<1>3. IsFiniteSet((ss \ {s}) \cup {new}) /\ Cardinality((ss \ {s}) \cup {new}) = Cardinality(ss \ {s}) + 1
  BY <1>1, <1>2, FS_AddElement
<1>. QED  BY <1>2, <1>3

\* There is a most urgent job.
LEMMA FirstWaits ==
    ASSUME NEW q \in SUBSET (1..Len(jobs')), q # {}, jobs' \in Seq(JobState)
    PROVE  First(q) \in q
<1>. DEFINE Pressing == {j \in q : jobs'[j].priority = 1}
            Foremost == IF Pressing = {} THEN q ELSE Pressing
<1>0. \A j \in q : j \in Nat /\ jobs'[j] \in JobState
  OBVIOUS
<1>1. \A j \in q : j \in Nat /\ jobs'[j].priority \in {0, 1}
  BY <1>0 DEF JobState
<1>2. Foremost \in SUBSET Nat /\ Foremost # {}
  BY <1>1
<1>3. PICK j \in Foremost : \A k \in Foremost : j <= k
  <2>. HIDE DEF Foremost
  <2>. QED  BY <1>2, LeastNatural
<1>4. \A k \in q \ {j} : Precedes(j, k)
  <2>. SUFFICES ASSUME NEW k \in q \ {j} PROVE Precedes(j, k)
    OBVIOUS
  <2>1. CASE k \in Foremost
    <3>1. j < k  BY <1>1, <1>3, <2>1
    <3>2. jobs'[j].priority = jobs'[k].priority  BY <1>1, <1>3, <2>1
    <3>. QED  BY <3>1, <3>2 DEF Precedes
  <2>2. CASE k \notin Foremost
    <3>1. jobs'[j].priority = 1 /\ jobs'[k].priority = 0  BY <1>1, <1>3, <2>2
    <3>. QED  BY <3>1 DEF Precedes
  <2>. QED  BY <2>1, <2>2
<1>5. j \in q
  BY <1>3
<1>. QED  BY <1>4, <1>5 DEF First

\* There is a first idle slot.
LEMMA FirstIdle ==
    ASSUME NEW ss \in SUBSET Slot, \E s \in ss : Idle(s)
    PROVE  LET s == CHOOSE s \in ss : Idle(s) /\ \A o \in ss : Idle(o) => s.thread <= o.thread IN s \in ss /\ Idle(s)
<1>. DEFINE Threads == {s.thread : s \in {s \in ss : Idle(s)}}
<1>1. Threads \in SUBSET Nat /\ Threads # {}
  BY DEF Slot
<1>2. PICK n \in Threads : \A m \in Threads : n <= m
  <2>. HIDE DEF Threads
  <2>. QED  BY <1>1, LeastNatural
<1>3. PICK s \in ss : Idle(s) /\ s.thread = n
  BY <1>2
<1>4. \A o \in ss : Idle(o) => s.thread <= o.thread
  BY <1>2, <1>3
<1>. QED  BY <1>3, <1>4


\* A waiting job goes to an idle slot.
LEMMA AssignKeeps ==
    ASSUME jobs' \in Seq(JobState), NEW p, Sound(p, jobs'), p.queue # {}, NEW s \in p.slots, Idle(s),
           NEW q, q = Assign(p, s)
    PROVE  /\ Sound(q, jobs')
           /\ Cardinality(q.slots) = Cardinality(p.slots) /\ Len(q.threads) = Len(p.threads)
           /\ q.queue = p.queue \ {First(p.queue)} /\ First(p.queue) \in p.queue
           /\ \A o \in q.slots : Idle(o) => o \in p.slots \ {s}
<1>. DEFINE j == First(p.queue)
            new == [s EXCEPT !.job = j]
            ss == (p.slots \ {s}) \cup {new}
            ts == [p.threads EXCEPT ![s.thread].work = j]
<1>1. p.slots \subseteq Slot /\ p.queue \subseteq Nat /\ p.threads \in Seq(Thread) /\ p.queue \subseteq 1..Len(jobs')
      /\ IsFiniteSet(p.slots)
  BY DEF Sound, PoolShape, WithinLimits, WorkIsHeld
<1>2. j \in p.queue /\ j \in 1..Len(jobs') /\ j \in Nat /\ j # NoTask
  BY <1>1, FirstWaits DEF NoTask
<1>3. s \in Slot /\ s.job = NoTask /\ ~s.retired /\ s.thread \in 1..Len(p.threads)
  BY <1>1 DEF Idle, Sound, ThreadsHaveSlots
<1>4. new \in Slot /\ new.thread = s.thread /\ new.job = j /\ ~new.retired
  BY <1>2, <1>3 DEF Slot
<1>5. /\ ts \in Seq(Thread) /\ Len(ts) = Len(p.threads)
      /\ \A t \in 1..Len(ts) : ts[t].alive = p.threads[t].alive /\ ts[t].work = (IF t = s.thread THEN j ELSE p.threads[t].work)
  <2>1. p.threads[s.thread] \in Thread  BY <1>1, <1>3
  <2>2. [p.threads[s.thread] EXCEPT !.work = j] \in Thread  BY <1>2, <2>1 DEF Thread
  <2>3. \A t \in 1..Len(p.threads) : p.threads[t] \in Thread  BY <1>1
  <2>4. ts \in Seq(Thread) /\ Len(ts) = Len(p.threads)
    BY <1>1, <1>3, <2>2
  <2>5. ASSUME NEW t \in 1..Len(ts)
        PROVE  ts[t].alive = p.threads[t].alive /\ ts[t].work = (IF t = s.thread THEN j ELSE p.threads[t].work)
    <3>1. CASE t = s.thread  BY <1>1, <2>1, <2>4, <2>5, <3>1 DEF Thread
    <3>2. CASE t # s.thread  BY <1>1, <2>3, <2>4, <2>5, <3>2
    <3>. QED  BY <3>1, <3>2
  <2>. QED  BY <2>4, <2>5
<1>6. q.slots = ss /\ q.queue = p.queue \ {j} /\ q.threads = ts
  BY PoolFields DEF Assign
<1>7. q \in PoolShape
  <2>1. q = Pool(ss, p.queue \ {j}, ts)  BY DEF Assign
  <2>. HIDE DEF ts, new, j
  <2>2. ss \subseteq Slot /\ p.queue \ {j} \subseteq Nat /\ ts \in Seq(Thread)  BY <1>1, <1>4, <1>5
  <2>. HIDE DEF ss
  <2>. QED  BY <2>1, <2>2, PoolFields
<1>. HIDE DEF ts, new, j
<1>8. \A r, o \in p.slots : r.thread = o.thread => r = o
  BY DEF Sound, ThreadsHaveSlots
<1>9. IsFiniteSet(ss) /\ Cardinality(ss) = Cardinality(p.slots) /\ \A r, o \in ss : r.thread = o.thread => r = o
  <2>1. p.slots \in SUBSET Slot  BY <1>1
  <2>. QED  BY <1>1, <1>3, <1>4, <1>8, <2>1, SlotTurns, Zenon
<1>10. WithinLimits(q)
  BY <1>6, <1>9 DEF Sound, WithinLimits
<1>11. ThreadsHaveSlots(q)
  <2>1. \A o \in ss : o.thread \in 1..Len(ts)  BY <1>3, <1>4, <1>5 DEF Sound, ThreadsHaveSlots
  <2>2. ASSUME NEW t \in 1..Len(ts), ts[t].alive PROVE \E o \in ss : o.thread = t
    <3>1. PICK o \in p.slots : o.thread = t  BY <1>5, <2>2 DEF Sound, ThreadsHaveSlots
    <3>. QED  BY <1>4, <3>1
  <2>. QED  BY <1>6, <1>9, <2>1, <2>2 DEF ThreadsHaveSlots
<1>12. WorkIsHeld(q, jobs')
  <2>1. ASSUME NEW o \in ss, o.job # NoTask
        PROVE  o.job \in 1..Len(jobs') /\ ~o.retired /\ ts[o.thread].work \in {o.job, NoTask}
    <3>1. CASE o = new  BY <1>2, <1>3, <1>4, <1>5, <3>1
    <3>2. CASE o # new
      <4>1. o \in p.slots /\ o # s  BY <3>2
      <4>2. o.thread \in 1..Len(p.threads) /\ o.thread # s.thread  BY <1>8, <4>1 DEF Sound, ThreadsHaveSlots
      <4>3. o.job \in 1..Len(jobs') /\ ~o.retired /\ p.threads[o.thread].work \in {o.job, NoTask}
        BY <2>1, <4>1 DEF Sound, WorkIsHeld
      <4>. QED  BY <1>5, <4>2, <4>3
    <3>. QED  BY <3>1, <3>2
  <2>2. \A o \in p.slots : o.job # j  BY <1>2 DEF Sound, WorkIsHeld
  <2>3. \A r, o \in ss : r.job # NoTask /\ r.job = o.job => r = o  BY <1>4, <2>2 DEF Sound, WorkIsHeld
  <2>4. \A k \in p.queue \ {j} : \A o \in ss : o.job # k  BY <1>4 DEF Sound, WorkIsHeld
  <2>5. \A k \in 1..Len(jobs') : (k \in p.queue \/ \E o \in p.slots : o.job = k) <=> (k \in p.queue \ {j} \/ \E o \in ss : o.job = k)
    BY <1>2, <1>3, <1>4 DEF NoTask
  <2>. QED  BY <1>1, <1>6, <2>1, <2>3, <2>4, <2>5 DEF Sound, WorkIsHeld
<1>. QED  BY <1>2, <1>4, <1>5, <1>6, <1>7, <1>9, <1>10, <1>11, <1>12 DEF Sound, Idle, j

\* A thread is started.
LEMMA SpawnKeeps ==
    ASSUME NEW js, NEW p, Sound(p, js), Cardinality(p.slots) < Size, NEW q, q = Spawn(p)
    PROVE  /\ Sound(q, js)
           /\ Cardinality(q.slots) = Cardinality(p.slots) + 1 /\ Len(q.threads) = Len(p.threads) + 1
           /\ q.queue = p.queue
           /\ \E s \in q.slots : Idle(s) /\ q.slots = p.slots \cup {s}
<1>. DEFINE t == Len(p.threads) + 1
            new == [thread |-> t, job |-> NoTask, retired |-> FALSE]
            made == [alive |-> TRUE, work |-> NoTask, posted |-> {}]
            ss == p.slots \cup {new}
            ts == Append(p.threads, made)
<1>1. p.slots \subseteq Slot /\ p.queue \subseteq Nat /\ p.threads \in Seq(Thread) /\ IsFiniteSet(p.slots)
  BY DEF Sound, PoolShape, WithinLimits
<1>2. new \in Slot /\ new.thread = t /\ Idle(new) /\ new.job = NoTask /\ made \in Thread /\ t \in Nat
  BY <1>1 DEF Slot, Thread, Idle, NoTask
<1>. HIDE DEF new, made
<1>3. ts \in Seq(Thread) /\ Len(ts) = t /\ \A i \in 1..Len(p.threads) : ts[i] = p.threads[i]
  BY <1>1, <1>2
<1>4. q.slots = ss /\ q.queue = p.queue /\ q.threads = ts /\ q \in PoolShape
  <2>. HIDE DEF ts
  <2>1. q = Pool(ss, p.queue, ts)  BY DEF Spawn, new, made, ts
  <2>. QED  BY <1>1, <1>2, <1>3, <2>1, PoolFields
<1>. HIDE DEF ts
<1>5. new \notin p.slots
  BY <1>1, <1>2 DEF Sound, ThreadsHaveSlots
<1>6. IsFiniteSet(ss) /\ Cardinality(ss) = Cardinality(p.slots) + 1 /\ Cardinality(p.slots) \in Nat
  BY <1>1, <1>5, FS_AddElement, FS_CardinalityType
<1>7. WithinLimits(q)
  BY <1>4, <1>6, WorkerPoolAssumption DEF WithinLimits
<1>8. ThreadsHaveSlots(q)
  <2>1. \A s \in p.slots : s.thread \in 1..Len(p.threads)  BY DEF Sound, ThreadsHaveSlots
  <2>2. \A s \in ss : s.thread \in 1..Len(ts)  BY <1>1, <1>2, <1>3, <2>1
  <2>3. \A r, s \in ss : r.thread = s.thread => r = s  BY <1>1, <1>2, <2>1 DEF Sound, ThreadsHaveSlots
  <2>4. ASSUME NEW i \in 1..Len(ts), ts[i].alive PROVE \E s \in ss : s.thread = i
    <3>1. CASE i = t  BY <1>2, <3>1
    <3>2. CASE i # t  BY <1>1, <1>3, <2>4, <3>2 DEF Sound, ThreadsHaveSlots
    <3>. QED  BY <3>1, <3>2
  <2>. QED  BY <1>4, <2>2, <2>3, <2>4 DEF ThreadsHaveSlots
<1>9. WorkIsHeld(q, js)
  <2>1. \A s \in p.slots : ts[s.thread] = p.threads[s.thread]  BY <1>3 DEF Sound, ThreadsHaveSlots
  <2>2. \A s \in ss : s.job # NoTask => s \in p.slots  BY <1>2
  <2>3. \A j \in 1..Len(js) : (\E s \in p.slots : s.job = j) <=> (\E s \in ss : s.job = j)  BY <1>2 DEF NoTask
  <2>4. \A j \in p.queue : j # NoTask  BY DEF Sound, WorkIsHeld, NoTask
  <2>. QED  BY <1>2, <1>4, <2>1, <2>2, <2>3, <2>4 DEF Sound, WorkIsHeld
<1>. QED  BY <1>2, <1>3, <1>4, <1>6, <1>7, <1>8, <1>9 DEF Sound

\* One round of draining, in its three cases.
LEMMA RoundIs ==
    ASSUME ~closed, NEW p, p.slots \in SUBSET Slot
    PROVE  /\ p.queue = {} => DrainOnce(p) = p
           /\ p.queue # {} /\ (\E s \in p.slots : Idle(s)) => \E s \in p.slots : Idle(s) /\ DrainOnce(p) = Assign(p, s)
           /\ p.queue # {} /\ NoneIdle(p) /\ Cardinality(p.slots) < Size /\ Len(p.threads) < MaxThreads =>
                  DrainOnce(p) = Spawn(p)
           /\ p.queue # {} /\ NoneIdle(p) /\ ~(Cardinality(p.slots) < Size /\ Len(p.threads) < MaxThreads) =>
                  DrainOnce(p) = p
<1>1. p.queue = {} => DrainOnce(p) = p
  BY DEF DrainOnce
<1>2. ASSUME p.queue # {}, \E s \in p.slots : Idle(s)
      PROVE  \E s \in p.slots : Idle(s) /\ DrainOnce(p) = Assign(p, s)
  <2>. DEFINE s == CHOOSE s \in p.slots : Idle(s) /\ \A o \in p.slots : Idle(o) => s.thread <= o.thread
  <2>1. DrainOnce(p) = Assign(p, s)  BY <1>2 DEF DrainOnce
  <2>2. s \in p.slots /\ Idle(s)  BY <1>2, FirstIdle
  <2>. HIDE DEF s
  <2>. QED  BY <2>1, <2>2
<1>3. p.queue # {} /\ NoneIdle(p) /\ Cardinality(p.slots) < Size /\ Len(p.threads) < MaxThreads => DrainOnce(p) = Spawn(p)
  BY DEF DrainOnce, NoneIdle
<1>4. p.queue # {} /\ NoneIdle(p) /\ ~(Cardinality(p.slots) < Size /\ Len(p.threads) < MaxThreads) => DrainOnce(p) = p
  BY DEF DrainOnce, NoneIdle
<1>. QED  BY <1>1, <1>2, <1>3, <1>4

\* How far an operation may leave the pool from being settled: a job to assign, or a thread to
\* start before.
OneJob(p) == \E j \in Nat : p.queue \subseteq {j}
OneIdle(p) == \E s \in p.slots : \A o \in p.slots : Idle(o) => o = s
NearlySettled(p) == OneJob(p) \/ (OneIdle(p) /\ AtCapacity(p))
ToBeStarted(p) ==
    /\ NoneIdle(p) /\ ~AtCapacity(p)
    /\ OneJob(p) \/ Cardinality(p.slots) + 1 >= Size \/ Len(p.threads) + 1 >= MaxThreads

LEMMA Measures ==
    ASSUME NEW js, NEW p, Sound(p, js)
    PROVE  Cardinality(p.slots) \in Nat /\ Len(p.threads) \in Nat /\ p.slots \in SUBSET Slot /\ Size \in Nat /\ MaxThreads \in Nat
BY FS_CardinalityType, WorkerPoolAssumption DEF Sound, WithinLimits, PoolShape

\* A settled pool stays as it is.
LEMMA SettledRests ==
    ASSUME ~closed, NEW js, NEW p, Sound(p, js), Settled(p)
    PROVE  DrainOnce(p) = p
<1>1. p.slots \in SUBSET Slot
  BY Measures
<1>2. CASE p.queue = {}
  BY <1>1, <1>2, RoundIs
<1>3. CASE p.queue # {}
  <2>1. NoneIdle(p) /\ ~(Cardinality(p.slots) < Size /\ Len(p.threads) < MaxThreads)
    BY <1>3, Measures DEF Settled, AtCapacity
  <2>. QED  BY <1>1, <1>3, <2>1, RoundIs
<1>. QED  BY <1>2, <1>3

\* A pool with a job to assign is settled after one round.
LEMMA OneRound ==
    ASSUME ~closed, jobs' \in Seq(JobState), NEW p, Sound(p, jobs'), p.queue # {}, \E s \in p.slots : Idle(s), NearlySettled(p)
    PROVE  Sound(DrainOnce(p), jobs') /\ Settled(DrainOnce(p))
<1>1. PICK s \in p.slots : Idle(s) /\ DrainOnce(p) = Assign(p, s)
  BY Measures, RoundIs
<1>. DEFINE q == DrainOnce(p)
<1>2. /\ Sound(q, jobs')
      /\ Cardinality(q.slots) = Cardinality(p.slots) /\ Len(q.threads) = Len(p.threads)
      /\ q.queue = p.queue \ {First(p.queue)} /\ First(p.queue) \in p.queue
      /\ \A o \in q.slots : Idle(o) => o \in p.slots \ {s}
  BY <1>1, AssignKeeps
<1>3. CASE OneJob(p)
  BY <1>2, <1>3 DEF OneJob, Settled
<1>4. CASE OneIdle(p) /\ AtCapacity(p)
  BY <1>1, <1>2, <1>4 DEF OneIdle, AtCapacity, Settled, NoneIdle
<1>. QED  BY <1>2, <1>3, <1>4 DEF NearlySettled

\* A pool with a thread to start is settled after two.
LEMMA TwoRounds ==
    ASSUME ~closed, jobs' \in Seq(JobState), NEW p, Sound(p, jobs'), p.queue # {}, ToBeStarted(p)
    PROVE  LET q == DrainOnce(DrainOnce(p)) IN Sound(q, jobs') /\ Settled(q)
<1>. DEFINE q == DrainOnce(p)
<1>1. Cardinality(p.slots) < Size /\ Len(p.threads) < MaxThreads
  BY Measures DEF ToBeStarted, AtCapacity
<1>2. q = Spawn(p)
  BY <1>1, Measures, RoundIs DEF ToBeStarted
<1>3. /\ Sound(q, jobs')
      /\ Cardinality(q.slots) = Cardinality(p.slots) + 1 /\ Len(q.threads) = Len(p.threads) + 1
      /\ q.queue = p.queue
      /\ \E s \in q.slots : Idle(s) /\ q.slots = p.slots \cup {s}
  BY <1>1, <1>2, SpawnKeeps
<1>4. OneIdle(q)
  BY <1>3 DEF OneIdle, ToBeStarted, NoneIdle
<1>5. NearlySettled(q)
  BY <1>3, <1>4 DEF NearlySettled, OneJob, AtCapacity, ToBeStarted
<1>. HIDE DEF q
<1>6. Sound(DrainOnce(q), jobs') /\ Settled(DrainOnce(q))
  BY <1>3, <1>5, OneRound
<1>. QED  BY <1>6 DEF q

\* So three rounds are enough, whatever the operation did.
LEMMA DrainSettles ==
    ASSUME ~closed, jobs' \in Seq(JobState), NEW p, Sound(p, jobs'),
           Settled(p) \/ (NearlySettled(p) /\ \E s \in p.slots : Idle(s)) \/ ToBeStarted(p)
    PROVE  Sound(Drained(p), jobs') /\ Settled(Drained(p))
<1>1. CASE Settled(p)
  BY <1>1, SettledRests DEF Drained
<1>2. CASE ~Settled(p) /\ NearlySettled(p) /\ \E s \in p.slots : Idle(s)
  <2>1. Sound(DrainOnce(p), jobs') /\ Settled(DrainOnce(p))
    BY <1>2, OneRound DEF Settled
  <2>. DEFINE q == DrainOnce(p)
  <2>. HIDE DEF q
  <2>2. DrainOnce(q) = q
    BY <2>1, SettledRests DEF q
  <2>. QED  BY <2>1, <2>2 DEF Drained, q
<1>3. CASE ~Settled(p) /\ ToBeStarted(p)
  <2>. DEFINE q == DrainOnce(DrainOnce(p))
  <2>1. Sound(q, jobs') /\ Settled(q)
    BY <1>3, TwoRounds DEF Settled
  <2>. HIDE DEF q
  <2>2. DrainOnce(q) = q
    BY <2>1, SettledRests
  <2>. QED  BY <2>1, <2>2 DEF Drained, q
<1>. QED  BY <1>1, <1>2, <1>3

------------------------------------------------------------------------------
(* The worker pool: what the operations do to it before they drain *)

LEMMA PoolOf == \A p \in PoolShape : Pool(p.slots, p.queue, p.threads) = p
BY DEF Pool, PoolShape

\* Threads that have posted an answer or died, but work on nothing else.
Quieter(ts, us) ==
    /\ us \in Seq(Thread) /\ Len(us) = Len(ts)
    /\ \A t \in 1..Len(ts) : (us[t].alive => ts[t].alive) /\ us[t].work \in {ts[t].work, NoTask}

LEMMA QuieterThreads ==
    ASSUME NEW js, NEW p, Sound(p, js), NEW us, Quieter(p.threads, us), NEW q, q = Pool(p.slots, p.queue, us)
    PROVE  Sound(q, js)
<1>1. q.slots = p.slots /\ q.queue = p.queue /\ q.threads = us /\ q \in PoolShape
  BY PoolFields DEF Sound, PoolShape, Quieter
<1>2. \A s \in p.slots : s.thread \in 1..Len(p.threads)
  BY DEF Sound, ThreadsHaveSlots
<1>3. ThreadsHaveSlots(q)
  BY <1>1 DEF Sound, ThreadsHaveSlots, Quieter
<1>4. WorkIsHeld(q, js)
  BY <1>1, <1>2 DEF Sound, WorkIsHeld, Quieter
<1>. QED  BY <1>1, <1>3, <1>4 DEF Sound, WithinLimits

\* A job ends.
Ended(js, ks, j) ==
    /\ ks \in Seq(JobState) /\ Len(ks) = Len(js)
    /\ \A k \in 1..Len(js) : IF k = j THEN ks[k].ended # "open" ELSE ks[k].ended = js[k].ended

\* A slot gives up its job, if it has one.
LEMMA SlotFreed ==
    ASSUME NEW js, NEW ks, NEW p, Sound(p, js), NEW s \in p.slots, Ended(js, ks, s.job),
           NEW new \in Slot, new.thread = s.thread, new.job = NoTask
    PROVE  /\ Sound(Pool((p.slots \ {s}) \cup {new}, p.queue, p.threads), ks)
           /\ Cardinality((p.slots \ {s}) \cup {new}) = Cardinality(p.slots)
<1>. DEFINE q == Pool((p.slots \ {s}) \cup {new}, p.queue, p.threads)
            ss == (p.slots \ {s}) \cup {new}
<1>1. p.slots \in SUBSET Slot /\ p.queue \subseteq Nat /\ p.threads \in Seq(Thread) /\ IsFiniteSet(p.slots) /\ s \in Slot
  BY DEF Sound, PoolShape, WithinLimits
<1>2. q.slots = ss /\ q.queue = p.queue /\ q.threads = p.threads /\ q \in PoolShape
  <2>1. ss \subseteq Slot  BY <1>1
  <2>. HIDE DEF ss
  <2>. QED  BY <1>1, <2>1, PoolFields DEF ss
<1>3. IsFiniteSet(ss) /\ Cardinality(ss) = Cardinality(p.slots) /\ \A r, o \in ss : r.thread = o.thread => r = o
  <2>1. \A r, o \in p.slots : r.thread = o.thread => r = o  BY DEF Sound, ThreadsHaveSlots
  <2>. QED  BY <1>1, <2>1, SlotTurns, Zenon
<1>4. ThreadsHaveSlots(q)
  <2>1. \A o \in ss : o.thread \in 1..Len(p.threads)  BY DEF Sound, ThreadsHaveSlots
  <2>2. ASSUME NEW t \in 1..Len(p.threads), p.threads[t].alive PROVE \E o \in ss : o.thread = t
    <3>1. PICK o \in p.slots : o.thread = t  BY <2>2 DEF Sound, ThreadsHaveSlots
    <3>. QED  BY <3>1
  <2>. QED  BY <1>2, <1>3, <2>1, <2>2 DEF ThreadsHaveSlots
<1>5. WorkIsHeld(q, ks)
  <2>1. \A o \in ss : o.job # NoTask => o \in p.slots /\ o # s
    OBVIOUS
  <2>2. \A j \in p.queue : j \in 1..Len(js) /\ j # NoTask  BY DEF Sound, WorkIsHeld, NoTask
  <2>3. ASSUME NEW j \in 1..Len(js)
        PROVE  ks[j].ended = "open" <=> j \in p.queue \/ \E o \in ss : o.job = j
    <3>1. j # NoTask  BY DEF NoTask
    <3>2. js[j].ended = "open" <=> j \in p.queue \/ \E o \in p.slots : o.job = j  BY DEF Sound, WorkIsHeld
    <3>3. CASE j = s.job
      <4>1. j \notin p.queue  BY <3>3 DEF Sound, WorkIsHeld
      <4>2. \A o \in p.slots : o.job = j => o = s  BY <3>1, <3>3 DEF Sound, WorkIsHeld
      <4>3. ~\E o \in ss : o.job = j  BY <3>1, <4>2
      <4>. QED  BY <3>3, <4>1, <4>3 DEF Ended
    <3>4. CASE j # s.job
      <4>1. (\E o \in ss : o.job = j) <=> \E o \in p.slots : o.job = j  BY <3>1, <3>4
      <4>. QED  BY <3>2, <3>4, <4>1 DEF Ended
    <3>. QED  BY <3>3, <3>4
  <2>4. Len(ks) = Len(js)  BY DEF Ended
  <2>. QED  BY <1>2, <2>1, <2>2, <2>3, <2>4 DEF Sound, WorkIsHeld
<1>. QED  BY <1>2, <1>3, <1>4, <1>5 DEF Sound, WithinLimits

\* A job that waits, or is held by nobody, ends.
LEMMA JobDropped ==
    ASSUME NEW js, NEW ks, NEW p, Sound(p, js), NEW j, \A s \in p.slots : s.job # j, Ended(js, ks, j),
           NEW q, q = Pool(p.slots, p.queue \ {j}, p.threads)
    PROVE  Sound(q, ks)
<1>1. q.slots = p.slots /\ q.queue = p.queue \ {j} /\ q.threads = p.threads /\ q \in PoolShape
  <2>1. p.slots \subseteq Slot /\ p.queue \ {j} \subseteq Nat /\ p.threads \in Seq(Thread)  BY DEF Sound, PoolShape
  <2>. QED  BY <2>1, PoolFields
<1>2. ThreadsHaveSlots(q)
  BY <1>1 DEF Sound, ThreadsHaveSlots
<1>3. WorkIsHeld(q, ks)
  <2>1. ASSUME NEW k \in 1..Len(js)
        PROVE  ks[k].ended = "open" <=> k \in p.queue \ {j} \/ \E s \in p.slots : s.job = k
    BY DEF Sound, WorkIsHeld, Ended
  <2>2. Len(ks) = Len(js)  BY DEF Ended
  <2>. QED  BY <1>1, <2>1, <2>2 DEF Sound, WorkIsHeld
<1>. QED  BY <1>1, <1>2, <1>3 DEF Sound, WithinLimits

\* A terminated thread's slot is given up.
LEMMA SlotGiven ==
    ASSUME NEW js, NEW p, Sound(p, js), NEW s \in p.slots, s.retired, ~p.threads[s.thread].alive,
           NEW q, q = Pool(p.slots \ {s}, p.queue, p.threads)
    PROVE  Sound(q, js) /\ Cardinality(q.slots) = Cardinality(p.slots) - 1
<1>. DEFINE ss == p.slots \ {s}
<1>1. ss \subseteq Slot /\ p.queue \subseteq Nat /\ p.threads \in Seq(Thread) /\ IsFiniteSet(p.slots)
  BY DEF Sound, PoolShape, WithinLimits
<1>2. q.slots = ss /\ q.queue = p.queue /\ q.threads = p.threads /\ q \in PoolShape
  <2>. HIDE DEF ss
  <2>. QED  BY <1>1, PoolFields DEF ss
<1>3. IsFiniteSet(ss) /\ Cardinality(ss) = Cardinality(p.slots) - 1
  BY <1>1, FS_RemoveElement
<1>4. ThreadsHaveSlots(q)
  BY <1>2 DEF Sound, ThreadsHaveSlots
<1>5. s.job = NoTask
  BY DEF Sound, WorkIsHeld
<1>6. WorkIsHeld(q, js)
  <2>1. \A j \in 1..Len(js) : (\E o \in ss : o.job = j) <=> \E o \in p.slots : o.job = j  BY <1>5 DEF NoTask
  <2>. QED  BY <1>2, <2>1 DEF Sound, WorkIsHeld
<1>7. Cardinality(ss) <= Size
  BY <1>1, <1>3, FS_CardinalityType, WorkerPoolAssumption DEF Sound, WithinLimits
<1>. QED  BY <1>2, <1>3, <1>4, <1>6, <1>7 DEF Sound, WithinLimits

\* A job is asked for.
LEMMA JobAdded ==
    ASSUME NEW js \in Seq(JobState), NEW p, Sound(p, js), NEW new \in JobState,
           NEW q, q = IF new.ended = "open" THEN Pool(p.slots, p.queue \cup {Len(js) + 1}, p.threads) ELSE p
    PROVE  Sound(q, Append(js, new))
<1>. DEFINE j == Len(js) + 1
            ks == Append(js, new)
            fresh == IF new.ended = "open" THEN {j} ELSE {}
<1>1. ks \in Seq(JobState) /\ Len(ks) = j /\ ks[j] = new /\ j \in Nat /\ \A k \in 1..Len(js) : ks[k] = js[k]
  OBVIOUS
<1>. HIDE DEF ks
<1>2. q.slots = p.slots /\ q.queue = p.queue \cup fresh /\ q.threads = p.threads /\ q \in PoolShape
  <2>1. p.slots \subseteq Slot /\ p.queue \subseteq Nat /\ p.queue \cup {j} \subseteq Nat /\ p.threads \in Seq(Thread)
    BY <1>1 DEF Sound, PoolShape
  <2>2. CASE new.ended = "open"
    BY <2>1, <2>2, PoolFields
  <2>3. CASE new.ended # "open"
    BY <2>3 DEF Sound
  <2>. QED  BY <2>2, <2>3
<1>3. ThreadsHaveSlots(q)
  BY <1>2 DEF Sound, ThreadsHaveSlots
<1>4. \A s \in p.slots : s.job # j
  <2>. SUFFICES ASSUME NEW s \in p.slots, s.job = j PROVE FALSE
    OBVIOUS
  <2>1. j # NoTask  BY DEF NoTask
  <2>2. j \in 1..Len(js)  BY <2>1 DEF Sound, WorkIsHeld
  <2>. QED  BY <2>2
<1>5. j \notin p.queue
  BY DEF Sound, WorkIsHeld
<1>6. WorkIsHeld(q, ks)
  <2>1. \A k \in 1..Len(js) : js[k].ended = "open" <=> k \in p.queue \/ \E s \in p.slots : s.job = k
    BY DEF Sound, WorkIsHeld
  <2>2. ASSUME NEW k \in 1..Len(ks)
        PROVE  ks[k].ended = "open" <=> k \in p.queue \cup fresh \/ \E s \in p.slots : s.job = k
    <3>1. CASE k = j  BY <1>1, <1>4, <1>5, <3>1
    <3>2. CASE k # j
      <4>1. k \in 1..Len(js)  BY <1>1, <3>2
      <4>. QED  BY <1>1, <2>1, <3>2, <4>1
    <3>. QED  BY <3>1, <3>2
  <2>3. 1..Len(js) \subseteq 1..Len(ks) /\ fresh \subseteq 1..Len(ks)  BY <1>1
  <2>. QED  BY <1>2, <1>4, <2>2, <2>3 DEF Sound, WorkIsHeld
<1>. QED  BY <1>2, <1>3, <1>6 DEF Sound, WithinLimits, ks

------------------------------------------------------------------------------
(* The worker pool: its operations *)

LEMMA HereFields ==
    ASSUME PoolInv
    PROVE  /\ Here.slots = slots /\ Here.queue = queue /\ Here.threads = threads
           /\ slots \in SUBSET Slot /\ queue \in SUBSET Nat /\ threads \in Seq(Thread) /\ IsFiniteSet(slots)
           /\ Here \in PoolShape
BY PoolFields DEF PoolInv, Here, Sound, PoolShape, WithinLimits

\* Every operation that drains leaves a settled pool.
LEMMA DrainKeeps ==
    ASSUME PoolInv, ~closed, UNCHANGED closed, jobs' \in Seq(JobState), NEW ss, NEW q, NEW ts, Drain(ss, q, ts),
           NEW p, p = Pool(ss, q, ts), Sound(p, jobs'),
           Settled(p) \/ (NearlySettled(p) /\ \E s \in p.slots : Idle(s)) \/ ToBeStarted(p)
    PROVE  PoolInv'
<1>. DEFINE d == Drained(p)
<1>1. Sound(d, jobs') /\ Settled(d)
  BY DrainSettles
<1>2. slots' = d.slots /\ queue' = d.queue /\ threads' = d.threads
  BY DEF Drain
<1>. HIDE DEF d
<1>3. Here' = d
  BY <1>1, <1>2, PoolOf DEF Here, Sound
<1>. QED  BY <1>1, <1>3 DEF PoolInv

\* An operation that does not drain.
LEMMA RestKeeps ==
    ASSUME UNCHANGED closed, closed \in BOOLEAN, jobs' \in Seq(JobState), Sound(Here', jobs'), Settled(Here'),
           closed => slots' = {} /\ queue' = {}
    PROVE  PoolInv'
BY DEF PoolInv

LEMMA PoolInitially == PoolInit => PoolInv
<1>. SUFFICES ASSUME PoolInit PROVE PoolInv
  OBVIOUS
<1>1. Here.slots = {} /\ Here.queue = {} /\ Here.threads = << >> /\ Here \in PoolShape
  <2>1. << >> \in Seq(Thread)
    OBVIOUS
  <2>2. Here = Pool({}, {}, << >>)
    BY DEF PoolInit, Here
  <2>3. {} \subseteq Slot /\ {} \subseteq Nat
    OBVIOUS
  <2>4. Here.slots = {}  BY <2>2, PoolFields
  <2>5. Here.threads = << >>  BY <2>2, PoolFields
  <2>6. Here.queue = {}  BY <2>2, PoolFields
  <2>7. Pool({}, {}, << >>) \in PoolShape  BY <2>1, <2>3 DEF Pool, PoolShape
  <2>. QED  BY <2>1, <2>2, <2>4, <2>5, <2>6, <2>7
<1>2. WithinLimits(Here)
  BY <1>1, FS_EmptySet, WorkerPoolAssumption DEF WithinLimits
<1>3. ThreadsHaveSlots(Here) /\ WorkIsHeld(Here, jobs)
  BY <1>1 DEF ThreadsHaveSlots, WorkIsHeld, PoolInit
<1>4. jobs \in Seq(JobState) /\ closed \in BOOLEAN /\ slots = {} /\ queue = {}
  <2>1. jobs = << >> /\ closed = FALSE /\ slots = {} /\ queue = {}
    BY DEF PoolInit
  <2>2. << >> \in Seq(JobState)
    OBVIOUS
  <2>3. jobs \in Seq(JobState)
    BY <2>1, <2>2, Zenon
  <2>. QED  BY <2>1, <2>3
<1>. QED  BY <1>1, <1>2, <1>3, <1>4 DEF PoolInv, Sound, Settled

LEMMA RunKeeps ==
    ASSUME PoolInv, NEW priority \in {0, 1}, Run(priority)
    PROVE  PoolInv'
<1>. DEFINE full == ~(\E s \in slots : Idle(s)) /\ Cardinality(slots) >= Size /\ Cardinality(queue) >= MaxQueue
            new == [priority |-> priority, ended |-> IF closed \/ full THEN "failed" ELSE "open"]
            j == Len(jobs) + 1
<1>1. new \in JobState /\ jobs' = Append(jobs, new) /\ UNCHANGED closed /\ jobs \in Seq(JobState)
  BY DEF Run, JobState, PoolInv
<1>2. jobs' \in Seq(JobState) /\ j \in Nat
  BY <1>1
<1>3. CASE closed \/ full
  <2>1. UNCHANGED <<slots, queue, threads>>  BY <1>3 DEF Run
  <2>2. new.ended # "open"  BY <1>3
  <2>. HIDE DEF new, full
  <2>3. Sound(Here, jobs')  BY <1>1, <2>2, JobAdded DEF PoolInv
  <2>4. Here' = Here  BY <2>1 DEF Here
  <2>. QED  BY <1>1, <1>2, <2>1, <2>3, <2>4, RestKeeps DEF PoolInv
<1>4. CASE ~(closed \/ full)
  <2>. DEFINE p == Pool(slots, queue \cup {j}, threads)
  <2>1. Drain(slots, queue \cup {j}, threads)  BY <1>4 DEF Run
  <2>2. new.ended = "open" /\ ~closed  BY <1>4
  <2>. HIDE DEF new
  <2>3. Sound(p, jobs')
    <3>. HIDE DEF p
    <3>1. p = Pool(Here.slots, Here.queue \cup {j}, Here.threads)  BY HereFields DEF p
    <3>. QED  BY <1>1, <2>2, <3>1, JobAdded DEF PoolInv
  <2>4. p.slots = slots /\ p.queue = queue \cup {j} /\ p.threads = threads  BY PoolFields
  <2>. HIDE DEF p
  <2>5. OneJob(p) \/ queue # {}  BY <1>2, <2>4 DEF OneJob
  <2>6. CASE \E s \in slots : Idle(s)
    <3>1. queue = {}  BY <2>6, HereFields DEF PoolInv, Settled, NoneIdle
    <3>. QED  BY <1>1, <1>2, <2>1, <2>2, <2>3, <2>4, <2>5, <2>6, <3>1, DrainKeeps DEF NearlySettled, p
  <2>7. CASE ~\E s \in slots : Idle(s)
    <3>1. NoneIdle(p)  BY <2>4, <2>7 DEF NoneIdle
    <3>2. AtCapacity(p) <=> AtCapacity(Here)  BY <2>4, HereFields DEF AtCapacity
    <3>3. CASE AtCapacity(p)
      <4>1. Settled(p)  BY <3>1, <3>3 DEF Settled
      <4>. QED  BY <1>1, <1>2, <2>1, <2>2, <2>3, <4>1, DrainKeeps DEF p
    <3>4. CASE ~AtCapacity(p)
      <4>1. queue = {}  BY <3>2, <3>4, HereFields DEF PoolInv, Settled
      <4>2. ToBeStarted(p)  BY <2>5, <3>1, <3>4, <4>1 DEF ToBeStarted
      <4>. QED  BY <1>1, <1>2, <2>1, <2>2, <2>3, <4>2, DrainKeeps DEF p
    <3>. QED  BY <3>3, <3>4
  <2>. QED  BY <2>6, <2>7
<1>. QED  BY <1>3, <1>4

\* One job fails: EXCEPT on its state.
LEMMA FailedJob ==
    ASSUME PoolInv, NEW j \in 1..Len(jobs), NEW ended \in {"answered", "failed"}, jobs' = [jobs EXCEPT ![j].ended = ended]
    PROVE  jobs' \in Seq(JobState) /\ Ended(jobs, jobs', j)
<1>1. jobs \in Seq(JobState) /\ \A k \in 1..Len(jobs) : jobs[k] \in JobState
  BY DEF PoolInv
<1>. DEFINE new == [jobs[j] EXCEPT !.ended = ended]
<1>2. new \in JobState /\ new.ended = ended
  BY <1>1 DEF JobState
<1>3. jobs' = [jobs EXCEPT ![j] = new]
  BY <1>1
<1>. HIDE DEF new
<1>4. jobs' \in Seq(JobState) /\ Len(jobs') = Len(jobs)
  BY <1>1, <1>2, <1>3
<1>5. \A k \in 1..Len(jobs) : jobs'[k] = IF k = j THEN new ELSE jobs[k]
  BY <1>1, <1>2, <1>3
<1>. QED  BY <1>2, <1>4, <1>5 DEF Ended

LEMMA GiveUpKeeps ==
    ASSUME PoolInv, ~closed, UNCHANGED closed, NEW j \in 1..Len(jobs), GiveUpOn(j)
    PROVE  PoolInv'
<1>. DEFINE ss == Retire(SlotOf(j))
            p == Pool(ss, queue \ {j}, threads)
<1>1. jobs' \in Seq(JobState) /\ Ended(jobs, jobs', j)
  BY FailedJob DEF GiveUpOn
<1>2. Drain(ss, queue \ {j}, threads)
  BY DEF GiveUpOn
<1>3. j # NoTask
  BY DEF NoTask
<1>4. CASE SlotOf(j) = {}
  <2>1. ss = slots /\ \A s \in slots : s.job # j  BY <1>4 DEF Retire, SlotOf
  <2>2. p = Pool(Here.slots, Here.queue \ {j}, Here.threads)  BY <2>1, HereFields
  <2>3. p.slots = slots /\ p.queue = queue \ {j} /\ p.threads = threads  BY <2>1, PoolFields
  <2>. HIDE DEF p, ss
  <2>4. Sound(p, jobs')  BY <1>1, <2>1, <2>2, HereFields, JobDropped DEF PoolInv
  <2>5. Settled(p)  BY <2>3, HereFields DEF PoolInv, Settled, NoneIdle, AtCapacity
  <2>. QED  BY <1>1, <1>2, <2>4, <2>5, DrainKeeps DEF p
<1>5. CASE SlotOf(j) # {}
  <2>1. PICK s \in slots : s.job = j  BY <1>5 DEF SlotOf
  <2>2. SlotOf(j) = {s}  BY <1>3, <2>1, HereFields DEF SlotOf, PoolInv, Sound, WorkIsHeld
  <2>. DEFINE new == [s EXCEPT !.job = NoTask, !.retired = TRUE]
  <2>3. new \in Slot /\ new.thread = s.thread /\ new.job = NoTask /\ ~Idle(new)
    BY HereFields DEF Slot, NoTask, Idle
  <2>4. ss = (slots \ {s}) \cup {new}  BY <2>2 DEF Retire
  <2>5. queue \ {j} = queue  BY <2>1, HereFields DEF PoolInv, Sound, WorkIsHeld
  <2>. HIDE DEF new, ss
  <2>6. p = Pool((Here.slots \ {s}) \cup {new}, Here.queue, Here.threads)  BY <2>4, <2>5, HereFields
  <2>7. p.slots = ss /\ p.queue = queue /\ p.threads = threads
    <3>1. p.slots = ss /\ p.queue = queue \ {j} /\ p.threads = threads  BY PoolFields
    <3>. QED  BY <2>5, <3>1
  <2>. HIDE DEF p
  <2>8. Sound(p, jobs') /\ Cardinality(p.slots) = Cardinality(slots)
    <3>1. s \in Here.slots /\ Sound(Here, jobs) /\ Ended(jobs, jobs', s.job)  BY <1>1, <2>1, HereFields DEF PoolInv
    <3>2. /\ Sound(Pool((Here.slots \ {s}) \cup {new}, Here.queue, Here.threads), jobs')
          /\ Cardinality((Here.slots \ {s}) \cup {new}) = Cardinality(Here.slots)
      <4>1. Sound(Pool((Here.slots \ {s}) \cup {new}, Here.queue, Here.threads), jobs')
        BY <2>3, <3>1, SlotFreed
      <4>2. Cardinality((Here.slots \ {s}) \cup {new}) = Cardinality(Here.slots)
        <5>1. \A r, o \in Here.slots : r.thread = o.thread => r = o  BY <3>1 DEF Sound, ThreadsHaveSlots
        <5>2. Here.slots \in SUBSET Slot /\ IsFiniteSet(Here.slots)  BY HereFields
        <5>. QED  BY <2>3, <3>1, <5>1, <5>2, SlotTurns, Zenon
      <4>. QED  BY <4>1, <4>2
    <3>. QED  BY <2>4, <2>6, <2>7, <3>2, HereFields
  <2>9. Settled(p)
    BY <2>3, <2>4, <2>7, <2>8, HereFields DEF PoolInv, Settled, NoneIdle, AtCapacity
  <2>. QED  BY <1>1, <1>2, <2>8, <2>9, DrainKeeps DEF p
<1>. QED  BY <1>4, <1>5

\* A closed pool has nothing open.
LEMMA OpenIsHeld ==
    ASSUME PoolInv, NEW j \in 1..Len(jobs), Pending(j)
    PROVE  ~closed
BY HereFields DEF PoolInv, Sound, WorkIsHeld, Pending

LEMMA EndKeeps ==
    ASSUME PoolInv, NEW j \in DOMAIN jobs, End(j)
    PROVE  PoolInv'
<1>1. j \in 1..Len(jobs)
  BY DEF PoolInv
<1>. QED  BY <1>1, OpenIsHeld, GiveUpKeeps DEF End

\* One thread changes.
LEMMA ThreadChanges ==
    ASSUME PoolInv, NEW t \in 1..Len(threads), NEW new \in Thread, new.alive => threads[t].alive,
           new.work \in {threads[t].work, NoTask}
    PROVE  LET us == [threads EXCEPT ![t] = new] IN
           us \in Seq(Thread) /\ Quieter(threads, us) /\ Sound(Pool(slots, queue, us), jobs)
<1>. DEFINE us == [threads EXCEPT ![t] = new]
<1>1. threads \in Seq(Thread) /\ Here.threads = threads /\ Here.slots = slots /\ Here.queue = queue
  BY HereFields
<1>2. us \in Seq(Thread) /\ Len(us) = Len(threads)
  BY <1>1
<1>3. \A i \in 1..Len(threads) : us[i] = IF i = t THEN new ELSE threads[i]
  BY <1>1
<1>. HIDE DEF us
<1>4. Quieter(threads, us)
  BY <1>2, <1>3 DEF Quieter
<1>5. Sound(Pool(Here.slots, Here.queue, us), jobs)
  BY <1>1, <1>4, QuieterThreads DEF PoolInv
<1>. QED  BY <1>1, <1>2, <1>4, <1>5 DEF us

LEMMA ThreadStepKeeps ==
    ASSUME PoolInv, NEW t \in 1..Len(threads), NEW new \in Thread, new.alive => threads[t].alive,
           new.work \in {threads[t].work, NoTask}, threads' = [threads EXCEPT ![t] = new],
           UNCHANGED <<jobs, queue, slots, closed>>
    PROVE  PoolInv'
<1>. DEFINE p == Pool(slots, queue, threads')
<1>1. threads' \in Seq(Thread) /\ Quieter(threads, threads') /\ Sound(p, jobs)
  BY ThreadChanges
<1>2. p.slots = slots /\ p.queue = queue /\ p.threads = threads'
  BY PoolFields
<1>. HIDE DEF p
<1>3. Settled(p)
  BY <1>1, <1>2, HereFields DEF PoolInv, Settled, NoneIdle, AtCapacity, Quieter
<1>4. Here' = p
  BY DEF Here, p
<1>. QED  BY <1>1, <1>3, <1>4, RestKeeps DEF PoolInv

LEMMA ThreadFields ==
    ASSUME PoolInv, NEW t \in 1..Len(threads)
    PROVE  threads[t] \in Thread
BY HereFields

LEMMA MessageKeeps ==
    ASSUME PoolInv, NEW t \in DOMAIN threads, NEW j \in DOMAIN jobs, Message(t, j)
    PROVE  PoolInv'
<1>. DEFINE mine == {s \in slots : s.thread = t /\ ~s.retired /\ s.job = j}
            new == [threads[t] EXCEPT !.posted = @ \ {j}]
            read == [threads EXCEPT ![t] = new]
<1>1. t \in 1..Len(threads) /\ j \in 1..Len(jobs)
  BY HereFields DEF PoolInv
<1>2. new \in Thread /\ new.alive = threads[t].alive /\ new.work = threads[t].work
  BY <1>1, ThreadFields DEF Thread
<1>3. [threads EXCEPT ![t].posted = @ \ {j}] = read
  BY <1>1, HereFields
<1>4. CASE mine = {} /\ threads' = read /\ UNCHANGED <<jobs, queue, slots>>
  <2>. HIDE DEF new
  <2>. QED  BY <1>1, <1>2, <1>4, ThreadStepKeeps DEF Message
<1>5. ASSUME NEW s \in mine, NEW ended \in {"answered", "failed"}, jobs' = [jobs EXCEPT ![j].ended = ended],
             Drain((slots \ {s}) \cup {[s EXCEPT !.job = NoTask]}, queue, read)
      PROVE  PoolInv'
  <2>. DEFINE free == [s EXCEPT !.job = NoTask]
              ss == (slots \ {s}) \cup {free}
              p == Pool(slots, queue, read)
              q == Pool(ss, queue, read)
  <2>1. s \in slots /\ s \in Slot /\ s.job = j /\ ~s.retired
    BY HereFields
  <2>2. free \in Slot /\ free.thread = s.thread /\ free.job = NoTask /\ Idle(free)
    BY <2>1 DEF Slot, NoTask, Idle
  <2>3. ~closed /\ UNCHANGED closed
    BY <2>1 DEF PoolInv, Message
  <2>4. jobs' \in Seq(JobState) /\ Ended(jobs, jobs', j)
    BY <1>1, <1>5, FailedJob
  <2>. HIDE DEF new, free
  <2>5. read \in Seq(Thread) /\ Quieter(threads, read) /\ Sound(p, jobs)
    BY <1>1, <1>2, ThreadChanges
  <2>. HIDE DEF read
  <2>6. p.slots = slots /\ p.queue = queue /\ p.threads = read
    BY PoolFields
  <2>7. q.slots = ss /\ q.queue = queue /\ q.threads = read
    BY PoolFields
  <2>. HIDE DEF p
  <2>8. Sound(q, jobs')
    <3>1. s \in p.slots /\ Ended(jobs, jobs', s.job)  BY <2>1, <2>4, <2>6
    <3>2. Sound(Pool((p.slots \ {s}) \cup {free}, p.queue, p.threads), jobs')
      BY <2>2, <2>5, <3>1, SlotFreed
    <3>. QED  BY <2>6, <3>2
  <2>9. Cardinality(ss) = Cardinality(slots)
    <3>1. \A r, o \in slots : r.thread = o.thread => r = o  BY HereFields DEF PoolInv, Sound, ThreadsHaveSlots
    <3>. QED  BY <2>1, <2>2, <3>1, HereFields, SlotTurns, Zenon
  <2>. HIDE DEF q
  <2>10. CASE queue = {}
    <3>1. Settled(q)  BY <2>7, <2>10 DEF Settled
    <3>. QED  BY <1>5, <2>3, <2>4, <2>8, <3>1, DrainKeeps DEF q, free
  <2>11. CASE queue # {}
    <3>1. NoneIdle(Here) /\ AtCapacity(Here)  BY <2>11, HereFields DEF PoolInv, Settled
    <3>2. AtCapacity(q)  BY <2>5, <2>7, <2>9, <3>1, HereFields DEF AtCapacity, Quieter
    <3>3. \A o \in q.slots : Idle(o) => o = free  BY <2>7, <3>1, HereFields DEF NoneIdle
    <3>4. free \in q.slots  BY <2>7
    <3>5. NearlySettled(q) /\ \E o \in q.slots : Idle(o)
      BY <2>2, <3>2, <3>3, <3>4 DEF NearlySettled, OneIdle
    <3>. QED  BY <1>5, <2>3, <2>4, <2>8, <3>5, DrainKeeps DEF q, free
  <2>. QED  BY <2>10, <2>11
<1>. QED  BY <1>3, <1>4, <1>5 DEF Message

LEMMA FailKeeps ==
    ASSUME PoolInv, NEW t \in DOMAIN threads, Fail(t)
    PROVE  PoolInv'
<1>. DEFINE mine == {s \in slots : s.thread = t /\ ~s.retired}
            s == CHOOSE s \in mine : TRUE
<1>1. s \in slots /\ s.thread = t /\ ~s.retired
  BY DEF Fail
<1>2. ~closed /\ UNCHANGED closed
  BY <1>1 DEF PoolInv, Fail
<1>3. IF s.job # NoTask THEN GiveUpOn(s.job) ELSE UNCHANGED jobs /\ Drain(Retire({s}), queue, threads)
  BY DEF Fail
<1>. HIDE DEF s
<1>4. CASE s.job # NoTask
  <2>1. s.job \in 1..Len(jobs)  BY <1>1, <1>4, HereFields DEF PoolInv, Sound, WorkIsHeld
  <2>. QED  BY <1>2, <1>3, <1>4, <2>1, GiveUpKeeps
<1>5. CASE s.job = NoTask
  <2>. DEFINE new == [s EXCEPT !.job = NoTask, !.retired = TRUE]
              ss == (slots \ {s}) \cup {new}
              p == Pool(ss, queue, threads)
  <2>1. new \in Slot /\ new.thread = s.thread /\ new.job = NoTask
    BY <1>1, HereFields DEF Slot, NoTask
  <2>2. Drain(ss, queue, threads) /\ UNCHANGED jobs
    BY <1>3, <1>5 DEF Retire
  <2>. HIDE DEF new
  <2>3. Sound(p, jobs')
    <3>1. jobs' \in Seq(JobState) /\ Ended(jobs, jobs', s.job)  BY <1>5, <2>2 DEF Ended, PoolInv, NoTask
    <3>2. s \in Here.slots /\ Sound(Here, jobs)  BY <1>1, HereFields DEF PoolInv
    <3>3. Sound(Pool((Here.slots \ {s}) \cup {new}, Here.queue, Here.threads), jobs')
      BY <2>1, <3>1, <3>2, SlotFreed
    <3>. QED  BY <3>3, HereFields
  <2>4. queue = {}
    BY <1>1, <1>5, HereFields DEF PoolInv, Settled, NoneIdle, Idle
  <2>5. Settled(p)
    BY <2>4, PoolFields DEF Settled
  <2>6. jobs' \in Seq(JobState)
    BY <2>2 DEF PoolInv
  <2>. HIDE DEF p
  <2>. QED  BY <1>2, <2>2, <2>3, <2>5, <2>6, DrainKeeps DEF p
<1>. QED  BY <1>4, <1>5

LEMMA ExitedKeeps ==
    ASSUME PoolInv, NEW t \in DOMAIN threads, Exited(t)
    PROVE  PoolInv'
<1>. DEFINE mine == {s \in slots : s.thread = t /\ s.retired}
<1>1. PICK s \in slots : s.thread = t /\ s.retired
  BY DEF Exited
<1>2. mine = {s}
  BY <1>1, HereFields DEF PoolInv, Sound, ThreadsHaveSlots
<1>3. ~closed /\ UNCHANGED <<jobs, closed>> /\ Drain(slots \ {s}, queue, threads) /\ ~threads[t].alive
  BY <1>1, <1>2 DEF PoolInv, Exited
<1>. DEFINE p == Pool(slots \ {s}, queue, threads)
<1>4. p.slots = slots \ {s} /\ p.queue = queue /\ p.threads = threads
  BY PoolFields
<1>5. Sound(p, jobs) /\ Cardinality(p.slots) = Cardinality(slots) - 1
  <2>1. p = Pool(Here.slots \ {s}, Here.queue, Here.threads) /\ s \in Here.slots /\ ~Here.threads[s.thread].alive
    BY <1>1, <1>3, HereFields
  <2>. HIDE DEF p
  <2>2. Sound(p, jobs) /\ Cardinality(p.slots) = Cardinality(Here.slots) - 1
    BY <1>1, <2>1, SlotGiven DEF PoolInv
  <2>. QED  BY <2>2, HereFields
<1>. HIDE DEF p
<1>6. jobs' \in Seq(JobState) /\ Sound(p, jobs')
  BY <1>3, <1>5 DEF PoolInv
<1>7. CASE queue = {}
  <2>1. Settled(p)  BY <1>4, <1>7 DEF Settled
  <2>. QED  BY <1>3, <1>6, <2>1, DrainKeeps DEF p
<1>8. CASE queue # {}
  <2>1. NoneIdle(p) /\ AtCapacity(Here)  BY <1>4, <1>8, HereFields DEF PoolInv, Settled, NoneIdle
  <2>2. Cardinality(slots) \in Nat /\ Size \in Nat  BY HereFields, FS_CardinalityType, WorkerPoolAssumption
  <2>3. Settled(p) \/ ToBeStarted(p)
    BY <1>4, <1>5, <2>1, <2>2, HereFields DEF Settled, ToBeStarted, AtCapacity
  <2>. QED  BY <1>3, <1>6, <2>3, DrainKeeps DEF p
<1>. QED  BY <1>7, <1>8

LEMMA CloseKeeps ==
    ASSUME PoolInv, Close
    PROVE  PoolInv'
<1>1. /\ jobs' = [j \in DOMAIN jobs |-> IF Pending(j) THEN [jobs[j] EXCEPT !.ended = "failed"] ELSE jobs[j]]
      /\ queue' = {} /\ slots' = {} /\ closed' = TRUE
      /\ threads' = [t \in DOMAIN threads |-> [threads[t] EXCEPT !.alive = FALSE]]
  BY DEF Close
<1>2. jobs \in Seq(JobState) /\ threads \in Seq(Thread)
  BY HereFields DEF PoolInv
<1>3. jobs' \in Seq(JobState) /\ Len(jobs') = Len(jobs) /\ \A j \in 1..Len(jobs) : jobs'[j].ended # "open"
  <2>1. DOMAIN jobs = 1..Len(jobs) /\ Len(jobs) \in Nat /\ \A j \in 1..Len(jobs) : jobs[j] \in JobState
    BY <1>2
  <2>2. ASSUME NEW j \in 1..Len(jobs) PROVE jobs'[j] \in JobState /\ jobs'[j].ended # "open"
    <3>. DEFINE failed == [jobs[j] EXCEPT !.ended = "failed"]
    <3>1. failed \in JobState /\ failed.ended = "failed"  BY <2>1 DEF JobState
    <3>2. jobs'[j] = IF Pending(j) THEN failed ELSE jobs[j]  BY <1>1, <2>1, Zenon
    <3>. HIDE DEF failed
    <3>. QED  BY <2>1, <3>1, <3>2 DEF Pending
  <2>3. DOMAIN jobs' = 1..Len(jobs) /\ jobs' = [j \in 1..Len(jobs) |-> jobs'[j]]
    BY <1>1, <2>1, Zenon
  <2>4. jobs' \in [1..Len(jobs) -> JobState]  BY <2>2, <2>3, Zenon
  <2>. QED  BY <2>1, <2>2, <2>4
<1>4. threads' \in Seq(Thread) /\ Len(threads') = Len(threads) /\ \A t \in 1..Len(threads) : ~threads'[t].alive
  <2>1. DOMAIN threads = 1..Len(threads) /\ Len(threads) \in Nat /\ \A t \in 1..Len(threads) : threads[t] \in Thread
    BY <1>2
  <2>2. ASSUME NEW t \in 1..Len(threads) PROVE threads'[t] \in Thread /\ ~threads'[t].alive
    <3>1. [threads[t] EXCEPT !.alive = FALSE] \in Thread /\ ~[threads[t] EXCEPT !.alive = FALSE].alive
      BY <2>1 DEF Thread
    <3>2. threads'[t] = [threads[t] EXCEPT !.alive = FALSE]  BY <1>1, <2>1, Zenon
    <3>. QED  BY <3>1, <3>2, Zenon
  <2>3. DOMAIN threads' = 1..Len(threads) /\ threads' = [t \in 1..Len(threads) |-> threads'[t]]
    BY <1>1, <2>1, Zenon
  <2>4. threads' \in [1..Len(threads) -> Thread]  BY <2>2, <2>3, Zenon
  <2>. QED  BY <2>1, <2>2, <2>4
<1>5. Here'.slots = {} /\ Here'.queue = {} /\ Here'.threads = threads'
  BY <1>1, PoolFields DEF Here
<1>6. Here' \in PoolShape
  BY <1>1, <1>4 DEF Here, Pool, PoolShape
<1>7. WithinLimits(Here')
  BY <1>5, FS_EmptySet, WorkerPoolAssumption DEF WithinLimits
<1>8. ThreadsHaveSlots(Here') /\ WorkIsHeld(Here', jobs')
  BY <1>3, <1>4, <1>5 DEF ThreadsHaveSlots, WorkIsHeld
<1>9. Settled(Here') /\ closed' \in BOOLEAN
  BY <1>1, <1>5 DEF Settled
<1>. QED  BY <1>1, <1>3, <1>6, <1>7, <1>8, <1>9 DEF PoolInv, Sound

LEMMA PostAndDieKeep ==
    ASSUME PoolInv, NEW t \in DOMAIN threads, Post(t) \/ Die(t)
    PROVE  PoolInv'
<1>1. t \in 1..Len(threads) /\ threads[t] \in Thread /\ threads \in Seq(Thread)
  BY HereFields
<1>2. CASE Post(t)
  <2>. DEFINE new == [[threads[t] EXCEPT !.posted = @ \cup {threads[t].work}] EXCEPT !.work = NoTask]
  <2>1. new \in Thread /\ new.alive = threads[t].alive /\ new.work = NoTask  BY <1>1 DEF Thread, NoTask
  <2>2. threads' = [threads EXCEPT ![t] = new]  BY <1>1, <1>2 DEF Post, Thread
  <2>3. UNCHANGED <<jobs, queue, slots, closed>>  BY <1>2 DEF Post
  <2>. HIDE DEF new
  <2>. QED  BY <1>1, <2>1, <2>2, <2>3, ThreadStepKeeps
<1>3. CASE Die(t)
  <2>. DEFINE new == [[threads[t] EXCEPT !.alive = FALSE] EXCEPT !.work = NoTask]
  <2>1. new \in Thread /\ ~new.alive /\ new.work = NoTask  BY <1>1 DEF Thread, NoTask
  <2>2. threads' = [threads EXCEPT ![t] = new]  BY <1>1, <1>3 DEF Die, Thread
  <2>3. UNCHANGED <<jobs, queue, slots, closed>>  BY <1>3 DEF Die
  <2>. HIDE DEF new
  <2>. QED  BY <1>1, <2>1, <2>2, <2>3, ThreadStepKeeps
<1>. QED  BY <1>2, <1>3

LEMMA PoolStep ==
    ASSUME PoolInv, [PoolNext]_poolState
    PROVE  PoolInv'
<1>1. CASE UNCHANGED poolState
  <2>1. UNCHANGED <<jobs, queue, slots, threads, closed>>  BY <1>1 DEF poolState
  <2>2. Here' = Here  BY <2>1 DEF Here
  <2>. QED  BY <2>1, <2>2 DEF PoolInv
<1>2. CASE \E priority \in {0, 1} : Run(priority)
  BY <1>2, RunKeeps
<1>3. CASE \E j \in DOMAIN jobs : End(j)
  BY <1>3, EndKeeps
<1>4. CASE \E t \in DOMAIN threads : Fail(t) \/ Exited(t) \/ Post(t) \/ Die(t) \/ \E j \in DOMAIN jobs : Message(t, j)
  BY <1>4, FailKeeps, ExitedKeeps, PostAndDieKeep, MessageKeeps
<1>5. CASE Close
  BY <1>5, CloseKeeps
<1>. QED  BY <1>1, <1>2, <1>3, <1>4, <1>5 DEF PoolNext

\* The inductive invariant of the worker pool: threads and slots belong together, open jobs are in
\* one place, and no job waits that could be worked on.  (WorkerPool)
THEOREM PoolInvariance == PoolSpec => []PoolInv
<1>1. PoolInit => PoolInv
  BY PoolInitially
<1>2. PoolInv /\ [PoolNext]_poolState => PoolInv'
  BY PoolStep
<1>. QED  BY <1>1, <1>2, PTL DEF PoolSpec

\* Living threads have slots of their own, so there are no more of them.
LEMMA LivingThreads ==
    ASSUME PoolInv
    PROVE  ThreadsAreBounded
<1>. DEFINE Living == {t \in DOMAIN threads : threads[t].alive}
            Manned == {s \in slots : s.thread \in Living}
            of == [s \in Manned |-> s.thread]
<1>1. IsFiniteSet(slots) /\ Cardinality(slots) <= Size /\ \A t \in Living : \E s \in slots : s.thread = t
  BY HereFields DEF PoolInv, Sound, WithinLimits, ThreadsHaveSlots
<1>2. of \in Surjection(Manned, Living)
  BY <1>1 DEF Surjection
<1>3. IsFiniteSet(Manned) /\ Cardinality(Manned) <= Cardinality(slots)
  BY <1>1, FS_Subset
<1>4. IsFiniteSet(Living) /\ Cardinality(Living) <= Cardinality(Manned)
  <2>. HIDE DEF Living, Manned, of
  <2>. QED  BY <1>2, <1>3, FS_Surjection
<1>5. Cardinality(Living) \in Nat /\ Cardinality(Manned) \in Nat /\ Cardinality(slots) \in Nat /\ Size \in Nat
  BY <1>1, <1>3, <1>4, FS_CardinalityType, WorkerPoolAssumption
<1>. QED  BY <1>1, <1>3, <1>4, <1>5 DEF ThreadsAreBounded

\* However deadlines, cancellations, crashes and late answers fall, for any limits: a job ends
\* once, threads stay within the limit, and free threads take the work that waits.  (finish, retire, drain)
THEOREM ThePoolIsSound == PoolSpec => []PoolIsSound
<1>1. ASSUME PoolInv PROVE PoolIsSound
  <2>1. ThreadsAreBounded
    BY <1>1, LivingThreads
  <2>2. NobodyWaitsForNothing
    BY <1>1, HereFields DEF PoolInv, Settled, NoneIdle, AtCapacity, NobodyWaitsForNothing
  <2>3. JobsAreHeldOnce
    <3>1. WorkIsHeld(Here, jobs) /\ ThreadsHaveSlots(Here) /\ jobs \in Seq(JobState)
      BY <1>1 DEF PoolInv, Sound
    <3>2. Here.slots = slots /\ Here.queue = queue /\ Here.threads = threads
      BY <1>1, HereFields
    <3>3. \A j \in 1..Len(jobs) : SlotOf(j) # {} <=> \E s \in slots : s.job = j
      BY DEF SlotOf
    <3>. QED  BY <3>1, <3>2, <3>3 DEF WorkIsHeld, ThreadsHaveSlots, JobsAreHeldOnce, Pending
  <2>. QED  BY <2>1, <2>2, <2>3 DEF PoolIsSound
<1>. QED  BY <1>1, PoolInvariance, PTL

------------------------------------------------------------------------------
(* The puzzle calendar: the inductive invariant *)

Evidence == [kind : Nat, depth : Nat, since : Nat]
Change == [row : Row, remove : BOOLEAN, depth : 1..MaxVerifyDepth]
Stage == {"idle", "verified", "prepared", "committing"}
Prepared == [stage : Stage, changes : SUBSET Change, puzzles : SUBSET Row]

Distinct(rows) == \A r, s \in rows : r.date = s.date \/ r.position \in PositionKeys(s.position) => r = s
RejectedOut(rows, evidence, tried) ==
    \A r \in rows, e \in evidence : r.position[1] = e.kind => r.date <= Soon(e.since) \/ r.date \in tried

\* A calendar with its evidence, as it is or as a transaction will leave it.
Good(rows, evidence) ==
    /\ rows \subseteq Row /\ evidence \subseteq Evidence
    /\ Distinct(rows) /\ RejectedOut(rows, evidence, attempted)
    /\ shown \subseteq rows /\ attempted \subseteq Dates(rows)

\* A job changes a row once, and has found puzzles that go together.
GoodJob(prepared) ==
    /\ \A c, d \in prepared.changes : c.row = d.row => c = d
    /\ Distinct(prepared.puzzles)

\* Until the half minute of a transaction is over, the rows it leaves include all that is public.
TransactionStands ==
    publishing # NoTransaction =>
        /\ publishing.by \in Publisher /\ publishing.opened \in Nat
        /\ time \in {publishing.opened, publishing.opened + 1}
        /\ Good(publishing.calendar, publishing.rejections)
        /\ \A r \in calendar : r.date <= Soon(publishing.opened) => r \in publishing.calendar

CalendarInv ==
    /\ time \in Nat
    /\ job \in [Publisher -> Prepared] /\ \A p \in Publisher : GoodJob(job[p])
    /\ Good(calendar, rejections) /\ \A r \in shown : r.date <= Day(time)
    /\ TransactionStands

------------------------------------------------------------------------------
(* The puzzle calendar: its steps *)

LEMMA PositionsOfAKind ==
    ASSUME NEW p \in Nat \X {0, 1}, NEW q \in Nat \X {0, 1}
    PROVE  p \in PositionKeys(q) <=> p[1] = q[1]
<1>1. p = <<p[1], p[2]>> /\ q = <<q[1], q[2]>> /\ p[2] \in {0, 1} /\ q[2] \in {0, 1}
  OBVIOUS
<1>2. PositionKeys(q) = {<<q[1], q[2]>>, <<q[1], 1 - q[2]>>}
  BY <1>1 DEF PositionKeys, Mirrored
<1>3. p[2] = q[2] \/ p[2] = 1 - q[2]
  BY <1>1
<1>. QED  BY <1>1, <1>2, <1>3

LEMMA RowFields ==
    ASSUME NEW r \in Row
    PROVE  /\ r.date \in Nat /\ r.position \in Found /\ r.position \in Nat \X {0, 1} /\ r.position[1] \in Nat
           /\ r.depth \in 1..MaxVerifyDepth
BY CalendarAssumption DEF Row

\* Rows with the same date, or with positions of a kind, are the same.
LEMMA DistinctRows ==
    ASSUME NEW rows \in SUBSET Row
    PROVE  Distinct(rows) <=> \A r, s \in rows : r.date = s.date \/ r.position[1] = s.position[1] => r = s
<1>1. \A r, s \in rows : r.position \in PositionKeys(s.position) <=> r.position[1] = s.position[1]
  BY RowFields, PositionsOfAKind
<1>. QED  BY <1>1 DEF Distinct

\* A position with no key among others is of no kind of theirs.
LEMMA DisjointKeys ==
    ASSUME NEW p \in Nat \X {0, 1}, NEW q \in Nat \X {0, 1}, NEW keys, PositionKeys(p) \cap keys = {}, q \in keys
    PROVE  p[1] # q[1]
BY PositionsOfAKind

LEMMA KeysOfEvidence ==
    ASSUME NEW p \in Nat \X {0, 1}, NEW evidence \in SUBSET Evidence,
           PositionKeys(p) \cap RejectedHashes(evidence) = {}, NEW e \in evidence
    PROVE  p[1] # e.kind
<1>1. <<e.kind, 0>> \in Nat \X {0, 1} /\ <<e.kind, 0>>[1] = e.kind
  BY DEF Evidence
<1>2. <<e.kind, 0>> \in PositionKeys(<<e.kind, 0>>)
  BY DEF PositionKeys
<1>3. <<e.kind, 0>> \in RejectedHashes(evidence)
  BY <1>2 DEF RejectedHashes
<1>. QED  BY <1>1, <1>3, DisjointKeys

LEMMA Days ==
    ASSUME NEW t \in Nat
    PROVE  /\ Day(t) \in Nat /\ Soon(t) \in Nat /\ Day(t) <= Soon(t) /\ Soon(t) = Day(t + 1)
           /\ Day(t) <= Day(t + 1) /\ Day(t + 1) <= Day(t) + 1
BY DEF Day, Soon

\* Evidence only gets deeper: what is recorded is old, or a failure found now.
LEMMA RecordedEvidence ==
    ASSUME NEW evidence \in SUBSET Evidence, NEW failed \in SUBSET Change, time \in Nat
    PROVE  /\ Recorded(evidence, failed) \subseteq Evidence
           /\ \A e \in Recorded(evidence, failed) :
                  e \in evidence \/ (e.since = time /\ \E c \in failed : e.kind = c.row.position[1])
<1>. DEFINE found == {[kind |-> c.row.position[1], depth |-> c.depth, since |-> time] : c \in failed}
<1>1. \A c \in failed : c.row.position[1] \in Nat /\ c.depth \in Nat
  BY RowFields, CalendarAssumption DEF Change
<1>2. \A e \in found : e \in Evidence /\ e.since = time /\ \E c \in failed : e.kind = c.row.position[1]
  BY <1>1 DEF Evidence
<1>3. Recorded(evidence, failed) \subseteq evidence \cup found
  BY DEF Recorded
<1>. QED  BY <1>2, <1>3

\* commitPuzzlePublication leaves a calendar that is good with its evidence.
LEMMA PublicationIsGood ==
    ASSUME CalendarInv, NEW prepared \in Prepared, GoodJob(prepared)
    PROVE  /\ Good(Publication(prepared).calendar, Publication(prepared).rejections)
           /\ \A r \in calendar : r.date <= Soon(time) => r \in Publication(prepared).calendar
<1>. DEFINE concerned == {c \in prepared.changes : c.row \in calendar}
            failed == {c \in concerned : c.remove}
            evidence == Recorded(rejections, failed)
            removed == {c.row : c \in {c \in failed : ~Protected(c.row) /\ c.row.date \notin attempted}}
            deepened == {c \in concerned \ failed : ~Protected(c.row)}
            plain == (calendar \ removed) \ {c.row : c \in deepened}
            deep(c) == [c.row EXCEPT !.depth = c.depth]
            kept == plain \cup {deep(c) : c \in deepened}
            admitted == {r \in prepared.puzzles :
                            /\ r.date >= Day(time) /\ r.date \notin Dates(kept)
                            /\ PositionKeys(r.position) \cap (RejectedHashes(evidence) \cup Hashes(kept)) = {}}
<1>1. Publication(prepared).calendar = kept \cup admitted /\ Publication(prepared).rejections = evidence
  BY DEF Publication
<1>2. /\ time \in Nat /\ calendar \subseteq Row /\ rejections \subseteq Evidence
      /\ \A r, s \in calendar : r.date = s.date \/ r.position[1] = s.position[1] => r = s
      /\ RejectedOut(calendar, rejections, attempted)
      /\ shown \subseteq calendar /\ attempted \subseteq Dates(calendar) /\ \A r \in shown : r.date <= Day(time)
  BY DistinctRows DEF CalendarInv, Good
<1>3. /\ concerned \subseteq Change /\ failed \subseteq Change /\ deepened \subseteq Change
      /\ \A c \in concerned : c.row \in calendar /\ c.row \in Row /\ c.depth \in 1..MaxVerifyDepth
      /\ \A c, d \in concerned : c.row = d.row => c = d
  BY <1>2 DEF Prepared, GoodJob, Change
<1>4. prepared.puzzles \subseteq Row /\ \A r, s \in prepared.puzzles : r.date = s.date \/ r.position[1] = s.position[1] => r = s
  BY DistinctRows DEF Prepared, GoodJob
<1>5. \A c \in deepened : /\ deep(c) \in Row /\ deep(c).date = c.row.date /\ deep(c).position = c.row.position
  BY <1>3 DEF Row
\* The row that a row of the new calendar was.
<1>6. \A r \in kept : \/ r \in plain
                      \/ \E c \in deepened : r = deep(c) /\ r.date = c.row.date /\ r.position = c.row.position
  BY <1>5
<1>7. kept \subseteq Row /\ admitted \subseteq Row
  BY <1>2, <1>4, <1>5
<1>8. \A r, s \in kept : r.date = s.date \/ r.position[1] = s.position[1] => r = s
  BY <1>2, <1>3, <1>6
<1>. HIDE DEF deep, concerned, failed
<1>9. \A r, s \in kept \cup admitted : r.date = s.date \/ r.position[1] = s.position[1] => r = s
  <2>1. ASSUME NEW r \in admitted, NEW s \in kept PROVE r.date # s.date /\ r.position[1] # s.position[1]
    <3>1. r.date \notin Dates(kept) /\ PositionKeys(r.position) \cap Hashes(kept) = {}
      OBVIOUS
    <3>2. s.date \in Dates(kept) /\ s.position \in Hashes(kept)
      BY DEF Dates, Hashes
    <3>3. r.position \in Nat \X {0, 1} /\ s.position \in Nat \X {0, 1}
      BY <1>7, RowFields
    <3>. HIDE DEF kept, admitted
    <3>. QED  BY <3>1, <3>2, <3>3, DisjointKeys
  <2>2. \A r, s \in admitted : r.date = s.date \/ r.position[1] = s.position[1] => r = s
    BY <1>4
  <2>. HIDE DEF kept, admitted
  <2>. QED  BY <1>8, <2>1, <2>2
<1>10. evidence \subseteq Evidence /\ \A e \in evidence :
           e \in rejections \/ (e.since = time /\ \E c \in failed : e.kind = c.row.position[1])
  BY <1>2, <1>3, RecordedEvidence
<1>11. ASSUME NEW r \in kept, NEW e \in evidence, r.position[1] = e.kind
       PROVE  r.date <= Soon(e.since) \/ r.date \in attempted
  <2>1. PICK o \in calendar : r.date = o.date /\ r.position = o.position
    BY <1>3, <1>6 DEF concerned
  <2>2. CASE e \in rejections
    BY <1>2, <1>11, <2>1, <2>2 DEF RejectedOut
  <2>3. CASE e \notin rejections
    <3>1. PICK c \in failed : e.kind = c.row.position[1] /\ e.since = time
      BY <1>10, <2>3
    <3>2. c \in concerned /\ c.row \in calendar /\ c.row \in Row
      BY <1>3 DEF failed
    <3>3. o = c.row
      BY <1>2, <1>11, <2>1, <3>1, <3>2
    <3>4. c.row \notin removed
      <4>1. SUFFICES ASSUME c.row \in removed PROVE FALSE
        OBVIOUS
      <4>2. r \notin plain
        <5>1. ASSUME r \in plain PROVE r = o
          BY <1>2, <2>1, <5>1
        <5>. QED  BY <5>1, <4>1, <3>3
      <4>3. PICK d \in deepened : r.date = d.row.date /\ r.position = d.row.position
        BY <1>6, <4>2
      <4>4. d \in concerned /\ d \notin failed /\ d.row \in calendar
        BY <1>3
      <4>5. d.row = c.row
        BY <1>2, <2>1, <3>2, <3>3, <4>3, <4>4
      <4>. QED  BY <1>3, <3>1, <3>2, <4>4, <4>5
    <3>5. Protected(c.row) \/ c.row.date \in attempted
      BY <3>4
    <3>. QED  BY <2>1, <3>1, <3>3, <3>5 DEF Protected
  <2>. QED  BY <2>2, <2>3
<1>12. ASSUME NEW r \in admitted, NEW e \in evidence PROVE r.position[1] # e.kind
  <2>1. PositionKeys(r.position) \cap RejectedHashes(evidence) = {} /\ r.position \in Nat \X {0, 1}
    BY <1>7, RowFields
  <2>. HIDE DEF evidence, admitted
  <2>. QED  BY <2>1, <1>10, KeysOfEvidence
<1>13. \A r \in calendar : r.date <= Soon(time) => r \in kept
  <2>1. \A c \in deepened : ~Protected(c.row)
    OBVIOUS
  <2>2. \A r \in removed : ~Protected(r)
    OBVIOUS
  <2>. QED  BY <2>1, <2>2 DEF Protected
<1>14. shown \subseteq kept
  <2>1. \A r \in shown : r \in Row /\ r.date \in Nat /\ r.date <= Day(time)
    BY <1>2, RowFields
  <2>. HIDE DEF kept
  <2>. QED  BY <1>2, <1>13, <2>1, Days
<1>15. attempted \subseteq Dates(kept)
  <2>1. ASSUME NEW d \in attempted PROVE \E r \in kept : r.date = d
    <3>1. PICK r \in calendar : r.date = d
      BY <1>2 DEF Dates
    <3>2. r \notin removed
      BY <3>1
    <3>3. CASE r \in {c.row : c \in deepened}
      BY <1>5, <3>1, <3>3
    <3>4. CASE r \notin {c.row : c \in deepened}
      BY <3>1, <3>2, <3>4
    <3>. QED  BY <3>3, <3>4
  <2>. HIDE DEF kept
  <2>. QED  BY <2>1 DEF Dates
<1>. HIDE DEF kept, admitted, evidence
<1>16. RejectedOut(kept \cup admitted, evidence, attempted)
  BY <1>11, <1>12 DEF RejectedOut
<1>17. Distinct(kept \cup admitted)
  BY <1>7, <1>9, DistinctRows
<1>18. attempted \subseteq Dates(kept \cup admitted)
  BY <1>15 DEF Dates
<1>. QED  BY <1>1, <1>7, <1>10, <1>13, <1>14, <1>16, <1>17, <1>18 DEF Good

\* importPuzzleBatch leaves a calendar that is good with the evidence there is.
LEMMA ImportIsGood ==
    ASSUME CalendarInv, NEW rows \in Batches, Importable(rows)
    PROVE  Good(Imported(rows), rejections) /\ calendar \subseteq Imported(rows)
<1>. DEFINE new == {r \in rows : r.date \notin Dates(calendar)}
<1>1. Imported(rows) = calendar \cup new
  BY DEF Imported
<1>2. /\ calendar \subseteq Row /\ rejections \subseteq Evidence
      /\ \A r, s \in calendar : r.date = s.date \/ r.position[1] = s.position[1] => r = s
      /\ RejectedOut(calendar, rejections, attempted)
      /\ shown \subseteq calendar /\ attempted \subseteq Dates(calendar)
  BY DistinctRows DEF CalendarInv, Good
<1>3. rows \subseteq Row
  BY CalendarAssumption, Days DEF Batches, Row, CalendarInv
<1>4. Distinct(rows)
  BY DEF Batches, Distinct
<1>5. \A r, s \in rows : r.date = s.date \/ r.position[1] = s.position[1] => r = s
  BY <1>3, <1>4, DistinctRows
<1>6. ASSUME NEW r \in new
      PROVE  PositionKeys(r.position) \cap (RejectedHashes(rejections) \cup Hashes(calendar)) = {}
  <2>1. \A o \in calendar : o.date # r.date
    BY DEF Dates
  <2>. QED  BY <2>1 DEF Importable
<1>7. ASSUME NEW r \in new, NEW s \in calendar PROVE r.date # s.date /\ r.position[1] # s.position[1]
  <2>1. s.date \in Dates(calendar) /\ s.position \in Hashes(calendar)
    BY DEF Dates, Hashes
  <2>2. r.position \in Nat \X {0, 1} /\ s.position \in Nat \X {0, 1}
    BY <1>2, <1>3, RowFields
  <2>3. PositionKeys(r.position) \cap Hashes(calendar) = {}
    BY <1>6
  <2>. QED  BY <2>1, <2>2, <2>3, DisjointKeys
<1>8. ASSUME NEW r \in new, NEW e \in rejections PROVE r.position[1] # e.kind
  <2>1. PositionKeys(r.position) \cap RejectedHashes(rejections) = {} /\ r.position \in Nat \X {0, 1}
    BY <1>3, <1>6, RowFields
  <2>. QED  BY <1>2, <2>1, KeysOfEvidence
<1>9. new \subseteq Row /\ \A r, s \in new : r.date = s.date \/ r.position[1] = s.position[1] => r = s
  BY <1>3, <1>5
<1>. HIDE DEF new
<1>10. Distinct(calendar \cup new)
  <2>1. \A r, s \in calendar \cup new : r.date = s.date \/ r.position[1] = s.position[1] => r = s
    BY <1>2, <1>7, <1>9
  <2>. QED  BY <1>2, <1>9, <2>1, DistinctRows
<1>11. RejectedOut(calendar \cup new, rejections, attempted)
  BY <1>2, <1>8 DEF RejectedOut
<1>12. attempted \subseteq Dates(calendar \cup new)
  BY <1>2 DEF Dates
<1>. QED  BY <1>1, <1>2, <1>9, <1>10, <1>11, <1>12 DEF Good

LEMMA CalendarInitially ==
    ASSUME PuzzleInit
    PROVE  CalendarInv
<1>1. NoJob \in Prepared /\ GoodJob(NoJob)
  BY DEF NoJob, Prepared, Stage, GoodJob, Distinct
<1>2. Good(calendar, rejections)
  BY DEF PuzzleInit, Good, Distinct, RejectedOut, Dates
<1>. QED  BY <1>1, <1>2 DEF PuzzleInit, CalendarInv, TransactionStands

\* A step of one job that leaves the calendar and the transaction alone.
LEMMA JobKeeps ==
    ASSUME CalendarInv, NEW p \in Publisher, NEW prepared \in Prepared, GoodJob(prepared),
           job' = [job EXCEPT ![p] = prepared],
           UNCHANGED <<time, calendar, rejections, publishing, attempted, shown>>
    PROVE  CalendarInv'
<1>1. job' \in [Publisher -> Prepared] /\ \A q \in Publisher : GoodJob(job'[q])
  BY DEF CalendarInv
<1>. QED  BY <1>1 DEF CalendarInv, TransactionStands, Good, RejectedOut

LEMMA ReverifyKeeps ==
    ASSUME CalendarInv, NEW p \in Publisher, Reverify(p)
    PROVE  CalendarInv'
<1>. DEFINE rows == {r \in calendar : r.date \in (Day(time) + 1)..(Day(time) + ReverifyDays)}
<1>1. PICK verdict \in Verdicts(rows) :
          job' = [job EXCEPT ![p] = [NoJob EXCEPT
              !.stage = "verified",
              !.changes = {[row |-> r, remove |-> verdict[r] = "fails", depth |-> Deeper(r)] :
                           r \in {r \in rows : verdict[r] = "fails" \/ (verdict[r] = "passes" /\ Deeper(r) > r.depth)}}]]
  BY DEF Reverify
<1>. DEFINE taken == {r \in rows : verdict[r] = "fails" \/ (verdict[r] = "passes" /\ Deeper(r) > r.depth)}
            change(r) == [row |-> r, remove |-> verdict[r] = "fails", depth |-> Deeper(r)]
            changes == {change(r) : r \in taken}
            prepared == [stage |-> "verified", changes |-> changes, puzzles |-> {}]
<1>2. job' = [job EXCEPT ![p] = prepared]
  <2>1. ASSUME NEW X
        PROVE  [NoJob EXCEPT !.stage = "verified", !.changes = X] = [stage |-> "verified", changes |-> X, puzzles |-> {}]
    <3>1. [NoJob EXCEPT !.stage = "verified"] = [stage |-> "verified", changes |-> {}, puzzles |-> {}]
      <4>1. \A a, b, c, d : [[stage |-> a, changes |-> b, puzzles |-> c] EXCEPT !.stage = d]
                                 = [stage |-> d, changes |-> b, puzzles |-> c]
        OBVIOUS
      <4>. QED  BY <4>1 DEF NoJob
    <3>2. [[stage |-> "verified", changes |-> {}, puzzles |-> {}] EXCEPT !.changes = X]
              = [stage |-> "verified", changes |-> X, puzzles |-> {}]
      OBVIOUS
    <3>. QED  BY <3>1, <3>2, Zenon
  <2>2. job' = [job EXCEPT ![p] = [NoJob EXCEPT !.stage = "verified", !.changes = changes]]
    BY <1>1, Zenon
  <2>. HIDE DEF changes
  <2>. QED  BY <2>1, <2>2
<1>3. taken \subseteq Row
  BY DEF CalendarInv, Good
<1>4. \A r \in taken : change(r) \in Change /\ change(r).row = r
  <2>1. \A r \in taken : Deeper(r) \in 1..MaxVerifyDepth
    BY <1>3, RowFields, CalendarAssumption DEF Deeper
  <2>2. \A r \in taken : (verdict[r] = "fails") \in BOOLEAN
    OBVIOUS
  <2>. HIDE DEF taken
  <2>. QED  BY <1>3, <2>1, <2>2 DEF Change
<1>. HIDE DEF taken, change
<1>5. changes \subseteq Change /\ \A c, d \in changes : c.row = d.row => c = d
  BY <1>4
<1>. HIDE DEF changes
<1>6. prepared \in Prepared /\ GoodJob(prepared)
  BY <1>5 DEF Prepared, Stage, GoodJob, Distinct
<1>. HIDE DEF prepared
<1>. QED  BY <1>2, <1>6, JobKeeps DEF Reverify

LEMMA ProposalsAreDistinct ==
    ASSUME NEW dates \in SUBSET Nat, NEW puzzles \in Proposals(dates)
    PROVE  puzzles \subseteq Row /\ Distinct(puzzles)
<1>. DEFINE known == Hashes(calendar) \cup RejectedHashes(rejections)
            fresh == {q \in Found : PositionKeys(q) \cap known = {}}
<1>1. PICK f \in UNION {[S -> fresh] : S \in SUBSET dates} :
          /\ puzzles = {[date |-> d, position |-> f[d], depth |-> 1] : d \in DOMAIN f}
          /\ \A d, e \in DOMAIN f : d # e => f[d] \notin PositionKeys(f[e])
  BY DEF Proposals
<1>2. DOMAIN f \subseteq dates /\ \A d \in DOMAIN f : f[d] \in Found
  OBVIOUS
<1>3. \A d \in DOMAIN f : [date |-> d, position |-> f[d], depth |-> 1] \in Row
  <2>1. 1 \in 1..MaxVerifyDepth
    BY CalendarAssumption
  <2>2. \A d \in DOMAIN f : d \in Nat
    BY <1>2, Zenon
  <2>. HIDE DEF fresh
  <2>. QED  BY <1>2, <2>1, <2>2 DEF Row
<1>. HIDE DEF fresh
<1>. QED  BY <1>1, <1>3 DEF Distinct

LEMMA GenerateKeeps ==
    ASSUME CalendarInv, NEW p \in Publisher, Generate(p)
    PROVE  CalendarInv'
<1>. DEFINE dates == Slots({c.row : c \in {c \in job[p].changes : c.remove}})
<1>1. PICK puzzles \in Proposals(dates) : job' = [job EXCEPT ![p].stage = "prepared", ![p].puzzles = puzzles]
  BY DEF Generate
<1>2. dates \subseteq Nat
  <2>1. Day(time) \in Nat /\ TargetBuffer \in Nat
    BY Days, CalendarAssumption DEF CalendarInv
  <2>. QED  BY <2>1 DEF Slots
<1>. HIDE DEF dates
<1>3. puzzles \subseteq Row /\ Distinct(puzzles)
  BY <1>1, <1>2, ProposalsAreDistinct
<1>. DEFINE prepared == [stage |-> "prepared", changes |-> job[p].changes, puzzles |-> puzzles]
<1>4. job[p] \in Prepared /\ GoodJob(job[p]) /\ job \in [Publisher -> Prepared]
  BY DEF CalendarInv
<1>5. prepared \in Prepared /\ GoodJob(prepared)
  BY <1>3, <1>4 DEF Prepared, Stage, GoodJob
<1>6. [[job[p] EXCEPT !.stage = "prepared"] EXCEPT !.puzzles = puzzles] = prepared
  <2>1. job[p] = [stage |-> job[p].stage, changes |-> job[p].changes, puzzles |-> job[p].puzzles]
    BY <1>4 DEF Prepared
  <2>. DEFINE started == [job[p] EXCEPT !.stage = "prepared"]
  <2>2. started = [stage |-> "prepared", changes |-> job[p].changes, puzzles |-> job[p].puzzles]
    <3>1. \A a, b, c, d : [[stage |-> a, changes |-> b, puzzles |-> c] EXCEPT !.stage = d]
                              = [stage |-> d, changes |-> b, puzzles |-> c]
      OBVIOUS
    <3>. QED  BY <2>1, <3>1
  <2>. HIDE DEF started
  <2>3. \A a, b, c, d : [[stage |-> a, changes |-> b, puzzles |-> c] EXCEPT !.puzzles = d]
                            = [stage |-> a, changes |-> b, puzzles |-> d]
    OBVIOUS
  <2>4. [started EXCEPT !.puzzles = puzzles] = prepared
    BY <2>2, <2>3
  <2>. QED  BY <2>4 DEF started
<1>7. job' = [job EXCEPT ![p] = prepared]
  <2>. HIDE DEF prepared
  <2>. QED  BY <1>1, <1>4, <1>6
<1>. HIDE DEF prepared
<1>. QED  BY <1>5, <1>7, JobKeeps DEF Generate

\* A transaction opens on what is good with its evidence.
LEMMA OpenKeeps ==
    ASSUME CalendarInv, NEW p \in Publisher, NEW result,
           Good(result.calendar, result.rejections), \A r \in calendar : r.date <= Soon(time) => r \in result.calendar,
           Open(p, result),
           NEW prepared \in Prepared, GoodJob(prepared), job' = [job EXCEPT ![p] = prepared],
           UNCHANGED <<time, calendar, rejections, attempted, shown>>
    PROVE  CalendarInv'
<1>1. job' \in [Publisher -> Prepared] /\ \A q \in Publisher : GoodJob(job'[q])
  BY DEF CalendarInv
<1>2. /\ publishing'.by = p /\ publishing'.opened = time
      /\ publishing'.calendar = result.calendar /\ publishing'.rejections = result.rejections
  BY DEF Open
<1>3. TransactionStands'
  BY <1>2 DEF TransactionStands, CalendarInv, Good, RejectedOut
<1>. QED  BY <1>1, <1>3 DEF CalendarInv, Good, RejectedOut

LEMMA PublishKeeps ==
    ASSUME CalendarInv, NEW p \in Publisher, Publish(p)
    PROVE  CalendarInv'
<1>1. job[p] \in Prepared /\ GoodJob(job[p]) /\ job \in [Publisher -> Prepared]
  BY DEF CalendarInv
<1>. DEFINE prepared == [stage |-> "committing", changes |-> {}, puzzles |-> {}]
<1>2. prepared \in Prepared /\ GoodJob(prepared) /\ NoJob \in Prepared /\ GoodJob(NoJob)
  BY DEF Prepared, Stage, GoodJob, Distinct, NoJob
<1>3. [NoJob EXCEPT !.stage = "committing"] = prepared
  <2>1. \A a, b, c, d : [[stage |-> a, changes |-> b, puzzles |-> c] EXCEPT !.stage = d]
                            = [stage |-> d, changes |-> b, puzzles |-> c]
    OBVIOUS
  <2>. QED  BY <2>1 DEF NoJob
<1>4. CASE publishing = NoTransaction
  <2>1. Open(p, Publication(job[p])) /\ job' = [job EXCEPT ![p] = prepared]
    BY <1>3, <1>4 DEF Publish
  <2>2. UNCHANGED <<time, calendar, rejections, attempted, shown>>
    BY DEF Publish
  <2>3. /\ Good(Publication(job[p]).calendar, Publication(job[p]).rejections)
        /\ \A r \in calendar : r.date <= Soon(time) => r \in Publication(job[p]).calendar
    BY <1>1, PublicationIsGood
  <2>. HIDE DEF prepared
  <2>. QED  BY <1>2, <2>1, <2>2, <2>3, OpenKeeps
<1>5. CASE publishing # NoTransaction
  BY <1>2, <1>5, JobKeeps DEF Publish
<1>. QED  BY <1>4, <1>5

LEMMA ImportKeeps ==
    ASSUME CalendarInv, NEW p \in Publisher, Import(p)
    PROVE  CalendarInv'
<1>1. PICK rows \in Batches : Importable(rows) /\ Open(p, [calendar |-> Imported(rows), rejections |-> rejections])
  BY DEF Import
<1>. DEFINE result == [calendar |-> Imported(rows), rejections |-> rejections]
            prepared == [job[p] EXCEPT !.stage = "committing"]
<1>2. job[p] \in Prepared /\ GoodJob(job[p]) /\ job \in [Publisher -> Prepared]
  BY DEF CalendarInv
<1>3. prepared \in Prepared /\ GoodJob(prepared)
  BY <1>2 DEF Prepared, Stage, GoodJob
<1>4. job' = [job EXCEPT ![p] = prepared] /\ UNCHANGED <<time, calendar, rejections, attempted, shown>>
  BY <1>2 DEF Import
<1>5. Good(Imported(rows), rejections) /\ calendar \subseteq Imported(rows)
  BY <1>1, ImportIsGood
<1>6. Good(result.calendar, result.rejections) /\ \A r \in calendar : r.date <= Soon(time) => r \in result.calendar
  BY <1>5
<1>. HIDE DEF prepared, result
<1>. QED  BY <1>1, <1>3, <1>4, <1>6, OpenKeeps DEF result

LEMMA NobodyIsNone ==
    ASSUME NEW p \in Publisher, publishing.by = p
    PROVE  publishing # NoTransaction
BY CalendarAssumption DEF NoTransaction

LEMMA CommitAndRollbackKeep ==
    ASSUME CalendarInv, NEW p \in Publisher, Commit(p) \/ Rollback(p)
    PROVE  CalendarInv'
<1>1. publishing # NoTransaction /\ publishing' = NoTransaction /\ UNCHANGED <<time, attempted, shown>>
  BY NobodyIsNone DEF Commit, Rollback
<1>2. NoJob \in Prepared /\ GoodJob(NoJob)
  BY DEF NoJob, Prepared, Stage, GoodJob, Distinct
<1>3. job' \in [Publisher -> Prepared] /\ \A q \in Publisher : GoodJob(job'[q])
  <2>1. job' = [job EXCEPT ![p] = NoJob]
    BY DEF Commit, Rollback
  <2>. QED  BY <1>2, <2>1 DEF CalendarInv
<1>4. Good(calendar, rejections)'
  BY <1>1 DEF Commit, Rollback, CalendarInv, TransactionStands, Good, RejectedOut
<1>. QED  BY <1>1, <1>3, <1>4 DEF CalendarInv, TransactionStands

LEMMA ShowKeeps ==
    ASSUME CalendarInv, Show
    PROVE  CalendarInv'
<1>1. PICK r \in calendar : r.date <= Day(time) /\ shown' = shown \cup {r}
  BY DEF Show
<1>2. UNCHANGED <<time, calendar, rejections, job, publishing, attempted>>
  BY DEF Show
<1>3. Good(calendar, rejections)'
  BY <1>1, <1>2 DEF CalendarInv, Good, RejectedOut
<1>4. TransactionStands'
  <2>1. SUFFICES ASSUME publishing # NoTransaction PROVE r \in publishing.calendar
    BY <1>1, <1>2 DEF CalendarInv, TransactionStands, Good, RejectedOut
  <2>2. r.date <= Soon(publishing.opened)
    <3>1. /\ publishing.opened \in Nat /\ time \in {publishing.opened, publishing.opened + 1}
          /\ r.date \in Nat
      BY <2>1, RowFields DEF CalendarInv, TransactionStands, Good
    <3>. QED  BY <1>1, <3>1, Days
  <2>. QED  BY <2>1, <2>2 DEF CalendarInv, TransactionStands
<1>. QED  BY <1>1, <1>2, <1>3, <1>4 DEF CalendarInv

LEMMA AttemptKeeps ==
    ASSUME CalendarInv, Attempt
    PROVE  CalendarInv'
<1>1. PICK r \in calendar : /\ publishing = NoTransaction \/ r \in publishing.calendar
                            /\ attempted' = attempted \cup {r.date}
  BY DEF Attempt
<1>2. UNCHANGED <<time, calendar, rejections, job, publishing, shown>>
  BY DEF Attempt
<1>3. ASSUME NEW rows, NEW evidence, Good(rows, evidence), r \in rows
      PROVE  /\ RejectedOut(rows, evidence, attempted') /\ attempted' \subseteq Dates(rows)
             /\ rows \subseteq Row /\ evidence \subseteq Evidence /\ Distinct(rows) /\ shown \subseteq rows
  BY <1>1, <1>3 DEF Good, RejectedOut, Dates
<1>4. Good(calendar, rejections)'
  BY <1>2, <1>3 DEF CalendarInv, Good
<1>5. TransactionStands'
  BY <1>1, <1>2, <1>3 DEF CalendarInv, TransactionStands, Good
<1>. QED  BY <1>2, <1>4, <1>5 DEF CalendarInv

LEMMA PassKeeps ==
    ASSUME CalendarInv, Pass
    PROVE  CalendarInv'
<1>1. time' = time + 1 /\ (publishing # NoTransaction => time = publishing.opened)
  BY DEF Pass
<1>2. UNCHANGED <<calendar, rejections, job, publishing, attempted, shown>>
  BY DEF Pass
<1>3. Good(calendar, rejections)' /\ time \in Nat /\ time' \in Nat
  BY <1>1, <1>2 DEF CalendarInv, Good, RejectedOut
<1>4. \A r \in shown : r.date \in Nat /\ r.date <= Day(time)
  BY RowFields DEF CalendarInv, Good
<1>5. TransactionStands'
  BY <1>1, <1>2 DEF CalendarInv, TransactionStands, Good, RejectedOut
<1>6. \A r \in shown' : r.date <= Day(time')
  BY <1>1, <1>2, <1>3, <1>4, Days
<1>. QED  BY <1>2, <1>3, <1>5, <1>6 DEF CalendarInv

LEMMA CalendarStep ==
    ASSUME CalendarInv, [PuzzleNext]_puzzleVars
    PROVE  CalendarInv'
<1>1. CASE UNCHANGED puzzleVars
  BY <1>1 DEF puzzleVars, CalendarInv, TransactionStands, Good, RejectedOut
<1>2. ASSUME NEW p \in Publisher,
             Reverify(p) \/ Generate(p) \/ Publish(p) \/ Import(p) \/ Commit(p) \/ Rollback(p)
      PROVE  CalendarInv'
  BY <1>2, ReverifyKeeps, GenerateKeeps, PublishKeeps, ImportKeeps, CommitAndRollbackKeep
<1>3. CASE Show \/ Attempt \/ Pass
  BY <1>3, ShowKeeps, AttemptKeeps, PassKeeps
<1>. QED  BY <1>1, <1>2, <1>3 DEF PuzzleNext

\* The inductive invariant of the calendar: it is sound, and so is what an open transaction will
\* leave, whatever is read and attempted meanwhile.  (withPuzzlePublishLock)
THEOREM CalendarInvariance == PuzzleSpec => []CalendarInv
<1>1. PuzzleInit => CalendarInv
  BY CalendarInitially
<1>2. CalendarInv /\ [PuzzleNext]_puzzleVars => CalendarInv'
  BY CalendarStep
<1>. QED  BY <1>1, <1>2, PTL DEF PuzzleSpec

\* For any jobs, imports, horizons and depths: the calendar repeats nothing, takes back no
\* rejected position and changes nothing that is public.  (commitPuzzlePublication)
THEOREM TheCalendarIsSound == PuzzleSpec => []CalendarIsSound
<1>1. CalendarInv => CalendarIsSound
  BY DEF CalendarInv, Good, Distinct, RejectedOut, CalendarIsSound, NothingRepeats, RejectedStayOut, PublicStands
<1>. QED  BY <1>1, CalendarInvariance, PTL

------------------------------------------------------------------------------
(* Quick play: the inductive invariant *)

Entry == [user : Searcher, order : Nat \ {0}]
Phase == {"idle", "matchmaking", "in-room"}
WorkKind == {"membership", "join", "leave", "bot", "quit", "pairing"}
WorkStage == {"queued", "creating", "confirming", "reading", "created", "failed", "reconciled"}
Work == [kind : WorkKind, stage : WorkStage, users : Seq(Searcher), sockets : Seq(Nat), entries : Seq(Entry), key : Nat]

\* A pairing is of two players and their entries, all other work of one player on a connection.
Proper(w) ==
    /\ w.kind = "pairing" => /\ DOMAIN w.users = {1, 2} /\ DOMAIN w.entries = {1, 2}
                             /\ w.entries[1].user = w.users[1] /\ w.entries[2].user = w.users[2]
                             /\ w.users[1] # w.users[2]
    /\ w.kind # "pairing" => DOMAIN w.users = {1} /\ DOMAIN w.entries = {} /\ w.sockets[1] # 0
    /\ w.kind \in {"pairing", "bot"} => w.key # 0
    /\ w.kind \notin {"pairing", "bot"} => w.stage = "queued"

Started(w) == w.stage # "queued"
RunsIn(ws, i) == \A j \in 1..(i - 1) : Concerned(ws[j]) \cap Concerned(ws[i]) = {}

\* What is so from the time a room is being created: its players have no seat, or all of them have
\* theirs in it, and whoever still searches does so by the entry that was claimed.
StageHolds(w, ph, cl, st) ==
    Started(w) =>
        /\ (\A u \in Concerned(w) : st[u] = NoSeat) \/ (\A u \in Concerned(w) : st[u] = w.key)
        /\ w.stage = "created" => \A u \in Concerned(w) : st[u] = w.key
        /\ w.stage \in {"failed", "reconciled"} => \A u \in Concerned(w) : st[u] = NoSeat
        /\ \A k \in DOMAIN w.users :
               ph[w.users[k]] = "matchmaking" => w.kind = "pairing" /\ cl[w.users[k]] = w.entries[k]

WorkHolds(ws, ph, cl, st) ==
    \A i \in 1..Len(ws) :
        Proper(ws[i]) /\ (Started(ws[i]) => RunsIn(ws, i)) /\ StageHolds(ws[i], ph, cl, st)

Waits(wa, u) == \E e \in wa : e.user = u
Unshown(u, ph, st) == ph[u] # "in-room" /\ st[u] # NoSeat

PlaceHolds(u, ph, so, wa, cl) ==
    /\ ph[u] = "matchmaking" <=> Waits(wa, u) \/ cl[u] # NoEntry
    /\ Waits(wa, u) => cl[u] = NoEntry
    /\ ph[u] = "matchmaking" => so[u] # 0
    /\ cl[u] # NoEntry => cl[u].user = u

SearchesHold(ph, so, wa, cl) ==
    /\ \A u \in Searcher : PlaceHolds(u, ph, so, wa, cl)
    /\ \A e, f \in wa : e.user = f.user => e = f

ClaimsHold(cl, ws) ==
    \A u \in Searcher : cl[u] # NoEntry => \E i \in 1..Len(ws) : \E k \in DOMAIN ws[i].entries : cl[u] = ws[i].entries[k]

SeatsHold(ph, st, ws) ==
    \A u \in Searcher :
        /\ ph[u] = "in-room" => st[u] # NoSeat
        /\ Unshown(u, ph, st) => \E i \in 1..Len(ws) : Started(ws[i]) /\ u \in Concerned(ws[i]) /\ ws[i].key = st[u]

QuickTypes ==
    /\ phase \in [Searcher -> Phase] /\ socket \in [Searcher -> Nat] /\ opened \in Nat \ {0}
    /\ waiting \subseteq Entry /\ claims \in [Searcher -> Entry \cup {NoEntry}] /\ order \in Nat
    /\ seat \in [Searcher -> Nat] /\ sent \in Nat /\ work \in Seq(Work)

QuickInv ==
    /\ QuickTypes
    /\ WorkHolds(work, phase, claims, seat)
    /\ SearchesHold(phase, socket, waiting, claims)
    /\ ClaimsHold(claims, work)
    /\ SeatsHold(phase, seat, work)

------------------------------------------------------------------------------
(* Quick play: the queue of work *)

LEMMA RemoveAtMeans ==
    ASSUME NEW S, NEW s \in Seq(S), NEW i \in 1..Len(s)
    PROVE  /\ RemoveAt(s, i) \in Seq(S) /\ Len(RemoveAt(s, i)) = Len(s) - 1
           /\ \A j \in 1..(Len(s) - 1) : RemoveAt(s, i)[j] = IF j < i THEN s[j] ELSE s[j + 1]
<1>. DEFINE before == SubSeq(s, 1, i - 1)
            after == SubSeq(s, i + 1, Len(s))
<1>1. Len(s) \in Nat /\ i \in Nat /\ 1 <= i /\ i <= Len(s) /\ \A j \in 1..Len(s) : s[j] \in S
  OBVIOUS
<1>2. before \in Seq(S) /\ Len(before) = i - 1 /\ \A j \in 1..(i - 1) : before[j] = s[j]
  BY <1>1
<1>3. after \in Seq(S) /\ Len(after) = Len(s) - i /\ \A j \in 1..(Len(s) - i) : after[j] = s[j + i]
  BY <1>1
<1>. HIDE DEF before, after
<1>4. RemoveAt(s, i) = before \o after
  BY DEF RemoveAt, before, after
<1>5. before \o after \in Seq(S) /\ Len(before \o after) = Len(s) - 1
  <2>1. before \o after \in Seq(S)  BY <1>2, <1>3
  <2>2. Len(before \o after) = Len(before) + Len(after)
    <3>1. before \in Seq(S) /\ after \in Seq(S)  BY <1>2, <1>3
    <3>. QED  BY <3>1
  <2>3. (i - 1) + (Len(s) - i) = Len(s) - 1  BY <1>1
  <2>. QED  BY <1>2, <1>3, <2>1, <2>2, <2>3
<1>6. ASSUME NEW j \in 1..(Len(s) - 1) PROVE (before \o after)[j] = IF j < i THEN s[j] ELSE s[j + 1]
  <2>1. CASE j < i  BY <1>1, <1>2, <1>3, <2>1
  <2>2. CASE ~(j < i)
    <3>1. (before \o after)[j] = after[j - Len(before)]  BY <1>1, <1>2, <1>3, <2>2
    <3>2. j - (i - 1) \in 1..(Len(s) - i) /\ (j - (i - 1)) + i = j + 1  BY <1>1, <2>2
    <3>. QED  BY <1>2, <1>3, <2>2, <3>1, <3>2
  <2>. QED  BY <2>1, <2>2
<1>. QED  BY <1>4, <1>5, <1>6

\* What has started and what may run next concern different players.
LEMMA Apart ==
    ASSUME NEW ws \in Seq(Work), NEW ph, NEW cl, NEW st, WorkHolds(ws, ph, cl, st),
           NEW i \in 1..Len(ws), RunsIn(ws, i), NEW j \in 1..Len(ws), j # i, Started(ws[j])
    PROVE  Concerned(ws[i]) \cap Concerned(ws[j]) = {}
<1>1. RunsIn(ws, j) /\ i \in Nat /\ j \in Nat
  BY DEF WorkHolds
<1>2. CASE j < i  BY <1>1, <1>2 DEF RunsIn
<1>3. CASE i < j  BY <1>1, <1>3 DEF RunsIn
<1>. QED  BY <1>1, <1>2, <1>3

\* Work does not depend on players it does not concern.
LEMMA OthersStand ==
    ASSUME NEW w \in Work, NEW ph, NEW cl, NEW st, NEW ph2, NEW cl2, NEW st2, StageHolds(w, ph, cl, st),
           \A u \in Concerned(w) : ph2[u] = ph[u] /\ cl2[u] = cl[u] /\ st2[u] = st[u]
    PROVE  StageHolds(w, ph2, cl2, st2)
<1>1. \A k \in DOMAIN w.users : w.users[k] \in Concerned(w)
  BY DEF Concerned
<1>. QED  BY <1>1 DEF StageHolds

LEMMA PlayersOfWork ==
    ASSUME NEW w \in Work
    PROVE  Concerned(w) \subseteq Searcher /\ \A k \in DOMAIN w.users : w.users[k] \in Concerned(w)
<1>1. w.users \in Seq(Searcher)
  BY DEF Work
<1>2. \A k \in DOMAIN w.users : w.users[k] \in Searcher
  BY <1>1
<1>. QED  BY <1>2 DEF Concerned

\* Only these players have changed; their seats are shown; the claims that are left are not of this work.
SameExcept(people, f, g) == \A u \in Searcher \ people : g[u] = f[u]
ShownTo(people, ph, st) == \A u \in people : ph[u] = "in-room" <=> st[u] # NoSeat
ClaimsLeft(cl, cl2, w) ==
    \A u \in Searcher : cl2[u] # NoEntry => cl2[u] = cl[u] /\ \A k \in DOMAIN w.entries : cl[u] # w.entries[k]

SeatedBy(w, ph, st) ==
    \A u \in Concerned(w) :
        /\ ph[u] = "in-room" => st[u] # NoSeat
        /\ Unshown(u, ph, st) => Started(w) /\ w.key = st[u]
NoMoreClaims(cl, cl2) == \A u \in Searcher : cl2[u] # NoEntry => cl2[u] = cl[u]
ClaimsOrOf(cl, cl2, w) ==
    \A u \in Searcher : cl2[u] # NoEntry => cl2[u] = cl[u] \/ \E k \in DOMAIN w.entries : cl2[u] = w.entries[k]
AllStand(ws, ph, cl, st) == \A j \in 1..Len(ws) : StageHolds(ws[j], ph, cl, st)

\* Where the work is that stays when some is removed.
LEMMA Remaining ==
    ASSUME NEW ws \in Seq(Work), NEW i \in 1..Len(ws)
    PROVE  /\ RemoveAt(ws, i) \in Seq(Work) /\ Len(RemoveAt(ws, i)) = Len(ws) - 1
           /\ \A j \in 1..(Len(ws) - 1) : \E o \in 1..Len(ws) :
                  o # i /\ RemoveAt(ws, i)[j] = ws[o] /\ o = IF j < i THEN j ELSE j + 1
           /\ \A o \in 1..Len(ws) : o # i => \E j \in 1..Len(RemoveAt(ws, i)) : RemoveAt(ws, i)[j] = ws[o]
           /\ \A j \in 1..(Len(ws) - 1) : RunsIn(ws, IF j < i THEN j ELSE j + 1) => RunsIn(RemoveAt(ws, i), j)
<1>. DEFINE rest == RemoveAt(ws, i)
            old(j) == IF j < i THEN j ELSE j + 1
<1>1. /\ rest \in Seq(Work) /\ Len(rest) = Len(ws) - 1
      /\ \A j \in 1..(Len(ws) - 1) : rest[j] = ws[old(j)]
  <2>1. /\ rest \in Seq(Work) /\ Len(rest) = Len(ws) - 1
        /\ \A j \in 1..(Len(ws) - 1) : rest[j] = IF j < i THEN ws[j] ELSE ws[j + 1]
    BY RemoveAtMeans
  <2>. HIDE DEF rest
  <2>. QED  BY <2>1
<1>2. Len(ws) \in Nat /\ i \in Nat /\ 1 <= i /\ i <= Len(ws)
  OBVIOUS
<1>3. \A j \in 1..(Len(ws) - 1) : old(j) \in 1..Len(ws) /\ old(j) # i
  BY <1>2
<1>4. ASSUME NEW o \in 1..Len(ws), o # i PROVE \E j \in 1..Len(rest) : rest[j] = ws[o]
  <2>. DEFINE new == IF o < i THEN o ELSE o - 1
  <2>1. new \in 1..(Len(ws) - 1) /\ old(new) = o
    BY <1>2, <1>4
  <2>. HIDE DEF new, rest, old
  <2>. QED  BY <1>1, <2>1
<1>5. ASSUME NEW j \in 1..(Len(ws) - 1), RunsIn(ws, old(j)) PROVE RunsIn(rest, j)
  <2>1. SUFFICES ASSUME NEW l \in 1..(j - 1) PROVE Concerned(rest[l]) \cap Concerned(rest[j]) = {}
    BY DEF RunsIn
  <2>2. l \in 1..(Len(ws) - 1) /\ old(l) \in 1..(old(j) - 1)
    BY <1>2
  <2>. HIDE DEF rest, old
  <2>. QED  BY <1>1, <1>5, <2>2 DEF RunsIn
<1>. HIDE DEF rest
<1>6. \A j \in 1..(Len(ws) - 1) : \E o \in 1..Len(ws) : o # i /\ rest[j] = ws[o] /\ o = old(j)
  <2>. HIDE DEF old
  <2>. QED  BY <1>1, <1>3
<1>. QED  BY <1>1, <1>4, <1>5, <1>6 DEF rest

\* Work is finished: the rest stands, as long as only the players it concerned have changed.
LEMMA FinishKeepsWork ==
    ASSUME NEW ws \in Seq(Work), NEW ph, NEW cl, NEW st, WorkHolds(ws, ph, cl, st),
           NEW i \in 1..Len(ws), RunsIn(ws, i), NEW ph2, NEW cl2, NEW st2,
           SameExcept(Concerned(ws[i]), ph, ph2), SameExcept(Concerned(ws[i]), cl, cl2), SameExcept(Concerned(ws[i]), st, st2)
    PROVE  RemoveAt(ws, i) \in Seq(Work) /\ WorkHolds(RemoveAt(ws, i), ph2, cl2, st2)
<1>. DEFINE rest == RemoveAt(ws, i)
<1>1. rest \in Seq(Work) /\ Len(rest) = Len(ws) - 1
  BY Remaining
<1>2. ASSUME NEW j \in 1..(Len(ws) - 1)
      PROVE  Proper(rest[j]) /\ (Started(rest[j]) => RunsIn(rest, j)) /\ StageHolds(rest[j], ph2, cl2, st2)
  <2>1. PICK o \in 1..Len(ws) : o # i /\ rest[j] = ws[o] /\ o = IF j < i THEN j ELSE j + 1
    BY Remaining
  <2>2. RunsIn(ws, o) => RunsIn(rest, j)
    BY <2>1, Remaining
  <2>3. Proper(ws[o]) /\ (Started(ws[o]) => RunsIn(ws, o)) /\ StageHolds(ws[o], ph, cl, st) /\ ws[o] \in Work
    BY DEF WorkHolds
  <2>4. StageHolds(ws[o], ph2, cl2, st2)
    <3>1. CASE ~Started(ws[o])  BY <3>1 DEF StageHolds
    <3>2. CASE Started(ws[o])
      <4>1. Concerned(ws[i]) \cap Concerned(ws[o]) = {}
        BY <2>1, <3>2, Apart
      <4>2. Concerned(ws[o]) \subseteq Searcher
        BY <2>3, PlayersOfWork
      <4>3. \A u \in Concerned(ws[o]) : ph2[u] = ph[u] /\ cl2[u] = cl[u] /\ st2[u] = st[u]
        BY <4>1, <4>2 DEF SameExcept
      <4>. QED  BY <2>3, <4>3, OthersStand
    <3>. QED  BY <3>1, <3>2
  <2>. HIDE DEF rest
  <2>. QED  BY <2>1, <2>2, <2>3, <2>4
<1>. HIDE DEF rest
<1>. QED  BY <1>1, <1>2 DEF rest, WorkHolds

LEMMA FinishKeepsSeats ==
    ASSUME NEW ws \in Seq(Work), NEW ph, NEW cl, NEW st, WorkHolds(ws, ph, cl, st), SeatsHold(ph, st, ws),
           NEW i \in 1..Len(ws), RunsIn(ws, i), NEW ph2, NEW st2,
           SameExcept(Concerned(ws[i]), ph, ph2), SameExcept(Concerned(ws[i]), st, st2), ShownTo(Concerned(ws[i]), ph2, st2)
    PROVE  SeatsHold(ph2, st2, RemoveAt(ws, i))
<1>. DEFINE rest == RemoveAt(ws, i)
<1>1. ASSUME NEW u \in Searcher, Unshown(u, ph2, st2)
      PROVE  \E j \in 1..Len(rest) : Started(rest[j]) /\ u \in Concerned(rest[j]) /\ rest[j].key = st2[u]
  <2>1. u \notin Concerned(ws[i])
    BY <1>1 DEF Unshown, ShownTo
  <2>2. PICK o \in 1..Len(ws) : Started(ws[o]) /\ u \in Concerned(ws[o]) /\ ws[o].key = st2[u]
    BY <1>1, <2>1 DEF SeatsHold, Unshown, SameExcept
  <2>3. \E j \in 1..Len(rest) : rest[j] = ws[o]
    BY <2>1, <2>2, Remaining
  <2>. HIDE DEF rest
  <2>. QED  BY <2>2, <2>3
<1>. HIDE DEF rest
<1>. QED  BY <1>1 DEF rest, SeatsHold, ShownTo, SameExcept

LEMMA FinishKeepsClaims ==
    ASSUME NEW ws \in Seq(Work), NEW cl, ClaimsHold(cl, ws), NEW i \in 1..Len(ws), NEW cl2,
           ClaimsLeft(cl, cl2, ws[i])
    PROVE  ClaimsHold(cl2, RemoveAt(ws, i))
<1>. DEFINE rest == RemoveAt(ws, i)
<1>1. ASSUME NEW u \in Searcher, cl2[u] # NoEntry
      PROVE  \E j \in 1..Len(rest) : \E k \in DOMAIN rest[j].entries : cl2[u] = rest[j].entries[k]
  <2>1. cl2[u] = cl[u] /\ \A k \in DOMAIN ws[i].entries : cl[u] # ws[i].entries[k]
    BY <1>1 DEF ClaimsLeft
  <2>2. PICK o \in 1..Len(ws) : \E k \in DOMAIN ws[o].entries : cl[u] = ws[o].entries[k]
    BY <1>1, <2>1 DEF ClaimsHold
  <2>. o # i
    BY <2>1, <2>2
  <2>3. \E j \in 1..Len(rest) : rest[j] = ws[o]
    BY Remaining
  <2>. HIDE DEF rest
  <2>. QED  BY <2>1, <2>2, <2>3
<1>. HIDE DEF rest
<1>. QED  BY <1>1 DEF rest, ClaimsHold

\* Work goes on to another stage, and only the players it concerns may have changed.
LEMMA ContinueKeeps ==
    ASSUME NEW ws \in Seq(Work), NEW ph, NEW cl, NEW st,
           WorkHolds(ws, ph, cl, st), SeatsHold(ph, st, ws), ClaimsHold(cl, ws),
           NEW i \in 1..Len(ws), RunsIn(ws, i), NEW ph2, NEW cl2, NEW st2,
           SameExcept(Concerned(ws[i]), ph, ph2), SameExcept(Concerned(ws[i]), cl, cl2), SameExcept(Concerned(ws[i]), st, st2),
           NEW w \in Work, Proper(w), StageHolds(w, ph2, cl2, st2),
           w.users = ws[i].users, w.entries = ws[i].entries,
           SeatedBy(w, ph2, st2),
           NoMoreClaims(cl, cl2),
           NEW ws2, ws2 = [ws EXCEPT ![i] = w]
    PROVE  /\ ws2 \in Seq(Work) /\ WorkHolds(ws2, ph2, cl2, st2)
           /\ SeatsHold(ph2, st2, ws2) /\ ClaimsHold(cl2, ws2)
<1>1. ws2 \in Seq(Work) /\ Len(ws2) = Len(ws) /\ ws2[i] = w /\ \A j \in 1..Len(ws) : j # i => ws2[j] = ws[j]
  OBVIOUS
<1>2. \A j \in 1..Len(ws) : Concerned(ws2[j]) = Concerned(ws[j]) /\ ws2[j].entries = ws[j].entries
  BY <1>1 DEF Concerned
<1>3. \A j \in 1..Len(ws) : RunsIn(ws2, j) <=> RunsIn(ws, j)
  <2>1. \A j \in 1..Len(ws) : \A l \in 1..(j - 1) : l \in 1..Len(ws)
    OBVIOUS
  <2>. QED  BY <1>2, <2>1 DEF RunsIn
<1>4. ASSUME NEW j \in 1..Len(ws), j # i
      PROVE  Proper(ws2[j]) /\ (Started(ws2[j]) => RunsIn(ws2, j)) /\ StageHolds(ws2[j], ph2, cl2, st2)
  <2>1. ws2[j] = ws[j] /\ Proper(ws[j]) /\ (Started(ws[j]) => RunsIn(ws, j)) /\ StageHolds(ws[j], ph, cl, st) /\ ws[j] \in Work
    BY <1>1, <1>4 DEF WorkHolds
  <2>2. StageHolds(ws[j], ph2, cl2, st2)
    <3>1. CASE ~Started(ws[j])  BY <3>1 DEF StageHolds
    <3>2. CASE Started(ws[j])
      <4>1. Concerned(ws[i]) \cap Concerned(ws[j]) = {}
        BY <1>4, <3>2, Apart
      <4>2. Concerned(ws[j]) \subseteq Searcher
        BY <2>1, PlayersOfWork
      <4>3. \A u \in Concerned(ws[j]) : ph2[u] = ph[u] /\ cl2[u] = cl[u] /\ st2[u] = st[u]
        BY <4>1, <4>2 DEF SameExcept
      <4>. QED  BY <2>1, <4>3, OthersStand
    <3>. QED  BY <3>1, <3>2
  <2>. QED  BY <1>3, <2>1, <2>2
<1>5. WorkHolds(ws2, ph2, cl2, st2)
  <2>1. Proper(ws2[i]) /\ RunsIn(ws2, i) /\ StageHolds(ws2[i], ph2, cl2, st2)
    BY <1>1, <1>3
  <2>. QED  BY <1>1, <1>4, <2>1 DEF WorkHolds
<1>6. SeatsHold(ph2, st2, ws2)
  <2>1. ASSUME NEW u \in Searcher, u \notin Concerned(ws[i]), Unshown(u, ph2, st2)
        PROVE  \E j \in 1..Len(ws2) : Started(ws2[j]) /\ u \in Concerned(ws2[j]) /\ ws2[j].key = st2[u]
    <3>1. PICK o \in 1..Len(ws) : Started(ws[o]) /\ u \in Concerned(ws[o]) /\ ws[o].key = st2[u]
      BY <2>1 DEF SeatsHold, Unshown, SameExcept
    <3>2. o # i
      BY <2>1, <3>1
    <3>. QED  BY <1>1, <3>1, <3>2
  <2>2. \A u \in Concerned(ws[i]) : Unshown(u, ph2, st2) => Started(ws2[i]) /\ u \in Concerned(ws2[i]) /\ ws2[i].key = st2[u]
    BY <1>1, <1>2 DEF SeatedBy, Concerned
  <2>3. \A u \in Searcher : ph2[u] = "in-room" => st2[u] # NoSeat
    <3>1. Concerned(w) = Concerned(ws[i])
      BY DEF Concerned
    <3>. QED  BY <3>1 DEF SeatsHold, SeatedBy, SameExcept
  <2>. QED  BY <1>1, <2>1, <2>2, <2>3 DEF SeatsHold
<1>7. ClaimsHold(cl2, ws2)
  BY <1>1, <1>2 DEF ClaimsHold, NoMoreClaims
<1>. QED  BY <1>1, <1>5, <1>6, <1>7

\* New work is queued.
LEMMA EnqueueKeeps ==
    ASSUME NEW ws \in Seq(Work), NEW ph, NEW cl, NEW st, NEW cl2, NEW w \in Work,
           WorkHolds(ws, ph, cl, st), SeatsHold(ph, st, ws), ClaimsHold(cl, ws),
           Proper(w), ~Started(w),
           AllStand(ws, ph, cl2, st), ClaimsOrOf(cl, cl2, w),
           NEW ws2, ws2 = Append(ws, w)
    PROVE  ws2 \in Seq(Work) /\ WorkHolds(ws2, ph, cl2, st) /\ SeatsHold(ph, st, ws2) /\ ClaimsHold(cl2, ws2)
<1>1. /\ ws2 \in Seq(Work) /\ Len(ws2) = Len(ws) + 1 /\ ws2[Len(ws) + 1] = w /\ Len(ws) \in Nat
      /\ \A j \in 1..Len(ws) : ws2[j] = ws[j]
  OBVIOUS
<1>2. \A j \in 1..Len(ws) : RunsIn(ws2, j) <=> RunsIn(ws, j)
  <2>1. \A j \in 1..Len(ws) : \A l \in 1..(j - 1) : l \in 1..Len(ws)
    OBVIOUS
  <2>. QED  BY <1>1, <2>1 DEF RunsIn
<1>3. \A j \in 1..Len(ws2) : j \in 1..Len(ws) \/ j = Len(ws) + 1
  BY <1>1
<1>4. StageHolds(w, ph, cl2, st)
  BY DEF StageHolds
<1>5. WorkHolds(ws2, ph, cl2, st)
  BY <1>1, <1>2, <1>3, <1>4 DEF WorkHolds, AllStand
<1>6. SeatsHold(ph, st, ws2)
  <2>1. \A j \in 1..Len(ws) : j \in 1..Len(ws2)  BY <1>1
  <2>. QED  BY <1>1, <2>1 DEF SeatsHold
<1>7. ClaimsHold(cl2, ws2)
  <2>1. /\ \A j \in 1..Len(ws) : j \in 1..Len(ws2)
        /\ Len(ws) + 1 \in 1..Len(ws2)
    BY <1>1
  <2>. QED  BY <1>1, <2>1 DEF ClaimsHold, ClaimsOrOf
<1>. QED  BY <1>1, <1>5, <1>6, <1>7

------------------------------------------------------------------------------
(* Quick play: its steps *)

LEMMA WorkAt ==
    ASSUME QuickInv, NEW i \in DOMAIN work
    PROVE  /\ i \in 1..Len(work) /\ work \in Seq(Work) /\ work[i] \in Work
           /\ Proper(work[i]) /\ StageHolds(work[i], phase, claims, seat)
           /\ Concerned(work[i]) \subseteq Searcher /\ \A k \in DOMAIN work[i].users : work[i].users[k] \in Concerned(work[i])
           /\ \A u \in Concerned(work[i]) : \E k \in DOMAIN work[i].users : work[i].users[k] = u
           /\ Runs(i) <=> RunsIn(work, i)
<1>1. work \in Seq(Work) /\ i \in 1..Len(work) /\ work[i] \in Work
  BY DEF QuickInv, QuickTypes
<1>2. Proper(work[i]) /\ StageHolds(work[i], phase, claims, seat)
  BY <1>1 DEF QuickInv, WorkHolds
<1>3. Concerned(work[i]) \subseteq Searcher /\ \A k \in DOMAIN work[i].users : work[i].users[k] \in Concerned(work[i])
  BY <1>1, PlayersOfWork
<1>4. \A u \in Concerned(work[i]) : \E k \in DOMAIN work[i].users : work[i].users[k] = u
  BY DEF Concerned
<1>5. Runs(i) <=> RunsIn(work, i)
  BY DEF Runs, RunsIn
<1>. QED  BY <1>1, <1>2, <1>3, <1>4, <1>5

LEMMA ReadyWork ==
    ASSUME NEW kind, NEW stage, NEW i \in Ready(kind, stage)
    PROVE  i \in DOMAIN work /\ work[i].kind = kind /\ work[i].stage = stage /\ Runs(i)
BY DEF Ready

\* Where nothing has started, a seat is shown to whoever holds it.
LEMMA QuietPlayers ==
    ASSUME QuickInv, NEW i \in DOMAIN work, Runs(i), ~Started(work[i]), NEW u \in Concerned(work[i])
    PROVE  phase[u] = "in-room" <=> seat[u] # NoSeat
<1>1. u \in Searcher /\ RunsIn(work, i) /\ i \in 1..Len(work) /\ work \in Seq(Work)
  BY WorkAt
<1>2. phase[u] = "in-room" => seat[u] # NoSeat
  BY <1>1 DEF QuickInv, SeatsHold
<1>3. ASSUME Unshown(u, phase, seat) PROVE FALSE
  <2>1. PICK j \in 1..Len(work) : Started(work[j]) /\ u \in Concerned(work[j])
    BY <1>1, <1>3 DEF QuickInv, SeatsHold
  <2>2. j # i
    BY <2>1
  <2>3. WorkHolds(work, phase, claims, seat)
    BY DEF QuickInv
  <2>4. Concerned(work[i]) \cap Concerned(work[j]) = {}
    BY <1>1, <2>1, <2>2, <2>3, Apart
  <2>. QED  BY <2>1, <2>4
<1>. QED  BY <1>2, <1>3 DEF Unshown

\* Work is finished.
LEMMA FinishKeeps ==
    ASSUME QuickInv, NEW i \in DOMAIN work, Runs(i), Finish(i),
           SameExcept(Concerned(work[i]), phase, phase'), SameExcept(Concerned(work[i]), claims, claims'),
           SameExcept(Concerned(work[i]), seat, seat'),
           ShownTo(Concerned(work[i]), phase', seat'), ClaimsLeft(claims, claims', work[i]),
           SearchesHold(phase', socket', waiting', claims'),
           phase' \in [Searcher -> Phase], socket' \in [Searcher -> Nat], opened' \in Nat \ {0},
           waiting' \subseteq Entry, claims' \in [Searcher -> Entry \cup {NoEntry}], order' \in Nat,
           seat' \in [Searcher -> Nat], sent' \in Nat
    PROVE  QuickInv'
<1>1. i \in 1..Len(work) /\ work \in Seq(Work) /\ RunsIn(work, i)
  BY WorkAt
<1>2. WorkHolds(work, phase, claims, seat) /\ SeatsHold(phase, seat, work) /\ ClaimsHold(claims, work)
  BY DEF QuickInv
<1>3. work' = RemoveAt(work, i)
  BY DEF Finish
<1>4. work' \in Seq(Work) /\ WorkHolds(work', phase', claims', seat')
  BY <1>1, <1>2, <1>3, FinishKeepsWork
<1>5. SeatsHold(phase', seat', work')
  BY <1>1, <1>2, <1>3, FinishKeepsSeats
<1>6. ClaimsHold(claims', work')
  BY <1>1, <1>2, <1>3, FinishKeepsClaims
<1>. QED  BY <1>4, <1>5, <1>6 DEF QuickInv, QuickTypes

\* A claim on an entry of somebody's work keeps being held by it until it is finished.
LEMMA ClaimOfEntry ==
    ASSUME QuickInv, NEW i \in DOMAIN work, NEW k \in DOMAIN work[i].entries
    PROVE  /\ work[i].kind = "pairing" /\ k \in DOMAIN work[i].users /\ work[i].entries[k] \in Entry
           /\ work[i].entries[k].user = work[i].users[k] /\ work[i].users[k] \in Concerned(work[i])
           /\ work[i].entries[k] # NoEntry
<1>1. work[i] \in Work /\ Proper(work[i])
  BY WorkAt
<1>2. work[i].entries \in Seq(Entry)
  BY <1>1 DEF Work
<1>3. work[i].kind = "pairing" /\ k \in {1, 2} /\ k \in DOMAIN work[i].users
      /\ work[i].entries[k].user = work[i].users[k]
  BY <1>1 DEF Proper
<1>4. work[i].entries[k] \in Entry
  BY <1>2
<1>5. work[i].entries[k] # NoEntry
  BY <1>4 DEF Entry, NoEntry
<1>. QED  BY <1>3, <1>4, <1>5, WorkAt

\* Work that finishes without a word to anybody, and is no pairing.
LEMMA FinishQuietly ==
    ASSUME QuickInv, NEW i \in DOMAIN work, Runs(i), Finish(i), work[i].kind # "pairing",
           ShownTo(Concerned(work[i]), phase, seat),
           UNCHANGED <<phase, socket, opened, waiting, claims, order, seat, sent>>
    PROVE  QuickInv'
<1>1. DOMAIN work[i].entries = {}
  BY WorkAt DEF Proper
<1>2. SearchesHold(phase', socket', waiting', claims')
  BY DEF QuickInv
<1>3. /\ phase' \in [Searcher -> Phase] /\ socket' \in [Searcher -> Nat] /\ opened' \in Nat \ {0}
      /\ waiting' \subseteq Entry /\ claims' \in [Searcher -> Entry \cup {NoEntry}] /\ order' \in Nat
      /\ seat' \in [Searcher -> Nat] /\ sent' \in Nat
  BY DEF QuickInv, QuickTypes
<1>4. /\ SameExcept(Concerned(work[i]), phase, phase') /\ SameExcept(Concerned(work[i]), claims, claims')
      /\ SameExcept(Concerned(work[i]), seat, seat')
  BY DEF SameExcept
<1>5. ShownTo(Concerned(work[i]), phase', seat') /\ ClaimsLeft(claims, claims', work[i])
  BY <1>1 DEF ClaimsLeft
<1>. QED  BY <1>2, <1>3, <1>4, <1>5, FinishKeeps

\* The player whom queued work of one session concerns.
LEMMA OnePlayer ==
    ASSUME QuickInv, NEW i \in DOMAIN work, work[i].kind # "pairing"
    PROVE  /\ work[i].users[1] \in Searcher /\ Concerned(work[i]) = {work[i].users[1]}
           /\ DOMAIN work[i].entries = {} /\ work[i].sockets[1] # 0
<1>1. DOMAIN work[i].users = {1} /\ DOMAIN work[i].entries = {} /\ work[i].sockets[1] # 0
  BY WorkAt DEF Proper
<1>2. Concerned(work[i]) = {work[i].users[1]}
  BY <1>1 DEF Concerned
<1>. QED  BY <1>1, <1>2, WorkAt

LEMMA RestoreMembershipKeeps ==
    ASSUME QuickInv, RestoreMembership
    PROVE  QuickInv'
<1>1. PICK i \in Ready("membership", "queued") :
          /\ phase' = [phase EXCEPT ![work[i].users[1]] =
                           IF socket[work[i].users[1]] = work[i].sockets[1] /\ Projected(work[i].users[1]) THEN "in-room" ELSE @]
          /\ Finish(i)
          /\ UNCHANGED <<socket, opened, waiting, claims, order, seat, sent, outages>>
  BY DEF RestoreMembership
<1>2. i \in DOMAIN work /\ work[i].kind = "membership" /\ work[i].stage = "queued" /\ Runs(i)
  BY ReadyWork
<1>3. ShownTo(Concerned(work[i]), phase, seat)
  BY <1>2, QuietPlayers DEF Started, ShownTo
<1>4. work[i].users[1] \in Concerned(work[i]) /\ work[i].users[1] \in Searcher
  BY <1>2, OnePlayer
<1>5. ~Projected(work[i].users[1])
  BY <1>3, <1>4 DEF ShownTo, Projected
<1>6. UNCHANGED phase
  BY <1>1, <1>4, <1>5 DEF QuickInv, QuickTypes
<1>. QED  BY <1>1, <1>2, <1>3, <1>6, FinishQuietly

LEMMA RefuseKeeps ==
    ASSUME QuickInv, Refuse
    PROVE  QuickInv'
<1>1. PICK i \in DOMAIN work :
          /\ work[i].kind \in {"join", "leave", "bot", "quit"} /\ work[i].stage = "queued" /\ Runs(i) /\ Finish(i)
          /\ UNCHANGED <<phase, socket, opened, waiting, claims, order, seat, sent, outages>>
  BY DEF Refuse
<1>2. ShownTo(Concerned(work[i]), phase, seat)
  BY <1>1, QuietPlayers DEF Started, ShownTo
<1>. QED  BY <1>1, <1>2, FinishQuietly

\* Somebody stops searching.
LEMMA LeavingKeeps ==
    ASSUME QuickInv, NEW u \in Searcher, LeavePool(u) \/ (phase[u] = "idle" /\ UNCHANGED poolVars),
           phase' \in [Searcher -> Phase], phase'[u] # "matchmaking", SameExcept({u}, phase, phase'),
           SameExcept({u}, socket, socket')
    PROVE  /\ waiting' \subseteq Entry /\ claims' \in [Searcher -> Entry \cup {NoEntry}]
           /\ SameExcept({u}, claims, claims') /\ NoMoreClaims(claims, claims') /\ claims'[u] = NoEntry
           /\ SearchesHold(phase', socket', waiting', claims')
<1>1. waiting \subseteq Entry /\ claims \in [Searcher -> Entry \cup {NoEntry}] /\ SearchesHold(phase, socket, waiting, claims)
  BY DEF QuickInv, QuickTypes
<1>2. phase[u] = "idle" => claims[u] = NoEntry /\ waiting = {e \in waiting : e.user # u}
  BY <1>1 DEF SearchesHold, PlaceHolds, Waits
<1>3. waiting' = {e \in waiting : e.user # u} /\ claims' = [claims EXCEPT ![u] = NoEntry]
  BY <1>1, <1>2 DEF LeavePool, poolVars
<1>4. waiting' \subseteq Entry /\ claims' \in [Searcher -> Entry \cup {NoEntry}] /\ claims'[u] = NoEntry
  BY <1>1, <1>3
<1>5. SameExcept({u}, claims, claims') /\ NoMoreClaims(claims, claims')
  BY <1>1, <1>3, <1>4 DEF SameExcept, NoMoreClaims
<1>6. PlaceHolds(u, phase', socket', waiting', claims')
  BY <1>3, <1>4 DEF PlaceHolds, Waits
<1>7. ASSUME NEW v \in Searcher, v # u PROVE PlaceHolds(v, phase', socket', waiting', claims')
  <2>1. phase'[v] = phase[v] /\ socket'[v] = socket[v] /\ claims'[v] = claims[v]
    BY <1>5, <1>7 DEF SameExcept
  <2>2. Waits(waiting', v) <=> Waits(waiting, v)
    BY <1>3, <1>7 DEF Waits
  <2>. QED  BY <1>1, <2>1, <2>2 DEF SearchesHold, PlaceHolds
<1>8. \A e, f \in waiting' : e.user = f.user => e = f
  BY <1>1, <1>3 DEF SearchesHold
<1>. QED  BY <1>4, <1>5, <1>6, <1>7, <1>8 DEF SearchesHold

LEMMA LeaveKeeps ==
    ASSUME QuickInv, Leave
    PROVE  QuickInv'
<1>1. PICK i \in Ready("leave", "queued") :
          /\ phase' = [phase EXCEPT ![work[i].users[1]] = "idle"]
          /\ LeavePool(work[i].users[1]) /\ Finish(i)
          /\ phase[work[i].users[1]] = "matchmaking"
          /\ UNCHANGED <<socket, opened, order, seat, sent, outages>>
  BY DEF Leave
<1>. DEFINE u == work[i].users[1]
<1>2. i \in DOMAIN work /\ work[i].kind = "leave" /\ work[i].stage = "queued" /\ Runs(i)
  BY ReadyWork
<1>3. u \in Searcher /\ Concerned(work[i]) = {u} /\ DOMAIN work[i].entries = {}
  BY <1>2, OnePlayer
<1>4. phase[u] = "in-room" <=> seat[u] # NoSeat
  BY <1>2, <1>3, QuietPlayers DEF Started
<1>5. phase' \in [Searcher -> Phase] /\ phase'[u] = "idle" /\ SameExcept({u}, phase, phase') /\ SameExcept({u}, socket, socket')
  BY <1>1, <1>3 DEF QuickInv, QuickTypes, Phase, SameExcept
<1>6. /\ waiting' \subseteq Entry /\ claims' \in [Searcher -> Entry \cup {NoEntry}]
      /\ SameExcept({u}, claims, claims') /\ NoMoreClaims(claims, claims')
      /\ SearchesHold(phase', socket', waiting', claims')
  BY <1>1, <1>3, <1>5, LeavingKeeps
<1>7. SameExcept({u}, seat, seat') /\ ShownTo({u}, phase', seat') /\ ClaimsLeft(claims, claims', work[i])
  BY <1>1, <1>3, <1>4, <1>5, <1>6 DEF SameExcept, ShownTo, ClaimsLeft, NoMoreClaims
<1>8. socket' \in [Searcher -> Nat] /\ opened' \in Nat \ {0} /\ order' \in Nat /\ seat' \in [Searcher -> Nat] /\ sent' \in Nat
  BY <1>1 DEF QuickInv, QuickTypes
<1>. HIDE DEF u
<1>. QED  BY <1>1, <1>2, <1>3, <1>5, <1>6, <1>7, <1>8, FinishKeeps

LEMMA QuitKeeps ==
    ASSUME QuickInv, Quit
    PROVE  QuickInv'
<1>1. PICK i \in Ready("quit", "queued") :
          /\ phase[work[i].users[1]] = "in-room"
          /\ phase' = [phase EXCEPT ![work[i].users[1]] = "idle"]
          /\ seat' = [seat EXCEPT ![work[i].users[1]] = NoSeat]
          /\ Finish(i)
          /\ UNCHANGED <<socket, opened, waiting, claims, order, sent, outages>>
  BY DEF Quit
<1>. DEFINE u == work[i].users[1]
<1>2. i \in DOMAIN work /\ work[i].kind = "quit" /\ Runs(i)
  BY ReadyWork
<1>3. u \in Searcher /\ Concerned(work[i]) = {u} /\ DOMAIN work[i].entries = {}
  BY <1>2, OnePlayer
<1>4. /\ phase' \in [Searcher -> Phase] /\ phase'[u] = "idle" /\ SameExcept({u}, phase, phase')
      /\ seat' \in [Searcher -> Nat] /\ seat'[u] = NoSeat /\ SameExcept({u}, seat, seat')
  BY <1>1, <1>3 DEF QuickInv, QuickTypes, Phase, SameExcept, NoSeat
<1>5. SearchesHold(phase', socket', waiting', claims')
  BY <1>1, <1>4 DEF QuickInv, SearchesHold, PlaceHolds, SameExcept
<1>6. SameExcept({u}, claims, claims') /\ ShownTo({u}, phase', seat') /\ ClaimsLeft(claims, claims', work[i])
  BY <1>1, <1>3, <1>4 DEF SameExcept, ShownTo, ClaimsLeft
<1>7. /\ socket' \in [Searcher -> Nat] /\ opened' \in Nat \ {0} /\ order' \in Nat /\ sent' \in Nat
      /\ waiting' \subseteq Entry /\ claims' \in [Searcher -> Entry \cup {NoEntry}]
  BY <1>1 DEF QuickInv, QuickTypes
<1>. HIDE DEF u
<1>. QED  BY <1>1, <1>2, <1>3, <1>4, <1>5, <1>6, <1>7, FinishKeeps

LEMMA JoinKeeps ==
    ASSUME QuickInv, Join
    PROVE  QuickInv'
<1>1. PICK i \in Ready("join", "queued") :
          LET u == work[i].users[1] IN
          /\ Current(work[i]) /\ phase[u] = "idle"
          /\ phase' = [phase EXCEPT ![u] = "matchmaking"]
          /\ IF InPool(u) \/ claims[u] # NoEntry THEN UNCHANGED <<waiting, order>>
             ELSE order' = order + 1 /\ waiting' = waiting \cup {[user |-> u, order |-> order']}
          /\ Finish(i)
          /\ UNCHANGED <<socket, opened, claims, seat, sent, outages>>
  BY DEF Join
<1>. DEFINE u == work[i].users[1]
<1>2. i \in DOMAIN work /\ work[i].kind = "join" /\ work[i].stage = "queued" /\ Runs(i)
  BY ReadyWork
<1>3. u \in Searcher /\ Concerned(work[i]) = {u} /\ DOMAIN work[i].entries = {} /\ socket[u] # 0
  BY <1>1, <1>2, OnePlayer DEF Current
<1>4. (phase[u] = "in-room" <=> seat[u] # NoSeat) /\ phase[u] = "idle"
  BY <1>1, <1>2, <1>3, QuietPlayers DEF Started
<1>5. /\ waiting \subseteq Entry /\ claims \in [Searcher -> Entry \cup {NoEntry}] /\ order \in Nat
      /\ SearchesHold(phase, socket, waiting, claims) /\ PlaceHolds(u, phase, socket, waiting, claims)
  BY <1>3 DEF QuickInv, QuickTypes, SearchesHold
<1>6. ~InPool(u) /\ claims[u] = NoEntry /\ \A e \in waiting : e.user # u
  BY <1>4, <1>5 DEF PlaceHolds, Waits, InPool
<1>. DEFINE entry == [user |-> u, order |-> order + 1]
<1>7. order' = order + 1 /\ waiting' = waiting \cup {entry}
  BY <1>1, <1>6
<1>8. entry \in Entry /\ entry.user = u
  BY <1>3, <1>5 DEF Entry
<1>9. phase' \in [Searcher -> Phase] /\ phase'[u] = "matchmaking" /\ SameExcept({u}, phase, phase')
  BY <1>1, <1>3 DEF QuickInv, QuickTypes, Phase, SameExcept
<1>10. socket' = socket /\ claims' = claims /\ seat' = seat /\ opened' = opened /\ sent' = sent /\ Finish(i)
  BY <1>1
<1>. HIDE DEF u, entry
<1>11. SearchesHold(phase', socket', waiting', claims')
  <2>1. PlaceHolds(u, phase', socket, waiting', claims)
    BY <1>3, <1>6, <1>7, <1>8, <1>9 DEF PlaceHolds, Waits
  <2>2. ASSUME NEW v \in Searcher, v # u PROVE PlaceHolds(v, phase', socket, waiting', claims)
    <3>1. phase'[v] = phase[v] /\ (Waits(waiting', v) <=> Waits(waiting, v))
      BY <1>7, <1>8, <1>9, <2>2 DEF SameExcept, Waits
    <3>. QED  BY <1>5, <3>1 DEF SearchesHold, PlaceHolds
  <2>3. \A e, f \in waiting' : e.user = f.user => e = f
    BY <1>5, <1>6, <1>7, <1>8 DEF SearchesHold
  <2>. QED  BY <1>10, <2>1, <2>2, <2>3 DEF SearchesHold
<1>12. SameExcept({u}, claims, claims') /\ SameExcept({u}, seat, seat') /\ ShownTo({u}, phase', seat')
       /\ ClaimsLeft(claims, claims', work[i])
  BY <1>3, <1>4, <1>9, <1>10 DEF SameExcept, ShownTo, ClaimsLeft
<1>13. /\ socket' \in [Searcher -> Nat] /\ opened' \in Nat \ {0} /\ order' \in Nat /\ sent' \in Nat
       /\ waiting' \subseteq Entry /\ claims' \in [Searcher -> Entry \cup {NoEntry}] /\ seat' \in [Searcher -> Nat]
  BY <1>5, <1>7, <1>8, <1>10 DEF QuickInv, QuickTypes
<1>. QED  BY <1>2, <1>3, <1>9, <1>10, <1>11, <1>12, <1>13, FinishKeeps

\* New work is queued, while everything else but sockets and claims stands.
LEMMA QueueKeeps ==
    ASSUME QuickInv, NEW w \in Work, Proper(w), ~Started(w), Enqueue(w),
           AllStand(work, phase, claims', seat), ClaimsOrOf(claims, claims', w),
           SearchesHold(phase, socket', waiting', claims'),
           UNCHANGED <<phase, seat, order>>,
           socket' \in [Searcher -> Nat], opened' \in Nat \ {0}, sent' \in Nat,
           waiting' \subseteq Entry, claims' \in [Searcher -> Entry \cup {NoEntry}]
    PROVE  QuickInv'
<1>1. /\ work \in Seq(Work) /\ WorkHolds(work, phase, claims, seat) /\ SeatsHold(phase, seat, work)
      /\ ClaimsHold(claims, work)
  BY DEF QuickInv, QuickTypes
<1>2. work' = Append(work, w)
  BY DEF Enqueue
<1>3. work' \in Seq(Work) /\ WorkHolds(work', phase, claims', seat) /\ SeatsHold(phase, seat, work') /\ ClaimsHold(claims', work')
  BY <1>1, <1>2, EnqueueKeeps
<1>. QED  BY <1>3 DEF QuickInv, QuickTypes

LEMMA StandingClaims ==
    ASSUME QuickInv, claims' = claims, NEW w
    PROVE  AllStand(work, phase, claims', seat) /\ ClaimsOrOf(claims, claims', w)
BY DEF QuickInv, WorkHolds, AllStand, ClaimsOrOf

LEMMA ConnectKeeps ==
    ASSUME QuickInv, NEW u \in Searcher, Connect(u)
    PROVE  QuickInv'
<1>. DEFINE w == [kind |-> "membership", stage |-> "queued", users |-> <<u>>, sockets |-> <<opened'>>,
                  entries |-> << >>, key |-> 0]
<1>1. /\ opened' = opened + 1 /\ socket' = [socket EXCEPT ![u] = opened'] /\ Enqueue(w)
      /\ UNCHANGED <<phase, waiting, claims, order, seat, sent, outages>>
  BY DEF Connect
<1>2. opened' \in Nat \ {0} /\ socket' \in [Searcher -> Nat] /\ socket'[u] # 0 /\ SameExcept({u}, socket, socket')
  BY <1>1 DEF QuickInv, QuickTypes, SameExcept
<1>3. w \in Work /\ Proper(w) /\ ~Started(w)
  <2>1. <<u>> \in Seq(Searcher) /\ <<opened'>> \in Seq(Nat) /\ << >> \in Seq(Entry)
    BY <1>2
  <2>2. w \in Work
    BY <2>1 DEF Work, WorkKind, WorkStage
  <2>3. DOMAIN w.users = {1} /\ DOMAIN w.entries = {} /\ w.sockets[1] # 0
    BY <1>2
  <2>. QED  BY <2>2, <2>3 DEF Proper, Started
<1>. HIDE DEF w
<1>4. SearchesHold(phase, socket', waiting', claims')
  BY <1>1, <1>2 DEF QuickInv, SearchesHold, PlaceHolds, SameExcept
<1>5. AllStand(work, phase, claims', seat) /\ ClaimsOrOf(claims, claims', w)
  BY <1>1, StandingClaims
<1>6. sent' \in Nat /\ waiting' \subseteq Entry /\ claims' \in [Searcher -> Entry \cup {NoEntry}]
  BY <1>1 DEF QuickInv, QuickTypes
<1>. QED  BY <1>1, <1>2, <1>3, <1>4, <1>5, <1>6, QueueKeeps

LEMMA SendKeeps ==
    ASSUME QuickInv, NEW u \in Searcher, Send(u)
    PROVE  QuickInv'
<1>1. PICK kind \in {"join", "leave", "bot", "quit"} : Enqueue(Order(kind, u))
  BY DEF Send
<1>. DEFINE w == Order(kind, u)
<1>2. socket[u] # 0 /\ sent' = sent + 1 /\ UNCHANGED <<phase, socket, opened, waiting, claims, order, seat, outages>>
  BY DEF Send
<1>3. socket[u] \in Nat /\ sent \in Nat
  BY DEF QuickInv, QuickTypes
<1>4. w = [kind |-> kind, stage |-> "queued", users |-> <<u>>, sockets |-> <<socket[u]>>, entries |-> << >>, key |-> sent + 1]
  BY DEF Order
<1>. HIDE DEF w
<1>5. w \in Work /\ Proper(w) /\ ~Started(w)
  <2>1. <<u>> \in Seq(Searcher) /\ <<socket[u]>> \in Seq(Nat) /\ << >> \in Seq(Entry)
    BY <1>3
  <2>2. w \in Work
    BY <1>3, <1>4, <2>1 DEF Work, WorkKind, WorkStage
  <2>3. DOMAIN w.users = {1} /\ DOMAIN w.entries = {} /\ w.sockets[1] # 0 /\ w.key # 0
    BY <1>2, <1>3, <1>4
  <2>. QED  BY <1>4, <2>2, <2>3 DEF Proper, Started
<1>6. SearchesHold(phase, socket', waiting', claims')
  BY <1>2 DEF QuickInv
<1>7. AllStand(work, phase, claims', seat) /\ ClaimsOrOf(claims, claims', w)
  BY <1>2, StandingClaims
<1>8. /\ socket' \in [Searcher -> Nat] /\ opened' \in Nat \ {0} /\ sent' \in Nat /\ waiting' \subseteq Entry
      /\ claims' \in [Searcher -> Entry \cup {NoEntry}]
  BY <1>2 DEF QuickInv, QuickTypes
<1>. QED  BY <1>1, <1>2, <1>5, <1>6, <1>7, <1>8, QueueKeeps DEF w

LEMMA DisconnectKeeps ==
    ASSUME QuickInv, NEW u \in Searcher, Disconnect(u)
    PROVE  QuickInv'
<1>. DEFINE after == IF phase[u] = "matchmaking" THEN "idle" ELSE phase[u]
<1>1. /\ socket' = [socket EXCEPT ![u] = 0] /\ phase' = [phase EXCEPT ![u] = after]
      /\ LeavePool(u) /\ UNCHANGED <<opened, order, seat, work, sent, outages>>
  BY DEF Disconnect
<1>2. /\ work \in Seq(Work) /\ WorkHolds(work, phase, claims, seat) /\ SeatsHold(phase, seat, work)
      /\ ClaimsHold(claims, work) /\ phase \in [Searcher -> Phase]
  BY DEF QuickInv, QuickTypes
<1>3. /\ phase' \in [Searcher -> Phase] /\ phase'[u] # "matchmaking" /\ SameExcept({u}, phase, phase')
      /\ (phase'[u] = "in-room" <=> phase[u] = "in-room")
  BY <1>1, <1>2 DEF Phase, SameExcept
<1>4. socket' \in [Searcher -> Nat] /\ SameExcept({u}, socket, socket')
  BY <1>1 DEF QuickInv, QuickTypes, SameExcept
<1>5. /\ waiting' \subseteq Entry /\ claims' \in [Searcher -> Entry \cup {NoEntry}]
      /\ SameExcept({u}, claims, claims') /\ NoMoreClaims(claims, claims')
      /\ SearchesHold(phase', socket', waiting', claims')
  BY <1>1, <1>3, <1>4, LeavingKeeps
<1>6. ASSUME NEW j \in 1..Len(work) PROVE StageHolds(work[j], phase', claims', seat)
  <2>1. StageHolds(work[j], phase, claims, seat) /\ work[j] \in Work
    BY <1>2 DEF WorkHolds
  <2>2. \A k \in DOMAIN work[j].users : work[j].users[k] \in Searcher
    BY <2>1, PlayersOfWork
  <2>3. \A v \in Searcher : phase'[v] = "matchmaking" => phase[v] = "matchmaking" /\ claims'[v] = claims[v]
    BY <1>3, <1>5 DEF SameExcept
  <2>. QED  BY <2>1, <2>2, <2>3 DEF StageHolds
<1>7. WorkHolds(work', phase', claims', seat')
  BY <1>1, <1>2, <1>6 DEF WorkHolds
<1>8. SeatsHold(phase', seat', work')
  <2>1. \A v \in Searcher : phase'[v] = "in-room" <=> phase[v] = "in-room"
    BY <1>3 DEF SameExcept
  <2>. QED  BY <1>1, <1>2, <2>1 DEF SeatsHold, Unshown
<1>9. ClaimsHold(claims', work')
  BY <1>1, <1>2, <1>5 DEF ClaimsHold, NoMoreClaims
<1>. QED  BY <1>1, <1>3, <1>4, <1>5, <1>7, <1>8, <1>9 DEF QuickInv, QuickTypes

\* Work that goes on, as far as the state of its players allows.
LEMMA GoingOnKeeps ==
    ASSUME QuickInv, NEW i \in DOMAIN work, Runs(i), NEW stage \in WorkStage, stage # "queued", Continue(i, stage),
           work[i].kind \in {"pairing", "bot"},
           SameExcept(Concerned(work[i]), phase, phase'), SameExcept(Concerned(work[i]), claims, claims'),
           SameExcept(Concerned(work[i]), seat, seat'), NoMoreClaims(claims, claims'),
           StageHolds([work[i] EXCEPT !.stage = stage], phase', claims', seat'),
           \A u \in Concerned(work[i]) : phase'[u] = "in-room" => seat'[u] # NoSeat,
           SearchesHold(phase', socket', waiting', claims'),
           phase' \in [Searcher -> Phase], socket' \in [Searcher -> Nat], opened' \in Nat \ {0},
           waiting' \subseteq Entry, claims' \in [Searcher -> Entry \cup {NoEntry}], order' \in Nat,
           seat' \in [Searcher -> Nat], sent' \in Nat
    PROVE  QuickInv'
<1>. DEFINE w == [work[i] EXCEPT !.stage = stage]
<1>1. i \in 1..Len(work) /\ work \in Seq(Work) /\ work[i] \in Work /\ Proper(work[i]) /\ RunsIn(work, i)
  BY WorkAt
<1>2. /\ w \in Work /\ w.stage = stage /\ w.kind = work[i].kind /\ w.users = work[i].users
      /\ w.entries = work[i].entries /\ w.key = work[i].key /\ w.sockets = work[i].sockets
  BY <1>1 DEF Work
<1>3. work' = [work EXCEPT ![i] = w]
  BY <1>1 DEF Continue
<1>. HIDE DEF w
<1>4. Proper(w) /\ StageHolds(w, phase', claims', seat')
  BY <1>1, <1>2 DEF Proper, w
<1>5. Concerned(w) = Concerned(work[i])
  BY <1>2 DEF Concerned
<1>6. SeatedBy(w, phase', seat')
  <2>1. Started(w)
    BY <1>2 DEF Started
  <2>2. \A u \in Concerned(w) : seat'[u] # NoSeat => seat'[u] = w.key
    BY <1>4, <2>1 DEF StageHolds
  <2>. QED  BY <1>5, <2>1, <2>2 DEF SeatedBy, Unshown
<1>7. WorkHolds(work, phase, claims, seat) /\ SeatsHold(phase, seat, work) /\ ClaimsHold(claims, work)
  BY DEF QuickInv
<1>8. /\ work' \in Seq(Work) /\ WorkHolds(work', phase', claims', seat')
      /\ SeatsHold(phase', seat', work') /\ ClaimsHold(claims', work')
  BY <1>1, <1>2, <1>3, <1>4, <1>6, <1>7, ContinueKeeps
<1>. QED  BY <1>8 DEF QuickInv, QuickTypes

\* Work goes on while nothing but seats changes.
LEMMA SeatingKeeps ==
    ASSUME QuickInv, NEW i \in DOMAIN work, Runs(i), NEW stage \in WorkStage, stage # "queued", Continue(i, stage),
           work[i].kind \in {"pairing", "bot"},
           UNCHANGED <<phase, socket, opened, waiting, claims, order, sent>>,
           SameExcept(Concerned(work[i]), seat, seat'), seat' \in [Searcher -> Nat],
           StageHolds([work[i] EXCEPT !.stage = stage], phase, claims, seat'),
           \A u \in Concerned(work[i]) : seat[u] # NoSeat => seat'[u] # NoSeat
    PROVE  QuickInv'
<1>1. SameExcept(Concerned(work[i]), phase, phase') /\ SameExcept(Concerned(work[i]), claims, claims') /\ NoMoreClaims(claims, claims')
  BY DEF SameExcept, NoMoreClaims
<1>2. \A u \in Concerned(work[i]) : phase'[u] = "in-room" => seat'[u] # NoSeat
  BY WorkAt DEF QuickInv, SeatsHold
<1>3. SearchesHold(phase', socket', waiting', claims')
  BY DEF QuickInv
<1>4. /\ phase' \in [Searcher -> Phase] /\ socket' \in [Searcher -> Nat] /\ opened' \in Nat \ {0} /\ order' \in Nat
      /\ waiting' \subseteq Entry /\ claims' \in [Searcher -> Entry \cup {NoEntry}] /\ sent' \in Nat
  BY DEF QuickInv, QuickTypes
<1>5. StageHolds([work[i] EXCEPT !.stage = stage], phase', claims', seat')
  OBVIOUS
<1>. QED  BY <1>1, <1>2, <1>3, <1>4, <1>5, GoingOnKeeps

\* The same work at another stage.
LEMMA AtStage ==
    ASSUME NEW w \in Work, NEW stage \in WorkStage
    PROVE  LET v == [w EXCEPT !.stage = stage] IN
           /\ v.stage = stage /\ v.kind = w.kind /\ v.users = w.users /\ v.entries = w.entries /\ v.key = w.key
           /\ Concerned(v) = Concerned(w)
BY DEF Work, Concerned

LEMMA BotPlayKeeps ==
    ASSUME QuickInv, BotPlay
    PROVE  QuickInv'
<1>1. PICK i \in Ready("bot", "queued") :
          LET u == work[i].users[1] IN
          /\ phase[u] \in {"idle", "matchmaking"}
          /\ phase' = [phase EXCEPT ![u] = "idle"]
          /\ IF phase[u] = "matchmaking" THEN LeavePool(u) ELSE UNCHANGED poolVars
          /\ Continue(i, "creating")
          /\ UNCHANGED <<socket, opened, order, seat, sent, outages>>
  BY DEF BotPlay
<1>. DEFINE u == work[i].users[1]
            v == [work[i] EXCEPT !.stage = "creating"]
<1>2. i \in DOMAIN work /\ work[i].kind = "bot" /\ work[i].stage = "queued" /\ Runs(i)
  BY ReadyWork
<1>3. u \in Searcher /\ Concerned(work[i]) = {u} /\ DOMAIN work[i].entries = {}
  BY <1>2, OnePlayer
<1>4. seat[u] = NoSeat
  BY <1>1, <1>2, <1>3, QuietPlayers DEF Started
<1>5. phase' \in [Searcher -> Phase] /\ phase'[u] = "idle" /\ SameExcept({u}, phase, phase') /\ SameExcept({u}, socket, socket')
  BY <1>1, <1>3 DEF QuickInv, QuickTypes, Phase, SameExcept
<1>6. LeavePool(u) \/ (phase[u] = "idle" /\ UNCHANGED poolVars)
  BY <1>1
<1>7. /\ waiting' \subseteq Entry /\ claims' \in [Searcher -> Entry \cup {NoEntry}]
      /\ SameExcept({u}, claims, claims') /\ NoMoreClaims(claims, claims')
      /\ SearchesHold(phase', socket', waiting', claims')
  BY <1>3, <1>5, <1>6, LeavingKeeps
<1>8. StageHolds(v, phase', claims', seat')
  <2>1. v.stage = "creating" /\ v.users = work[i].users /\ Concerned(v) = {u}
    BY <1>2, <1>3, WorkAt, AtStage DEF WorkStage
  <2>2. \A k \in DOMAIN work[i].users : work[i].users[k] = u
    BY <1>2, <1>3, WorkAt
  <2>3. seat'[u] = NoSeat
    BY <1>1, <1>4
  <2>. HIDE DEF v, u
  <2>. QED  BY <1>5, <2>1, <2>2, <2>3 DEF StageHolds
<1>9. SameExcept({u}, seat, seat') /\ \A x \in Concerned(work[i]) : phase'[x] = "in-room" => seat'[x] # NoSeat
  BY <1>1, <1>3, <1>5 DEF SameExcept
<1>10. socket' \in [Searcher -> Nat] /\ opened' \in Nat \ {0} /\ order' \in Nat /\ seat' \in [Searcher -> Nat] /\ sent' \in Nat
  BY <1>1 DEF QuickInv, QuickTypes
<1>11. Continue(i, "creating") /\ "creating" \in WorkStage
  BY <1>1 DEF WorkStage
<1>. HIDE DEF u
<1>. QED  BY <1>2, <1>3, <1>5, <1>7, <1>8, <1>9, <1>10, <1>11, GoingOnKeeps

LEMMA MatchKeeps ==
    ASSUME QuickInv, Match
    PROVE  QuickInv'
<1>1. PICK e \in waiting, f \in waiting :
          /\ e.order < f.order
          /\ waiting' = waiting \ {e, f}
          /\ claims' = [claims EXCEPT ![e.user] = e, ![f.user] = f]
          /\ Enqueue([kind |-> "pairing", stage |-> "queued", users |-> <<e.user, f.user>>,
                      sockets |-> <<socket[e.user], socket[f.user]>>, entries |-> <<e, f>>, key |-> MaxOrders + e.order])
          /\ UNCHANGED <<phase, socket, opened, order, seat, sent, outages>>
  BY DEF Match
<1>. DEFINE w == [kind |-> "pairing", stage |-> "queued", users |-> <<e.user, f.user>>,
                  sockets |-> <<socket[e.user], socket[f.user]>>, entries |-> <<e, f>>, key |-> MaxOrders + e.order]
<1>2. /\ waiting \subseteq Entry /\ claims \in [Searcher -> Entry \cup {NoEntry}] /\ socket \in [Searcher -> Nat]
      /\ SearchesHold(phase, socket, waiting, claims) /\ work \in Seq(Work) /\ WorkHolds(work, phase, claims, seat)
  BY DEF QuickInv, QuickTypes
<1>3. /\ e \in Entry /\ f \in Entry /\ e.user \in Searcher /\ f.user \in Searcher
      /\ e.order \in Nat \ {0} /\ f.order \in Nat \ {0} /\ e # NoEntry /\ f # NoEntry
  BY <1>2 DEF Entry, NoEntry
<1>4. e # f /\ e.user # f.user
  <2>1. e # f
    BY <1>1, <1>3
  <2>. QED  BY <1>2, <2>1 DEF SearchesHold
<1>5. Waits(waiting, e.user) /\ Waits(waiting, f.user)
  BY DEF Waits
<1>6. /\ claims[e.user] = NoEntry /\ phase[e.user] = "matchmaking" /\ socket[e.user] # 0
      /\ claims[f.user] = NoEntry /\ phase[f.user] = "matchmaking" /\ socket[f.user] # 0
  BY <1>2, <1>3, <1>5 DEF SearchesHold, PlaceHolds
<1>7. /\ claims' \in [Searcher -> Entry \cup {NoEntry}] /\ claims'[e.user] = e /\ claims'[f.user] = f
      /\ \A u \in Searcher : u # e.user /\ u # f.user => claims'[u] = claims[u]
  BY <1>1, <1>2, <1>3, <1>4
<1>8. w \in Work /\ Proper(w) /\ ~Started(w) /\ Enqueue(w) /\ DOMAIN w.entries = {1, 2} /\ w.entries[1] = e /\ w.entries[2] = f
  <2>1. <<e.user, f.user>> \in Seq(Searcher) /\ <<socket[e.user], socket[f.user]>> \in Seq(Nat) /\ <<e, f>> \in Seq(Entry)
    BY <1>2, <1>3
  <2>2. MaxOrders + e.order \in Nat /\ MaxOrders + e.order # 0
    BY <1>3, QuickPlayAssumption
  <2>3. w \in Work
    BY <2>1, <2>2 DEF Work, WorkKind, WorkStage
  <2>4. /\ DOMAIN w.users = {1, 2} /\ DOMAIN w.entries = {1, 2} /\ w.users[1] = e.user /\ w.users[2] = f.user
        /\ w.entries[1] = e /\ w.entries[2] = f
    OBVIOUS
  <2>. QED  BY <1>1, <1>4, <2>2, <2>3, <2>4 DEF Proper, Started
<1>. HIDE DEF w
<1>9. SearchesHold(phase, socket, waiting', claims')
  <2>1. ASSUME NEW u \in Searcher PROVE PlaceHolds(u, phase, socket, waiting', claims')
    <3>1. PlaceHolds(u, phase, socket, waiting, claims)
      BY <1>2 DEF SearchesHold
    <3>2. CASE u = e.user
      <4>1. ~Waits(waiting', u)
        BY <1>1, <1>2, <3>2 DEF SearchesHold, Waits
      <4>. QED  BY <1>3, <1>6, <1>7, <3>2, <4>1 DEF PlaceHolds
    <3>3. CASE u = f.user
      <4>1. ~Waits(waiting', u)
        BY <1>1, <1>2, <3>3 DEF SearchesHold, Waits
      <4>. QED  BY <1>3, <1>6, <1>7, <3>3, <4>1 DEF PlaceHolds
    <3>4. CASE u # e.user /\ u # f.user
      <4>1. Waits(waiting', u) <=> Waits(waiting, u)
        BY <1>1, <3>4 DEF Waits
      <4>. QED  BY <1>7, <3>1, <3>4, <4>1 DEF PlaceHolds
    <3>. QED  BY <3>2, <3>3, <3>4
  <2>2. \A g, h \in waiting' : g.user = h.user => g = h
    BY <1>1, <1>2 DEF SearchesHold
  <2>. QED  BY <2>1, <2>2 DEF SearchesHold
<1>10. AllStand(work, phase, claims', seat)
  <2>1. ASSUME NEW j \in 1..Len(work) PROVE StageHolds(work[j], phase, claims', seat)
    <3>1. StageHolds(work[j], phase, claims, seat) /\ work[j] \in Work /\ j \in DOMAIN work
      BY <1>2 DEF WorkHolds
    <3>2. CASE ~Started(work[j])  BY <3>2 DEF StageHolds
    <3>3. CASE Started(work[j])
      <4>1. \A k \in DOMAIN work[j].users : work[j].users[k] \in Searcher
        BY <3>1, PlayersOfWork
      <4>2. ASSUME NEW k \in DOMAIN work[j].users, phase[work[j].users[k]] = "matchmaking"
            PROVE  claims[work[j].users[k]] # NoEntry
        <5>1. work[j].kind = "pairing" /\ claims[work[j].users[k]] = work[j].entries[k]
          BY <3>1, <3>3, <4>2 DEF StageHolds
        <5>2. k \in DOMAIN work[j].entries
          BY <3>1, <5>1, WorkAt DEF Proper
        <5>. QED  BY <3>1, <5>1, <5>2, ClaimOfEntry
      <4>3. \A k \in DOMAIN work[j].users : phase[work[j].users[k]] = "matchmaking" =>
                claims'[work[j].users[k]] = claims[work[j].users[k]]
        BY <1>6, <1>7, <4>1, <4>2
      <4>. QED  BY <3>1, <3>3, <4>3 DEF StageHolds
    <3>. QED  BY <3>2, <3>3
  <2>. QED  BY <2>1 DEF AllStand
<1>11. ClaimsOrOf(claims, claims', w)
  BY <1>7, <1>8 DEF ClaimsOrOf
<1>12. /\ UNCHANGED <<phase, seat, order>> /\ socket' \in [Searcher -> Nat] /\ opened' \in Nat \ {0} /\ sent' \in Nat
       /\ waiting' \subseteq Entry /\ socket' = socket
  BY <1>1, <1>2 DEF QuickInv, QuickTypes
<1>. QED  BY <1>7, <1>8, <1>9, <1>10, <1>11, <1>12, QueueKeeps

\* A pairing gives its claims up: who still searches waits again.
LEMMA Releasing ==
    ASSUME QuickInv, NEW i \in DOMAIN work, work[i].kind = "pairing", Release(work[i])
    PROVE  /\ waiting' \subseteq Entry /\ claims' \in [Searcher -> Entry \cup {NoEntry}]
           /\ SameExcept(Concerned(work[i]), claims, claims') /\ ClaimsLeft(claims, claims', work[i])
           /\ SearchesHold(phase, socket, waiting', claims')
<1>. DEFINE w == work[i]
            Mine(u) == u \in Concerned(w) /\ \E k \in DOMAIN w.entries : claims[u] = w.entries[k]
<1>1. /\ waiting' = waiting \cup {w.entries[k] : k \in Restorable(w)}
      /\ claims' = [u \in Searcher |-> IF Mine(u) THEN NoEntry ELSE claims[u]]
  BY DEF Release
<1>2. /\ waiting \subseteq Entry /\ claims \in [Searcher -> Entry \cup {NoEntry}]
      /\ SearchesHold(phase, socket, waiting, claims)
  BY DEF QuickInv, QuickTypes
<1>3. /\ DOMAIN w.users = DOMAIN w.entries
      /\ \A k \in DOMAIN w.entries : /\ w.entries[k] \in Entry /\ w.entries[k].user = w.users[k]
                                     /\ w.users[k] \in Concerned(w) /\ w.users[k] \in Searcher
      /\ \A k, l \in DOMAIN w.entries : w.users[k] = w.users[l] => k = l
  <2>1. \A k \in DOMAIN w.entries : /\ w.entries[k] \in Entry /\ w.entries[k].user = w.users[k]
                                    /\ w.users[k] \in Concerned(w) /\ w.users[k] \in Searcher
    BY ClaimOfEntry, WorkAt
  <2>2. DOMAIN w.users = {1, 2} /\ DOMAIN w.entries = {1, 2} /\ w.users[1] # w.users[2]
    BY WorkAt DEF Proper
  <2>. QED  BY <2>1, <2>2
<1>4. \A u \in Searcher : claims[u] # NoEntry => claims[u].user = u /\ phase[u] = "matchmaking" /\ socket[u] # 0
  BY <1>2 DEF SearchesHold, PlaceHolds
\* Every claim of this pairing is of somebody who searches still.
<1>5. \A k \in DOMAIN w.entries : k \in Restorable(w) <=> claims[w.users[k]] = w.entries[k]
  <2>1. \A k \in DOMAIN w.entries : w.entries[k] # NoEntry
    BY ClaimOfEntry
  <2>. QED  BY <1>3, <1>4, <2>1 DEF Restorable, OwnsClaim
<1>6. \A u \in Searcher : Mine(u) <=> \E k \in DOMAIN w.entries : k \in Restorable(w) /\ w.users[k] = u
  <2>1. ASSUME NEW u \in Searcher, Mine(u) PROVE \E k \in DOMAIN w.entries : k \in Restorable(w) /\ w.users[k] = u
    <3>1. PICK k \in DOMAIN w.entries : claims[u] = w.entries[k]
      BY <2>1
    <3>2. w.entries[k] # NoEntry
      BY ClaimOfEntry
    <3>3. w.users[k] = u
      BY <1>3, <1>4, <3>1, <3>2
    <3>. QED  BY <1>5, <3>1, <3>3
  <2>2. ASSUME NEW u \in Searcher, NEW k \in DOMAIN w.entries, k \in Restorable(w), w.users[k] = u PROVE Mine(u)
    BY <1>3, <1>5, <2>2
  <2>. QED  BY <2>1, <2>2
<1>7. Restorable(w) \subseteq DOMAIN w.entries
  BY <1>3 DEF Restorable
<1>8. waiting' \subseteq Entry
  BY <1>1, <1>2, <1>3, <1>7
<1>9. \A u \in Searcher : claims'[u] = IF Mine(u) THEN NoEntry ELSE claims[u]
  BY <1>1
<1>10. claims' \in [Searcher -> Entry \cup {NoEntry}]
  <2>1. \A u \in Searcher : (IF Mine(u) THEN NoEntry ELSE claims[u]) \in Entry \cup {NoEntry}
    BY <1>2
  <2>. HIDE DEF Mine
  <2>. QED  BY <1>1, <2>1
<1>11. SameExcept(Concerned(w), claims, claims')
  BY <1>9 DEF SameExcept
<1>12. ClaimsLeft(claims, claims', w)
  <2>1. ASSUME NEW u \in Searcher, claims'[u] # NoEntry, NEW k \in DOMAIN w.entries
        PROVE  claims'[u] = claims[u] /\ claims[u] # w.entries[k]
    <3>1. ~Mine(u) /\ claims'[u] = claims[u]
      BY <1>9, <2>1
    <3>2. claims[u] = w.entries[k] => w.users[k] = u
      BY <1>3, <1>4, <2>1, <3>1
    <3>. QED  BY <1>3, <3>1, <3>2
  <2>2. \A u \in Searcher : claims'[u] # NoEntry => claims'[u] = claims[u]
    BY <1>9
  <2>. QED  BY <2>1, <2>2 DEF ClaimsLeft
<1>. HIDE DEF w, Mine
<1>13. \A u \in Searcher : Waits(waiting', u) <=> Waits(waiting, u) \/ Mine(u)
  BY <1>1, <1>3, <1>6, <1>7 DEF Waits
<1>14. \A u \in Searcher : Mine(u) => phase[u] = "matchmaking" /\ socket[u] # 0 /\ ~Waits(waiting, u)
  <2>1. \A u \in Searcher : Mine(u) => claims[u] # NoEntry
    BY ClaimOfEntry DEF Mine, w
  <2>. QED  BY <1>2, <1>4, <2>1 DEF SearchesHold, PlaceHolds
<1>15. \A u \in Searcher : PlaceHolds(u, phase, socket, waiting', claims')
  BY <1>2, <1>9, <1>13, <1>14 DEF SearchesHold, PlaceHolds
<1>16. \A e, f \in waiting' : e.user = f.user => e = f
  <2>1. \A e \in waiting' : e.user \in Searcher
    BY <1>8 DEF Entry
  <2>2. \A e \in waiting : Waits(waiting, e.user)
    BY DEF Waits
  <2>3. \A k \in Restorable(w) : Mine(w.users[k]) /\ w.users[k] \in Searcher /\ w.entries[k].user = w.users[k]
    BY <1>3, <1>6, <1>7
  <2>4. \A e \in waiting, k \in Restorable(w) : e.user # w.entries[k].user
    BY <1>14, <2>2, <2>3
  <2>5. \A k, l \in Restorable(w) : w.entries[k].user = w.entries[l].user => w.entries[k] = w.entries[l]
    BY <1>3, <1>7
  <2>6. \A e, f \in waiting : e.user = f.user => e = f
    BY <1>2 DEF SearchesHold
  <2>. QED  BY <1>1, <2>4, <2>5, <2>6
<1>. QED  BY <1>8, <1>10, <1>11, <1>12, <1>15, <1>16 DEF SearchesHold, w

LEMMA ReleasedAndFinished ==
    ASSUME QuickInv, NEW i \in DOMAIN work, Runs(i), work[i].kind = "pairing", Release(work[i]), Finish(i),
           ShownTo(Concerned(work[i]), phase, seat),
           UNCHANGED <<phase, socket, opened, order, seat, sent>>
    PROVE  QuickInv'
<1>1. /\ waiting' \subseteq Entry /\ claims' \in [Searcher -> Entry \cup {NoEntry}]
      /\ SameExcept(Concerned(work[i]), claims, claims') /\ ClaimsLeft(claims, claims', work[i])
      /\ SearchesHold(phase, socket, waiting', claims')
  BY Releasing
<1>2. SameExcept(Concerned(work[i]), phase, phase') /\ SameExcept(Concerned(work[i]), seat, seat')
  BY DEF SameExcept
<1>3. /\ phase' \in [Searcher -> Phase] /\ socket' \in [Searcher -> Nat] /\ opened' \in Nat \ {0} /\ order' \in Nat
      /\ seat' \in [Searcher -> Nat] /\ sent' \in Nat
  BY DEF QuickInv, QuickTypes
<1>4. SearchesHold(phase', socket', waiting', claims') /\ ShownTo(Concerned(work[i]), phase', seat')
  BY <1>1
<1>. QED  BY <1>1, <1>2, <1>3, <1>4, FinishKeeps

LEMMA BeginPairingKeeps ==
    ASSUME QuickInv, BeginPairing
    PROVE  QuickInv'
<1>1. PICK i \in Ready("pairing", "queued") :
          /\ IF Admissible(work[i]) THEN Continue(i, "creating") /\ UNCHANGED poolVars
             ELSE Release(work[i]) /\ Finish(i)
          /\ UNCHANGED <<phase, socket, opened, order, seat, sent, outages>>
  BY DEF BeginPairing
<1>2. i \in DOMAIN work /\ work[i].kind = "pairing" /\ work[i].stage = "queued" /\ Runs(i) /\ work[i] \in Work
  BY ReadyWork, WorkAt
<1>3. ShownTo(Concerned(work[i]), phase, seat)
  BY <1>2, QuietPlayers DEF Started, ShownTo
<1>4. CASE ~Admissible(work[i])
  BY <1>1, <1>2, <1>3, <1>4, ReleasedAndFinished
<1>5. CASE Admissible(work[i])
  <2>. DEFINE v == [work[i] EXCEPT !.stage = "creating"]
  <2>1. Continue(i, "creating") /\ UNCHANGED <<phase, socket, opened, waiting, claims, order, seat, sent>>
    BY <1>1, <1>5 DEF poolVars
  <2>2. "creating" \in WorkStage
    BY DEF WorkStage
  <2>3. /\ v.stage = "creating" /\ v.kind = "pairing" /\ v.users = work[i].users /\ v.entries = work[i].entries
        /\ Concerned(v) = Concerned(work[i])
    BY <1>2, <2>2, AtStage
  <2>4. DOMAIN work[i].users = DOMAIN work[i].entries /\ \A k \in DOMAIN work[i].users :
            work[i].entries[k].user = work[i].users[k]
    <3>1. Proper(work[i])
      BY <1>2, WorkAt
    <3>. QED  BY <1>2, <3>1 DEF Proper
  <2>5. \A k \in DOMAIN work[i].users :
            phase[work[i].users[k]] = "matchmaking" /\ claims[work[i].users[k]] = work[i].entries[k]
    BY <1>2, <1>5, <2>4 DEF Admissible, OwnsClaim
  <2>6. \A u \in Concerned(work[i]) : seat[u] = NoSeat
    <3>1. \A u \in Concerned(work[i]) : phase[u] = "matchmaking"
      BY <1>2, <2>5, WorkAt
    <3>. QED  BY <1>3, <3>1 DEF ShownTo
  <2>7. StageHolds(v, phase, claims, seat')
    <3>. HIDE DEF v
    <3>. QED  BY <2>1, <2>3, <2>5, <2>6 DEF StageHolds
  <2>8. SameExcept(Concerned(work[i]), seat, seat') /\ seat' \in [Searcher -> Nat]
    BY <2>1 DEF SameExcept, QuickInv, QuickTypes
  <2>. QED  BY <1>2, <2>1, <2>2, <2>7, <2>8, SeatingKeeps
<1>. QED  BY <1>4, <1>5

LEMMA GiveBackKeeps ==
    ASSUME QuickInv, GiveBack
    PROVE  QuickInv'
<1>1. PICK i \in Ready("pairing", "reconciled") :
          /\ Release(work[i]) /\ Finish(i)
          /\ UNCHANGED <<phase, socket, opened, order, seat, sent, outages>>
  BY DEF GiveBack
<1>2. i \in DOMAIN work /\ work[i].kind = "pairing" /\ work[i].stage = "reconciled" /\ Runs(i)
  BY ReadyWork
<1>3. \A u \in Concerned(work[i]) : seat[u] = NoSeat /\ u \in Searcher
  BY <1>2, WorkAt DEF StageHolds, Started
<1>4. ShownTo(Concerned(work[i]), phase, seat)
  BY <1>3 DEF ShownTo, QuickInv, SeatsHold
<1>. QED  BY <1>1, <1>2, <1>4, ReleasedAndFinished

LEMMA FailBotKeeps ==
    ASSUME QuickInv, FailBot
    PROVE  QuickInv'
<1>1. PICK i \in Ready("bot", "failed") :
          Finish(i) /\ UNCHANGED <<phase, socket, opened, waiting, claims, order, seat, sent, outages>>
  BY DEF FailBot
<1>2. i \in DOMAIN work /\ work[i].kind = "bot" /\ work[i].stage = "failed" /\ Runs(i)
  BY ReadyWork
<1>3. \A u \in Concerned(work[i]) : seat[u] = NoSeat /\ u \in Searcher
  BY <1>2, WorkAt DEF StageHolds, Started
<1>4. ShownTo(Concerned(work[i]), phase, seat)
  BY <1>3 DEF ShownTo, QuickInv, SeatsHold
<1>. QED  BY <1>1, <1>2, <1>4, FinishQuietly

LEMMA FailPairingKeeps ==
    ASSUME QuickInv, FailPairing
    PROVE  QuickInv'
<1>1. PICK i \in Ready("pairing", "failed") :
          /\ phase' = [u \in Searcher |-> IF u \in Concerned(work[i]) /\ Projected(u) THEN "in-room" ELSE phase[u]]
          /\ Continue(i, "reconciled")
          /\ UNCHANGED <<socket, opened, waiting, claims, order, seat, sent, outages>>
  BY DEF FailPairing
<1>2. i \in DOMAIN work /\ work[i].kind = "pairing" /\ work[i].stage = "failed" /\ Runs(i) /\ work[i] \in Work
  BY ReadyWork, WorkAt
<1>3. \A u \in Concerned(work[i]) : seat[u] = NoSeat
  BY <1>2, WorkAt DEF StageHolds, Started
<1>4. UNCHANGED phase
  <2>1. \A u \in Searcher : ~(u \in Concerned(work[i]) /\ Projected(u))
    BY <1>3 DEF Projected
  <2>. QED  BY <1>1, <2>1 DEF QuickInv, QuickTypes
<1>. DEFINE v == [work[i] EXCEPT !.stage = "reconciled"]
<1>5. "reconciled" \in WorkStage
  BY DEF WorkStage
<1>6. /\ v.stage = "reconciled" /\ v.kind = work[i].kind /\ v.users = work[i].users /\ v.entries = work[i].entries
      /\ Concerned(v) = Concerned(work[i])
  BY <1>2, <1>5, AtStage
<1>7. StageHolds(v, phase, claims, seat')
  <2>1. StageHolds(work[i], phase, claims, seat) /\ Started(work[i]) /\ seat' = seat
    BY <1>1, <1>2, WorkAt DEF Started
  <2>. HIDE DEF v
  <2>. QED  BY <1>3, <1>6, <2>1 DEF StageHolds
<1>8. SameExcept(Concerned(work[i]), seat, seat') /\ seat' \in [Searcher -> Nat]
  BY <1>1 DEF SameExcept, QuickInv, QuickTypes
<1>. QED  BY <1>1, <1>2, <1>4, <1>5, <1>7, <1>8, SeatingKeeps

LEMMA CreateKeeps ==
    ASSUME QuickInv, Create
    PROVE  QuickInv'
<1>1. PICK i \in Ready("pairing", "creating") \cup Ready("bot", "creating")
                    \cup Ready("pairing", "confirming") \cup Ready("bot", "confirming") :
          /\ \/ MayCreate(work[i]) /\ seat' = Seated(work[i]) /\ Continue(i, "created") /\ UNCHANGED outages
             \/ Created(work[i]) /\ Continue(i, "created") /\ UNCHANGED <<seat, outages>>
             \/ /\ ~MayCreate(work[i]) /\ ~Created(work[i])
                /\ Continue(i, NextStage(work[i].stage)) /\ UNCHANGED <<seat, outages>>
             \/ /\ outages < MaxOutages /\ outages' = outages + 1
                /\ seat' \in {seat} \cup (IF MayCreate(work[i]) THEN {Seated(work[i])} ELSE {})
                /\ Continue(i, NextStage(work[i].stage))
          /\ UNCHANGED <<phase, socket, opened, waiting, claims, order, sent>>
  BY DEF Create
<1>2. i \in DOMAIN work /\ work[i].kind \in {"pairing", "bot"} /\ work[i].stage \in {"creating", "confirming"} /\ Runs(i)
  BY ReadyWork
<1>3. /\ work[i] \in Work /\ Proper(work[i]) /\ StageHolds(work[i], phase, claims, seat)
      /\ Concerned(work[i]) \subseteq Searcher
  BY <1>2, WorkAt
<1>4. NextStage(work[i].stage) \in {"confirming", "reading"}
  BY DEF NextStage
<1>5. PICK stage \in {"confirming", "reading", "created"} :
          /\ Continue(i, stage)
          /\ \/ seat' = seat /\ (stage = "created" => Created(work[i]))
             \/ seat' = Seated(work[i])
  BY <1>1, <1>4
<1>6. stage \in WorkStage /\ stage # "queued" /\ stage \notin {"failed", "reconciled"}
  BY <1>5 DEF WorkStage
<1>. DEFINE v == [work[i] EXCEPT !.stage = stage]
<1>7. /\ v.stage = stage /\ v.kind = work[i].kind /\ v.users = work[i].users /\ v.entries = work[i].entries
      /\ v.key = work[i].key /\ Concerned(v) = Concerned(work[i])
  BY <1>3, <1>6, AtStage
<1>8. seat \in [Searcher -> Nat] /\ work[i].key \in Nat /\ work[i].key # 0
  BY <1>2, <1>3 DEF QuickInv, QuickTypes, Proper, Work
<1>9. /\ seat' \in [Searcher -> Nat] /\ SameExcept(Concerned(work[i]), seat, seat')
      /\ \A u \in Concerned(work[i]) : seat[u] # NoSeat => seat'[u] # NoSeat
  <2>1. CASE seat' = seat  BY <1>8, <2>1 DEF SameExcept
  <2>2. CASE seat' = Seated(work[i])  BY <1>3, <1>8, <2>2 DEF SameExcept, Seated, NoSeat
  <2>. QED  BY <1>5, <2>1, <2>2
<1>10. StageHolds(v, phase, claims, seat')
  <2>. HIDE DEF v
  <2>1. CASE seat' = Seated(work[i])
    <3>1. \A u \in Concerned(v) : seat'[u] = v.key
      BY <1>3, <1>7, <2>1 DEF Seated
    <3>. QED  BY <1>2, <1>3, <1>6, <1>7, <3>1 DEF StageHolds, Started
  <2>2. CASE seat' = seat /\ (stage = "created" => Created(work[i]))
    BY <1>2, <1>3, <1>6, <1>7, <2>2 DEF StageHolds, Started, Created
  <2>. QED  BY <1>5, <2>1, <2>2
<1>. HIDE DEF v
<1>. QED  BY <1>1, <1>2, <1>5, <1>6, <1>9, <1>10, SeatingKeeps DEF v

LEMMA ReadCreationKeeps ==
    ASSUME QuickInv, ReadCreation
    PROVE  QuickInv'
<1>1. PICK i \in Ready("pairing", "reading") \cup Ready("bot", "reading") :
          /\ Continue(i, IF Created(work[i]) THEN "created" ELSE "failed")
          /\ UNCHANGED <<phase, socket, opened, waiting, claims, order, seat, sent, outages>>
  BY DEF ReadCreation
<1>2. i \in DOMAIN work /\ work[i].kind \in {"pairing", "bot"} /\ work[i].stage = "reading" /\ Runs(i)
  BY ReadyWork
<1>3. work[i] \in Work /\ StageHolds(work[i], phase, claims, seat)
  BY <1>2, WorkAt
<1>. DEFINE stage == IF Created(work[i]) THEN "created" ELSE "failed"
            v == [work[i] EXCEPT !.stage = stage]
<1>4. stage \in WorkStage /\ stage # "queued"
  BY DEF WorkStage
<1>5. (stage = "created" /\ Created(work[i])) \/ (stage = "failed" /\ ~Created(work[i]))
  OBVIOUS
<1>6. Continue(i, stage)
  BY <1>1
<1>. HIDE DEF stage
<1>7. /\ v.stage = stage /\ v.kind = work[i].kind /\ v.users = work[i].users /\ v.entries = work[i].entries
      /\ v.key = work[i].key /\ Concerned(v) = Concerned(work[i])
  BY <1>3, <1>4, AtStage
<1>8. seat' = seat /\ seat' \in [Searcher -> Nat] /\ SameExcept(Concerned(work[i]), seat, seat')
  BY <1>1 DEF SameExcept, QuickInv, QuickTypes
<1>9. StageHolds(v, phase, claims, seat')
  <2>. HIDE DEF v
  <2>. QED  BY <1>2, <1>3, <1>5, <1>7, <1>8 DEF StageHolds, Started, Created
<1>. HIDE DEF v
<1>. QED  BY <1>1, <1>2, <1>4, <1>6, <1>8, <1>9, SeatingKeeps DEF v

LEMMA InstallKeeps ==
    ASSUME QuickInv, Install
    PROVE  QuickInv'
<1>1. PICK i \in Ready("pairing", "created") \cup Ready("bot", "created") :
          /\ phase' = [u \in Searcher |-> IF u \in Concerned(work[i]) /\ Projected(u) THEN "in-room" ELSE phase[u]]
          /\ claims' = [u \in Searcher |-> IF \E k \in DOMAIN work[i].entries : claims[u] = work[i].entries[k]
                                           THEN NoEntry ELSE claims[u]]
          /\ Finish(i)
          /\ UNCHANGED <<socket, opened, waiting, order, seat, sent, outages>>
  BY DEF Install
<1>. DEFINE w == work[i]
            Mine(u) == \E k \in DOMAIN w.entries : claims[u] = w.entries[k]
<1>2. i \in DOMAIN work /\ w.kind \in {"pairing", "bot"} /\ w.stage = "created" /\ Runs(i)
  BY ReadyWork
<1>3. /\ Proper(w) /\ StageHolds(w, phase, claims, seat) /\ Concerned(w) \subseteq Searcher
      /\ \A u \in Concerned(w) : \E k \in DOMAIN w.users : w.users[k] = u
  BY <1>2, WorkAt
<1>4. /\ phase \in [Searcher -> Phase] /\ claims \in [Searcher -> Entry \cup {NoEntry}]
      /\ SearchesHold(phase, socket, waiting, claims)
  BY DEF QuickInv, QuickTypes
<1>5. \A u \in Concerned(w) : seat[u] # NoSeat
  BY <1>2, <1>3 DEF StageHolds, Started, Proper, NoSeat
<1>6. \A u \in Concerned(w) : Projected(u) \/ phase[u] = "in-room"
  BY <1>3, <1>4, <1>5 DEF Projected, Phase
<1>7. /\ \A u \in Searcher : phase'[u] = IF u \in Concerned(w) THEN "in-room" ELSE phase[u]
      /\ phase' \in [Searcher -> Phase]
  <2>1. \A u \in Searcher : phase'[u] = IF u \in Concerned(w) THEN "in-room" ELSE phase[u]
    BY <1>1, <1>6
  <2>. QED  BY <1>1, <1>4, <2>1 DEF Phase
<1>8. \A u \in Searcher : claims'[u] = IF Mine(u) THEN NoEntry ELSE claims[u]
  BY <1>1
<1>9. claims' \in [Searcher -> Entry \cup {NoEntry}]
  <2>1. \A u \in Searcher : (IF Mine(u) THEN NoEntry ELSE claims[u]) \in Entry \cup {NoEntry}
    BY <1>4
  <2>2. claims' = [u \in Searcher |-> IF Mine(u) THEN NoEntry ELSE claims[u]]
    BY <1>1
  <2>. HIDE DEF Mine
  <2>. QED  BY <2>1, <2>2
\* The claims of a room's players are those of its pairing.
<1>10. \A u \in Searcher : Mine(u) => u \in Concerned(w)
  <2>1. ASSUME NEW u \in Searcher, NEW k \in DOMAIN w.entries, claims[u] = w.entries[k] PROVE u \in Concerned(w)
    <3>1. w.entries[k] # NoEntry /\ w.entries[k].user = w.users[k] /\ w.users[k] \in Concerned(w)
      BY <1>2, ClaimOfEntry
    <3>2. claims[u].user = u
      BY <1>4, <2>1, <3>1 DEF SearchesHold, PlaceHolds
    <3>. QED  BY <2>1, <3>1, <3>2
  <2>. QED  BY <2>1
<1>11. \A u \in Concerned(w) : Mine(u) \/ claims[u] = NoEntry
  <2>1. ASSUME NEW u \in Concerned(w), claims[u] # NoEntry PROVE Mine(u)
    <3>1. PICK k \in DOMAIN w.users : w.users[k] = u
      BY <1>3
    <3>2. phase[u] = "matchmaking"
      BY <1>3, <1>4, <2>1 DEF SearchesHold, PlaceHolds
    <3>3. w.kind = "pairing" /\ claims[u] = w.entries[k]
      BY <1>2, <1>3, <3>1, <3>2 DEF StageHolds, Started
    <3>4. k \in DOMAIN w.entries
      BY <1>3, <3>3 DEF Proper
    <3>. QED  BY <3>3, <3>4
  <2>. QED  BY <2>1
<1>12. \A u \in Concerned(w) : ~Waits(waiting, u)
  <2>1. ASSUME NEW u \in Concerned(w), Waits(waiting, u) PROVE FALSE
    <3>1. claims[u] = NoEntry /\ phase[u] = "matchmaking"
      BY <1>3, <1>4, <2>1 DEF SearchesHold, PlaceHolds
    <3>2. PICK k \in DOMAIN w.users : w.users[k] = u
      BY <1>3
    <3>3. w.kind = "pairing" /\ claims[u] = w.entries[k]
      BY <1>2, <1>3, <3>1, <3>2 DEF StageHolds, Started
    <3>4. k \in DOMAIN w.entries
      BY <1>3, <3>3 DEF Proper
    <3>. QED  BY <1>2, <3>1, <3>3, <3>4, ClaimOfEntry
  <2>. QED  BY <2>1
<1>13. /\ SameExcept(Concerned(w), phase, phase') /\ SameExcept(Concerned(w), claims, claims')
       /\ SameExcept(Concerned(w), seat, seat') /\ ShownTo(Concerned(w), phase', seat')
  <2>. HIDE DEF Mine, w
  <2>. QED  BY <1>1, <1>3, <1>5, <1>7, <1>8, <1>10 DEF SameExcept, ShownTo
<1>14. ClaimsLeft(claims, claims', w)
  BY <1>8 DEF ClaimsLeft
<1>15. SearchesHold(phase', socket', waiting', claims')
  <2>. HIDE DEF Mine, w
  <2>1. ASSUME NEW u \in Searcher PROVE PlaceHolds(u, phase', socket, waiting, claims')
    <3>1. CASE u \in Concerned(w)
      <4>1. phase'[u] = "in-room" /\ claims'[u] = NoEntry /\ ~Waits(waiting, u)
        BY <1>7, <1>8, <1>11, <1>12, <3>1
      <4>. QED  BY <4>1 DEF PlaceHolds
    <3>2. CASE u \notin Concerned(w)
      BY <1>4, <1>7, <1>8, <1>10, <3>2 DEF SearchesHold, PlaceHolds
    <3>. QED  BY <3>1, <3>2
  <2>2. socket' = socket /\ waiting' = waiting
    BY <1>1
  <2>. QED  BY <1>4, <2>1, <2>2 DEF SearchesHold
<1>16. /\ socket' \in [Searcher -> Nat] /\ opened' \in Nat \ {0} /\ order' \in Nat /\ waiting' \subseteq Entry
       /\ seat' \in [Searcher -> Nat] /\ sent' \in Nat /\ Finish(i)
  BY <1>1 DEF QuickInv, QuickTypes
<1>. HIDE DEF Mine
<1>. QED  BY <1>2, <1>7, <1>9, <1>13, <1>14, <1>15, <1>16, FinishKeeps

LEMMA QuickInitially ==
    ASSUME QuickInit
    PROVE  QuickInv
<1>1. /\ phase = [u \in Searcher |-> IF waiting = {} THEN "idle" ELSE "matchmaking"]
      /\ socket = [u \in Searcher |-> 1] /\ opened = 1 /\ claims = [u \in Searcher |-> NoEntry]
      /\ seat = [u \in Searcher |-> NoSeat] /\ work = << >> /\ sent = 0 /\ order = Cardinality(Searcher)
  BY DEF QuickInit
<1>2. order \in Nat
  BY <1>1, QuickPlayAssumption, FS_CardinalityType
<1>3. waiting = {} \/ \E place \in [Searcher -> 1..order] : waiting = {[user |-> u, order |-> place[u]] : u \in Searcher}
  <2>1. Bijection(Searcher, 1..order) \subseteq [Searcher -> 1..order]
    BY DEF Bijection, Injection
  <2>. QED  BY <2>1 DEF QuickInit
<1>4. /\ waiting \subseteq Entry /\ \A e, f \in waiting : e.user = f.user => e = f
      /\ \A u \in Searcher : Waits(waiting, u) <=> waiting # {}
  <2>1. CASE waiting = {}
    BY <2>1 DEF Waits
  <2>2. ASSUME NEW place \in [Searcher -> 1..order], waiting = {[user |-> u, order |-> place[u]] : u \in Searcher}
        PROVE  /\ waiting \subseteq Entry /\ \A e, f \in waiting : e.user = f.user => e = f
               /\ \A u \in Searcher : Waits(waiting, u) <=> waiting # {}
    <3>1. \A u \in Searcher : [user |-> u, order |-> place[u]] \in Entry
      BY <1>2 DEF Entry
    <3>2. waiting \subseteq Entry
      BY <2>2, <3>1
    <3>3. \A e, f \in waiting : e.user = f.user => e = f
      BY <2>2
    <3>4. ASSUME NEW u \in Searcher PROVE Waits(waiting, u)
      <4>1. [user |-> u, order |-> place[u]] \in waiting /\ [user |-> u, order |-> place[u]].user = u
        BY <2>2
      <4>. QED  BY <4>1 DEF Waits
    <3>5. \A u \in Searcher : waiting # {}
      BY <2>2
    <3>. QED  BY <3>2, <3>3, <3>4, <3>5
  <2>. QED  BY <1>3, <2>1, <2>2
<1>5. QuickTypes
  <2>1. work \in Seq(Work)  BY <1>1
  <2>. QED  BY <1>1, <1>2, <1>4, <2>1 DEF QuickTypes, Phase, NoSeat
<1>6. WorkHolds(work, phase, claims, seat) /\ ClaimsHold(claims, work)
  BY <1>1 DEF WorkHolds, ClaimsHold
<1>7. SeatsHold(phase, seat, work)
  BY <1>1 DEF SeatsHold, Unshown
<1>8. SearchesHold(phase, socket, waiting, claims)
  BY <1>1, <1>4 DEF SearchesHold, PlaceHolds
<1>. QED  BY <1>5, <1>6, <1>7, <1>8 DEF QuickInv

LEMMA QuickStep ==
    ASSUME QuickInv, [QuickNext]_quickVars
    PROVE  QuickInv'
<1>1. CASE UNCHANGED quickVars
  BY <1>1 DEF quickVars, QuickInv, QuickTypes
<1>2. ASSUME NEW u \in Searcher, Connect(u) \/ Disconnect(u) \/ Send(u) PROVE QuickInv'
  BY <1>2, ConnectKeeps, DisconnectKeeps, SendKeeps
<1>3. CASE Match
  BY <1>3, MatchKeeps
<1>4. CASE RestoreMembership \/ Refuse \/ Join \/ Leave \/ Quit \/ BotPlay
  BY <1>4, RestoreMembershipKeeps, RefuseKeeps, JoinKeeps, LeaveKeeps, QuitKeeps, BotPlayKeeps
<1>5. CASE BeginPairing \/ Create \/ ReadCreation \/ Install \/ FailPairing \/ GiveBack \/ FailBot
  BY <1>5, BeginPairingKeeps, CreateKeeps, ReadCreationKeeps, InstallKeeps, FailPairingKeeps, GiveBackKeeps, FailBotKeeps
<1>. QED  BY <1>1, <1>2, <1>3, <1>4, <1>5 DEF QuickNext, QuickWork

\* The inductive invariant of quick play: what has started runs alone among its players' work, who
\* are seated together or not at all, and who search still by the entry it claimed.  (createQuickPlayRoom)
THEOREM QuickInvariance == QuickSpec => []QuickInv
<1>1. QuickInit => QuickInv
  BY QuickInitially
<1>2. QuickInv /\ [QuickNext]_quickVars => QuickInv'
  BY QuickStep
<1>. QED  BY <1>1, <1>2, PTL DEF QuickSpec

\* For any players, commands, connections and failing creations: whoever searches waits once or is
\* claimed by a pairing to come, and a seat is shown to its holder or about to be.  (createQuickPlayRoom)
THEOREM SearchesEndOnce == QuickSpec => []EverySearchEndsOnce
<1>1. ASSUME QuickInv PROVE SearchesAreKept
  <2>1. SearchesHold(phase, socket, waiting, claims) /\ ClaimsHold(claims, work) /\ work \in Seq(Work)
    BY <1>1 DEF QuickInv, QuickTypes
  <2>2. ASSUME NEW u \in Searcher
        PROVE  /\ phase[u] = "matchmaking" <=> InPool(u) \/ claims[u] # NoEntry
               /\ InPool(u) => claims[u] = NoEntry
    BY <2>1 DEF SearchesHold, PlaceHolds, Waits, InPool
  <2>3. ASSUME NEW u \in Searcher, InPool(u)
        PROVE  \E e \in waiting : \A f \in waiting : f.user = u => f = e
    BY <2>1, <2>3 DEF SearchesHold, InPool
  <2>4. ASSUME NEW u \in Searcher, claims[u] # NoEntry
        PROVE  \E i \in DOMAIN work : claims[u] \in ToSet(work[i].entries)
    BY <2>1, <2>4 DEF ClaimsHold, ToSet
  <2>. QED  BY <2>2, <2>3, <2>4 DEF SearchesAreKept
<1>2. ASSUME QuickInv PROVE SeatsAreShown
  <2>1. SeatsHold(phase, seat, work) /\ work \in Seq(Work)
    BY <1>2 DEF QuickInv, QuickTypes
  <2>2. \A u \in Searcher : Projected(u) => Unshown(u, phase, seat)
    BY DEF Projected, Unshown
  <2>. QED  BY <2>1, <2>2 DEF SeatsHold, SeatsAreShown
<1>. QED  BY <1>1, <1>2, QuickInvariance, PTL DEF EverySearchEndsOnce

------------------------------------------------------------------------------
(* Account actions: the inductive invariant *)

JournalName == {"wallet", "friendships", "admin"}
ActionKind == {"purchase", "equip", "tip", "request", "accept", "remove", "give-coins", "revoke"}
Intent == [kind : ActionKind, user : Account, friendship : Nat]
Awaits == {"reply", "confirmation", "nothing", "nothing any more"}
Call == [intent : Nat, generation : Nat, awaits : Awaits, answer : {"none", "receipt", "refused"}]
Friendship == [id : Nat, from : Account \cup {Nobody}, status : {"NONE", "PENDING", "ACCEPTED"}]

\* A call that the tab would still take a reply to.
Awaiting(cs, g, n) == cs[n].awaits \in {"reply", "confirmation"} /\ cs[n].generation = g
JournalOfCall(cs, is, n) == JournalOf(is[cs[n].intent].kind)

\* What the tab holds is what is stored for its account, and what it waits for, once for a journal;
\* what was asked for is stored, or was answered.
StoredHolds(id, sv, hd, is) ==
    /\ hd = IF id = Nobody THEN NoIntents ELSE sv[id]
    /\ \A u \in Account, j \in JournalName : sv[u][j] # 0 =>
           sv[u][j] \in 1..Len(is) /\ is[sv[u][j]].user = u /\ JournalOf(is[sv[u][j]].kind) = j
CallsHold(g, hd, is, cs) ==
    /\ \A n \in 1..Len(cs) : cs[n].intent \in 1..Len(is) /\ cs[n].generation <= g
    /\ \A n \in 1..Len(cs) : Awaiting(cs, g, n) => hd[JournalOfCall(cs, is, n)] = cs[n].intent
    /\ \A m, n \in 1..Len(cs) :
           Awaiting(cs, g, m) /\ Awaiting(cs, g, n) /\ JournalOfCall(cs, is, m) = JournalOfCall(cs, is, n) => m = n
Undecided(sv, is, cs) ==
    \A i \in 1..Len(is) : \/ sv[is[i].user][JournalOf(is[i].kind)] = i
                          \/ \E n \in 1..Len(cs) : cs[n].intent = i /\ cs[n].awaits = "nothing"

AccountTypes ==
    /\ identity \in Account \cup {Nobody} /\ generation \in Nat
    /\ saved \in [Account -> [JournalName -> Nat]] /\ held \in [JournalName -> Nat]
    /\ intents \in Seq(Intent) /\ calls \in Seq(Call)
    /\ coins \in [Account -> Nat] /\ vault \in Nat /\ owners \subseteq Account
    /\ friendship \in Friendship /\ rewards \in [Account -> {"none", "owed", "paid"}]
    /\ receipts \subseteq 1..Len(intents)

TabInv == StoredHolds(identity, saved, held, intents) /\ CallsHold(generation, held, intents, calls) /\ Undecided(saved, intents, calls)

\* BalancesAddUp, of balances, rewards, receipts and intents.
DoneIn(rs, is, kind, u) == {i \in rs : is[i].kind = kind /\ is[i].user = u}
TimesIn(rs, is, kind, u) == Cardinality(DoneIn(rs, is, kind, u))
PaidIn(rw, u) == IF rw[u] = "paid" THEN Reward ELSE 0
CoinsAddUp(co, rw, rs, is) ==
    \A u \in Account :
        co[u] + Price * TimesIn(rs, is, "purchase", u) + Tip * TimesIn(rs, is, "tip", u)
            = InitialCoins + Tip * TimesIn(rs, is, "tip", Other(u)) + Grant * TimesIn(rs, is, "give-coins", Other(u)) + PaidIn(rw, u)
VaultAddsUp(va, rw, rs, is) ==
    va + Reward * Cardinality({u \in Account : rw[u] = "paid"})
        = VaultShare * Cardinality(UNION {DoneIn(rs, is, "purchase", u) : u \in Account})
OwnersHaveBought(ow, rs, is) == ow = {u \in Account : DoneIn(rs, is, "purchase", u) # {}}

Balances ==
    /\ CoinsAddUp(coins, rewards, receipts, intents) /\ VaultAddsUp(vault, rewards, receipts, intents)
    /\ OwnersHaveBought(owners, receipts, intents)

AccountInv == AccountTypes /\ TabInv /\ Balances /\ denied = {}

------------------------------------------------------------------------------
(* Account actions: the tab's steps *)

LEMMA JournalsOfKinds ==
    /\ DOMAIN Journals = JournalName /\ NoIntents \in [JournalName -> Nat]
    /\ \A j \in JournalName : NoIntents[j] = 0
    /\ \A kind \in ActionKind : JournalOf(kind) \in JournalName
    /\ \A j \in JournalName : \A kind \in Journals[j] : kind \in ActionKind
<1>1. DOMAIN Journals = JournalName /\ NoIntents \in [JournalName -> Nat] /\ \A j \in JournalName : NoIntents[j] = 0
  BY DEF Journals, JournalName, NoIntents
<1>2. ASSUME NEW kind \in ActionKind PROVE JournalOf(kind) \in JournalName
  <2>1. \E j \in DOMAIN Journals : kind \in Journals[j]
    BY DEF Journals, ActionKind
  <2>2. JournalOf(kind) \in DOMAIN Journals
    BY <2>1 DEF JournalOf
  <2>. QED  BY <1>1, <2>2
<1>3. \A j \in JournalName : \A kind \in Journals[j] : kind \in ActionKind
  BY DEF Journals, JournalName, ActionKind
<1>. QED  BY <1>1, <1>2, <1>3

LEMMA IntentAt ==
    ASSUME NEW is \in Seq(Intent), NEW i \in 1..Len(is)
    PROVE  is[i] \in Intent /\ is[i].user \in Account /\ is[i].kind \in ActionKind /\ JournalOf(is[i].kind) \in JournalName
<1>1. is[i] \in Intent
  OBVIOUS
<1>. QED  BY <1>1, JournalsOfKinds DEF Intent

\* Calls go on, and wait for no more than before.
GoOn(cs, cs2) ==
    /\ Len(cs2) = Len(cs)
    /\ \A n \in 1..Len(cs) : /\ cs2[n].intent = cs[n].intent /\ cs2[n].generation = cs[n].generation
                             /\ cs2[n].awaits \in {"reply", "confirmation"} => cs[n].awaits \in {"reply", "confirmation"}
                             /\ cs[n].awaits = "nothing" => cs2[n].awaits = "nothing"

LEMMA CallsGoOn ==
    ASSUME NEW id, NEW g, NEW sv, NEW hd, NEW is, NEW cs, NEW cs2,
           CallsHold(g, hd, is, cs), Undecided(sv, is, cs), GoOn(cs, cs2)
    PROVE  CallsHold(g, hd, is, cs2) /\ Undecided(sv, is, cs2)
<1>1. CallsHold(g, hd, is, cs2)
  <2>1. Len(cs2) = Len(cs) /\ \A n \in 1..Len(cs) : cs2[n].intent = cs[n].intent /\ cs2[n].generation = cs[n].generation
    BY DEF GoOn
  <2>2. \A n \in 1..Len(cs) : Awaiting(cs2, g, n) => Awaiting(cs, g, n)
    BY DEF GoOn, Awaiting
  <2>3. \A n \in 1..Len(cs) : JournalOfCall(cs2, is, n) = JournalOfCall(cs, is, n)
    BY <2>1 DEF JournalOfCall
  <2>. QED  BY <2>1, <2>2, <2>3 DEF CallsHold
<1>2. Undecided(sv, is, cs2)
  BY DEF Undecided, GoOn
<1>. QED  BY <1>1, <1>2

\* One call, in the sequence it is changed in.
LEMMA CallAt ==
    ASSUME AccountInv, NEW n \in DOMAIN calls
    PROVE  /\ n \in 1..Len(calls) /\ calls[n] \in Call /\ calls \in Seq(Call)
           /\ calls[n].intent \in 1..Len(intents)
           /\ intents \in Seq(Intent) /\ intents[calls[n].intent] \in Intent
           /\ JournalOf(intents[calls[n].intent].kind) \in JournalName
<1>1. calls \in Seq(Call) /\ intents \in Seq(Intent) /\ n \in 1..Len(calls)
  BY DEF AccountInv, AccountTypes
<1>2. calls[n].intent \in 1..Len(intents)
  BY <1>1 DEF AccountInv, TabInv, CallsHold
<1>3. calls[n] \in Call
  BY <1>1
<1>. QED  BY <1>1, <1>2, <1>3, IntentAt

LEMMA AnsweredCall ==
    ASSUME AccountInv, NEW n \in DOMAIN calls, NEW next \in Awaits, Answered(n, next)
    PROVE  /\ calls' \in Seq(Call) /\ Len(calls') = Len(calls)
           /\ calls'[n].awaits = next /\ calls'[n].intent = calls[n].intent /\ calls'[n].generation = calls[n].generation
           /\ \A m \in 1..Len(calls) : m # n => calls'[m] = calls[m]
<1>. DEFINE new == [calls[n] EXCEPT !.awaits = next]
<1>1. n \in 1..Len(calls) /\ calls[n] \in Call /\ calls \in Seq(Call)
  BY CallAt
<1>2. new \in Call /\ new.awaits = next /\ new.intent = calls[n].intent /\ new.generation = calls[n].generation
  BY <1>1 DEF Call
<1>3. calls' = [calls EXCEPT ![n] = new]
  BY <1>1 DEF Answered
<1>. HIDE DEF new
<1>. QED  BY <1>1, <1>2, <1>3

\* The server, and the tab but for its calls, stand.
LEMMA WaitingLessKeeps ==
    ASSUME AccountInv, calls' \in Seq(Call), GoOn(calls, calls'), UNCHANGED <<tabVars, intents, serverVars>>
    PROVE  AccountInv'
<1>1. UNCHANGED <<identity, generation, saved, held, intents, coins, vault, owners, wearers, friendship, admins, rewards, receipts, denied>>
  BY DEF tabVars, serverVars
<1>2. CallsHold(generation, held, intents, calls') /\ Undecided(saved, intents, calls')
  BY CallsGoOn DEF AccountInv, TabInv
<1>. QED  BY <1>1, <1>2 DEF AccountInv, AccountTypes, TabInv, Balances

LEMMA HeldAt ==
    ASSUME AccountInv, NEW j \in JournalName, held[j] # 0
    PROVE  identity \in Account /\ saved[identity] = held
BY JournalsOfKinds DEF AccountInv, AccountTypes, TabInv, StoredHolds

\* The tab is done with a call it awaits, and with its intent.
LEMMA ClearingKeeps ==
    ASSUME AccountInv, NEW n \in DOMAIN calls, Awaiting(calls, generation, n), Answered(n, "nothing"),
           ClearJournal(JournalOf(intents[calls[n].intent].kind)),
           UNCHANGED <<identity, generation, intents, serverVars>>
    PROVE  AccountInv'
<1>. DEFINE j == JournalOf(intents[calls[n].intent].kind)
<1>1. /\ n \in 1..Len(calls) /\ calls[n].intent \in 1..Len(intents) /\ j \in JournalName
      /\ intents \in Seq(Intent) /\ calls \in Seq(Call)
  BY CallAt
<1>2. /\ saved \in [Account -> [JournalName -> Nat]] /\ held \in [JournalName -> Nat]
      /\ StoredHolds(identity, saved, held, intents) /\ CallsHold(generation, held, intents, calls)
      /\ Undecided(saved, intents, calls)
  BY DEF AccountInv, AccountTypes, TabInv
<1>3. held[j] = calls[n].intent /\ held[j] # 0
  BY <1>1, <1>2 DEF CallsHold, JournalOfCall
<1>4. identity \in Account /\ saved[identity] = held /\ identity # Nobody
  BY <1>1, <1>3, HeldAt, AccountActionsAssumption
<1>5. held' = [held EXCEPT ![j] = 0] /\ saved' = [saved EXCEPT ![identity] = held']
  BY <1>2, <1>4 DEF ClearJournal
<1>6. /\ calls' \in Seq(Call) /\ Len(calls') = Len(calls) /\ calls'[n].awaits = "nothing"
      /\ calls'[n].intent = calls[n].intent /\ calls'[n].generation = calls[n].generation
      /\ \A m \in 1..Len(calls) : m # n => calls'[m] = calls[m]
  BY AnsweredCall DEF Awaits
<1>. HIDE DEF j
<1>7. /\ held' \in [JournalName -> Nat] /\ held'[j] = 0 /\ \A k \in JournalName : k # j => held'[k] = held[k]
      /\ saved' \in [Account -> [JournalName -> Nat]] /\ saved'[identity] = held'
      /\ \A u \in Account : u # identity => saved'[u] = saved[u]
  BY <1>1, <1>2, <1>4, <1>5
<1>8. StoredHolds(identity, saved', held', intents)
  <2>1. \A u \in Account, k \in JournalName : saved'[u][k] # 0 => saved'[u][k] = saved[u][k]
    BY <1>4, <1>7
  <2>. QED  BY <1>2, <1>4, <1>7, <2>1 DEF StoredHolds
<1>9. CallsHold(generation, held', intents, calls')
  <2>1. \A m \in 1..Len(calls) : Awaiting(calls', generation, m) => m # n /\ Awaiting(calls, generation, m)
    BY <1>6 DEF Awaiting
  <2>2. \A m \in 1..Len(calls) : calls'[m].intent = calls[m].intent /\ calls'[m].generation = calls[m].generation
    BY <1>6
  <2>3. \A m \in 1..Len(calls) : JournalOfCall(calls', intents, m) = JournalOfCall(calls, intents, m)
    BY <2>2 DEF JournalOfCall
  <2>4. \A m \in 1..Len(calls) : Awaiting(calls', generation, m) => JournalOfCall(calls, intents, m) # j
    BY <1>1, <1>2, <2>1 DEF CallsHold, JournalOfCall, j
  <2>5. \A m \in 1..Len(calls) : JournalOfCall(calls, intents, m) \in JournalName
    <3>1. \A m \in 1..Len(calls) : calls[m].intent \in 1..Len(intents)
      BY <1>2 DEF CallsHold
    <3>. QED  BY <1>1, <3>1, IntentAt DEF JournalOfCall
  <2>6. \A m \in 1..Len(calls) : Awaiting(calls', generation, m) =>
            held'[JournalOfCall(calls', intents, m)] = calls'[m].intent
    BY <1>2, <1>7, <2>1, <2>2, <2>3, <2>4, <2>5 DEF CallsHold
  <2>. QED  BY <1>2, <1>6, <2>1, <2>2, <2>3, <2>6 DEF CallsHold
<1>10. Undecided(saved', intents, calls')
  <2>1. ASSUME NEW i \in 1..Len(intents)
        PROVE  \/ saved'[intents[i].user][JournalOf(intents[i].kind)] = i
               \/ \E m \in 1..Len(calls') : calls'[m].intent = i /\ calls'[m].awaits = "nothing"
    <3>1. intents[i].user \in Account /\ JournalOf(intents[i].kind) \in JournalName
      BY <1>1, IntentAt
    <3>2. CASE \E m \in 1..Len(calls) : calls[m].intent = i /\ calls[m].awaits = "nothing"
      <4>1. PICK m \in 1..Len(calls) : calls[m].intent = i /\ calls[m].awaits = "nothing"
        BY <3>2
      <4>2. m # n
        BY <4>1 DEF Awaiting
      <4>. QED  BY <1>6, <4>1, <4>2
    <3>3. CASE saved[intents[i].user][JournalOf(intents[i].kind)] = i
      <4>1. CASE intents[i].user = identity /\ JournalOf(intents[i].kind) = j
        BY <1>1, <1>3, <1>4, <1>6, <3>3, <4>1
      <4>2. CASE ~(intents[i].user = identity /\ JournalOf(intents[i].kind) = j)
        BY <1>4, <1>7, <3>1, <3>3, <4>2
      <4>. QED  BY <4>1, <4>2
    <3>. QED  BY <1>2, <3>2, <3>3 DEF Undecided
  <2>. QED  BY <2>1 DEF Undecided
<1>11. UNCHANGED <<identity, generation, intents, coins, vault, owners, wearers, friendship, admins, rewards, receipts, denied>>
  BY DEF serverVars
<1>. QED  BY <1>6, <1>7, <1>8, <1>9, <1>10, <1>11 DEF AccountInv, AccountTypes, TabInv, Balances

LEMMA TakeReplyKeeps ==
    ASSUME AccountInv, NEW n \in DOMAIN calls, TakeReply(n)
    PROVE  AccountInv'
<1>1. calls[n].awaits = "reply" /\ UNCHANGED <<intents, serverVars>>
  BY DEF TakeReply
<1>2. ASSUME NEW next \in {"confirmation", "nothing any more"}, Answered(n, next), UNCHANGED tabVars PROVE AccountInv'
  <2>1. next \in Awaits  BY DEF Awaits
  <2>2. /\ calls' \in Seq(Call) /\ Len(calls') = Len(calls)
        /\ calls'[n].awaits = next /\ calls'[n].intent = calls[n].intent /\ calls'[n].generation = calls[n].generation
        /\ \A m \in 1..Len(calls) : m # n => calls'[m] = calls[m]
    BY <1>2, <2>1, AnsweredCall
  <2>3. GoOn(calls, calls')
    BY <1>1, <2>2 DEF GoOn
  <2>. QED  BY <1>1, <1>2, <2>2, <2>3, WaitingLessKeeps
<1>3. CASE ~Fresh(calls[n])
  BY <1>2, <1>3 DEF TakeReply
<1>4. CASE Fresh(calls[n]) /\ calls[n].answer = "receipt"
  BY <1>2, <1>4 DEF TakeReply
<1>5. CASE Fresh(calls[n]) /\ calls[n].answer # "receipt"
  <2>1. /\ Answered(n, "nothing") /\ ClearJournal(JournalOf(intents[calls[n].intent].kind))
        /\ UNCHANGED <<identity, generation>>
    BY <1>5 DEF TakeReply
  <2>2. Awaiting(calls, generation, n)
    BY <1>1, <1>5 DEF Awaiting, Fresh
  <2>. QED  BY <1>1, <2>1, <2>2, ClearingKeeps
<1>. QED  BY <1>3, <1>4, <1>5

LEMMA ConfirmAndGiveUpKeep ==
    ASSUME AccountInv, NEW n \in DOMAIN calls, Confirm(n) \/ GiveUp(n)
    PROVE  AccountInv'
<1>1. calls[n].awaits \in {"reply", "confirmation"} /\ UNCHANGED <<intents, serverVars>>
  BY DEF Confirm, GiveUp
<1>2. ASSUME Answered(n, "nothing any more"), UNCHANGED tabVars PROVE AccountInv'
  <2>1. "nothing any more" \in Awaits  BY DEF Awaits
  <2>2. /\ calls' \in Seq(Call) /\ Len(calls') = Len(calls) /\ calls'[n].awaits = "nothing any more"
        /\ calls'[n].intent = calls[n].intent /\ calls'[n].generation = calls[n].generation
        /\ \A m \in 1..Len(calls) : m # n => calls'[m] = calls[m]
    BY <1>2, <2>1, AnsweredCall
  <2>3. GoOn(calls, calls')
    BY <1>1, <2>2 DEF GoOn
  <2>. QED  BY <1>1, <1>2, <2>2, <2>3, WaitingLessKeeps
<1>3. CASE GiveUp(n) \/ (Confirm(n) /\ ~Fresh(calls[n]))
  BY <1>2, <1>3 DEF GiveUp, Confirm
<1>4. CASE Confirm(n) /\ Fresh(calls[n])
  <2>1. /\ Answered(n, "nothing") /\ ClearJournal(JournalOf(intents[calls[n].intent].kind))
        /\ UNCHANGED <<identity, generation>>
    BY <1>4 DEF Confirm
  <2>2. Awaiting(calls, generation, n)
    BY <1>1, <1>4 DEF Awaiting, Fresh
  <2>. QED  BY <1>1, <2>1, <2>2, ClearingKeeps
<1>. QED  BY <1>3, <1>4

\* New intents explain nothing yet.
LEMMA BalancesStand ==
    ASSUME Balances, UNCHANGED <<coins, vault, owners, rewards, receipts>>, \A i \in receipts : intents'[i] = intents[i]
    PROVE  Balances'
<1>1. \A kind, u : DoneIn(receipts, intents', kind, u) = DoneIn(receipts, intents, kind, u)
  BY DEF DoneIn
<1>2. \A kind, u : TimesIn(receipts, intents', kind, u) = TimesIn(receipts, intents, kind, u)
  BY <1>1 DEF TimesIn
<1>3. CoinsAddUp(coins', rewards', receipts', intents')
  BY <1>2 DEF Balances, CoinsAddUp
<1>4. VaultAddsUp(vault', rewards', receipts', intents')
  <2>1. UNION {DoneIn(receipts, intents', "purchase", u) : u \in Account} = UNION {DoneIn(receipts, intents, "purchase", u) : u \in Account}
    BY <1>1
  <2>. QED  BY <2>1 DEF Balances, VaultAddsUp
<1>5. OwnersHaveBought(owners', receipts', intents')
  BY <1>1 DEF Balances, OwnersHaveBought
<1>. QED  BY <1>3, <1>4, <1>5 DEF Balances

LEMMA NotBusy ==
    ASSUME AccountInv, NEW j, ~Busy(j), NEW n \in 1..Len(calls), Awaiting(calls, generation, n)
    PROVE  JournalOfCall(calls, intents, n) # j
<1>1. n \in DOMAIN calls
  BY DEF AccountInv, AccountTypes
<1>. QED  BY <1>1 DEF Busy, Awaiting, JournalOfCall

LEMMA NewCall ==
    ASSUME AccountInv, NEW i \in Nat, calls' = Append(calls, CallFor(i))
    PROVE  /\ calls' \in Seq(Call) /\ Len(calls') = Len(calls) + 1 /\ Len(calls) \in Nat
           /\ calls'[Len(calls) + 1].intent = i /\ calls'[Len(calls) + 1].generation = generation
           /\ calls'[Len(calls) + 1].awaits = "reply"
           /\ \A m \in 1..Len(calls) : calls'[m] = calls[m]
<1>. DEFINE c == CallFor(i)
<1>1. c \in Call /\ c.intent = i /\ c.generation = generation /\ c.awaits = "reply"
  BY DEF CallFor, Call, Awaits, AccountInv, AccountTypes
<1>2. calls \in Seq(Call)
  BY DEF AccountInv, AccountTypes
<1>3. calls' = Append(calls, c)
  OBVIOUS
<1>. HIDE DEF c
<1>4. /\ calls' \in Seq(Call) /\ Len(calls') = Len(calls) + 1 /\ Len(calls) \in Nat
      /\ calls'[Len(calls) + 1] = c /\ \A m \in 1..Len(calls) : calls'[m] = calls[m]
  <2>1. c \in Call
    BY <1>1
  <2>. QED  BY <1>2, <1>3, <2>1
<1>. QED  BY <1>1, <1>4, Zenon

\* A call that is added for the intent its journal holds, while nothing is awaited there.
LEMMA CallingKeeps ==
    ASSUME AccountInv, NEW is \in Seq(Intent), Len(intents) <= Len(is), \A l \in 1..Len(intents) : is[l] = intents[l],
           NEW hd, NEW i \in 1..Len(is), NEW j \in JournalName, JournalOf(is[i].kind) = j, hd[j] = i,
           \A k \in JournalName : k # j => hd[k] = held[k], ~Busy(j),
           calls' = Append(calls, CallFor(i))
    PROVE  CallsHold(generation, hd, is, calls')
<1>1. /\ calls' \in Seq(Call) /\ Len(calls') = Len(calls) + 1 /\ Len(calls) \in Nat
      /\ calls'[Len(calls) + 1].intent = i /\ calls'[Len(calls) + 1].generation = generation
      /\ \A m \in 1..Len(calls) : calls'[m] = calls[m]
  BY NewCall
<1>2. /\ CallsHold(generation, held, intents, calls) /\ generation \in Nat /\ intents \in Seq(Intent)
  BY DEF AccountInv, AccountTypes, TabInv
<1>3. \A m \in 1..Len(calls) : calls[m].intent \in 1..Len(intents) /\ calls[m].generation <= generation
  BY <1>2 DEF CallsHold
<1>4. \A m \in 1..Len(calls) : /\ JournalOfCall(calls', is, m) = JournalOfCall(calls, intents, m)
                               /\ JournalOfCall(calls, intents, m) \in JournalName
                               /\ Awaiting(calls', generation, m) <=> Awaiting(calls, generation, m)
  BY <1>1, <1>2, <1>3, IntentAt DEF JournalOfCall, Awaiting
<1>5. JournalOfCall(calls', is, Len(calls) + 1) = j
  BY <1>1 DEF JournalOfCall
<1>6. \A m \in 1..Len(calls) : Awaiting(calls, generation, m) => JournalOfCall(calls, intents, m) # j
  BY NotBusy
<1>7. \A m \in 1..Len(calls') : m \in 1..Len(calls) \/ m = Len(calls) + 1
  BY <1>1
<1>8. ASSUME NEW m \in 1..Len(calls') PROVE calls'[m].intent \in 1..Len(is) /\ calls'[m].generation <= generation
  <2>1. CASE m \in 1..Len(calls)
    BY <1>1, <1>2, <1>3, <2>1
  <2>2. CASE m = Len(calls) + 1
    BY <1>1, <1>2, <2>2
  <2>. QED  BY <1>7, <2>1, <2>2
<1>9. ASSUME NEW m \in 1..Len(calls'), Awaiting(calls', generation, m)
      PROVE  hd[JournalOfCall(calls', is, m)] = calls'[m].intent
  <2>1. CASE m \in 1..Len(calls)
    BY <1>1, <1>2, <1>4, <1>6, <1>9, <2>1 DEF CallsHold
  <2>2. CASE m = Len(calls) + 1
    BY <1>1, <1>5, <2>2
  <2>. QED  BY <1>7, <2>1, <2>2
<1>10. ASSUME NEW m \in 1..Len(calls'), NEW n \in 1..Len(calls'), Awaiting(calls', generation, m), Awaiting(calls', generation, n),
              JournalOfCall(calls', is, m) = JournalOfCall(calls', is, n)
       PROVE  m = n
  <2>1. CASE m \in 1..Len(calls) /\ n \in 1..Len(calls)
    BY <1>2, <1>4, <1>10, <2>1 DEF CallsHold
  <2>2. CASE m = Len(calls) + 1 \/ n = Len(calls) + 1
    BY <1>4, <1>5, <1>6, <1>7, <1>10, <2>2
  <2>. QED  BY <1>7, <2>1, <2>2
<1>. QED  BY <1>8, <1>9, <1>10 DEF CallsHold

LEMMA RetryKeeps ==
    ASSUME AccountInv, NEW j \in DOMAIN Journals, Retry(j)
    PROVE  AccountInv'
<1>1. j \in JournalName /\ held[j] # 0 /\ ~Busy(j) /\ calls' = Append(calls, CallFor(held[j]))
  BY JournalsOfKinds DEF Retry
<1>2. UNCHANGED <<identity, generation, saved, held, intents, coins, vault, owners, wearers, friendship, admins, rewards, receipts, denied>>
  BY DEF Retry, tabVars, serverVars
<1>3. /\ saved[identity] = held /\ identity \in Account /\ intents \in Seq(Intent)
      /\ StoredHolds(identity, saved, held, intents) /\ Undecided(saved, intents, calls)
  BY <1>1, HeldAt DEF AccountInv, AccountTypes, TabInv
<1>4. held[j] \in 1..Len(intents) /\ JournalOf(intents[held[j]].kind) = j
  BY <1>1, <1>3 DEF StoredHolds
<1>5. CallsHold(generation, held, intents, calls')
  BY <1>1, <1>3, <1>4, CallingKeeps
<1>6. calls' \in Seq(Call) /\ Len(calls') = Len(calls) + 1 /\ Len(calls) \in Nat /\ \A m \in 1..Len(calls) : calls'[m] = calls[m]
  BY <1>1, <1>4, NewCall
<1>7. Undecided(saved, intents, calls')
  BY <1>3, <1>6 DEF Undecided
<1>. QED  BY <1>2, <1>5, <1>6, <1>7 DEF AccountInv, AccountTypes, TabInv, Balances

LEMMA StartKeeps ==
    ASSUME AccountInv, NEW j \in DOMAIN Journals, NEW kind \in Journals[j], Start(kind)
    PROVE  AccountInv'
<1>. DEFINE i == Len(intents) + 1
            k == JournalOf(kind)
            intent == [kind |-> kind, user |-> identity, friendship |-> friendship.id]
<1>1. kind \in ActionKind /\ k \in JournalName
  BY JournalsOfKinds
<1>2. /\ identity # Nobody /\ held[k] = 0 /\ ~Busy(k)
      /\ intents' = Append(intents, intent)
      /\ saved' = [saved EXCEPT ![identity][k] = i] /\ held' = [held EXCEPT ![k] = i]
      /\ calls' = Append(calls, CallFor(i))
      /\ UNCHANGED <<identity, generation, coins, vault, owners, wearers, friendship, admins, rewards, receipts, denied>>
  BY DEF Start, serverVars
<1>3. /\ identity \in Account /\ saved \in [Account -> [JournalName -> Nat]] /\ held \in [JournalName -> Nat]
      /\ intents \in Seq(Intent) /\ Len(intents) \in Nat /\ friendship \in Friendship
      /\ StoredHolds(identity, saved, held, intents) /\ Undecided(saved, intents, calls)
      /\ receipts \subseteq 1..Len(intents)
  BY <1>2 DEF AccountInv, AccountTypes, TabInv
<1>4. intent \in Intent /\ intent.user = identity /\ intent.kind = kind
  BY <1>1, <1>3 DEF Intent, Friendship
<1>. HIDE DEF intent, k
<1>5. /\ intents' \in Seq(Intent) /\ Len(intents') = i /\ intents'[i] = intent
      /\ \A l \in 1..Len(intents) : intents'[l] = intents[l]
  BY <1>2, <1>3, <1>4
<1>6. saved[identity] = held
  BY <1>2, <1>3 DEF StoredHolds
<1>7. /\ held' \in [JournalName -> Nat] /\ held'[k] = i /\ \A l \in JournalName : l # k => held'[l] = held[l]
      /\ saved' \in [Account -> [JournalName -> Nat]] /\ saved'[identity] = held'
      /\ \A u \in Account : u # identity => saved'[u] = saved[u]
  BY <1>1, <1>2, <1>3, <1>6
<1>8. i \in 1..Len(intents') /\ JournalOf(intents'[i].kind) = k /\ Len(intents) <= Len(intents')
  BY <1>3, <1>4, <1>5 DEF k
<1>9. CallsHold(generation, held', intents', calls')
  <2>. HIDE DEF i
  <2>. QED  BY <1>1, <1>2, <1>5, <1>7, <1>8, CallingKeeps
<1>10. calls' \in Seq(Call) /\ Len(calls') = Len(calls) + 1 /\ Len(calls) \in Nat /\ \A m \in 1..Len(calls) : calls'[m] = calls[m]
  <2>1. i \in Nat
    BY <1>3
  <2>. HIDE DEF i
  <2>. QED  BY <1>2, <2>1, NewCall
<1>11. StoredHolds(identity, saved', held', intents')
  <2>1. ASSUME NEW u \in Account, NEW l \in JournalName, saved'[u][l] # 0
        PROVE  saved'[u][l] \in 1..Len(intents') /\ intents'[saved'[u][l]].user = u /\ JournalOf(intents'[saved'[u][l]].kind) = l
    <3>1. CASE u = identity /\ l = k
      BY <1>4, <1>5, <1>7, <1>8, <3>1
    <3>2. CASE ~(u = identity /\ l = k)
      <4>1. saved'[u][l] = saved[u][l]
        BY <1>6, <1>7, <3>2
      <4>2. saved[u][l] \in 1..Len(intents) /\ intents[saved[u][l]].user = u /\ JournalOf(intents[saved[u][l]].kind) = l
        BY <1>3, <2>1, <4>1 DEF StoredHolds
      <4>. QED  BY <1>3, <1>5, <4>1, <4>2
    <3>. QED  BY <3>1, <3>2
  <2>. QED  BY <1>2, <1>7, <2>1 DEF StoredHolds
<1>12. Undecided(saved', intents', calls')
  <2>1. ASSUME NEW l \in 1..Len(intents')
        PROVE  \/ saved'[intents'[l].user][JournalOf(intents'[l].kind)] = l
               \/ \E n \in 1..Len(calls') : calls'[n].intent = l /\ calls'[n].awaits = "nothing"
    <3>1. CASE l = i
      BY <1>4, <1>5, <1>7, <1>8, <3>1
    <3>2. CASE l # i
      <4>1. l \in 1..Len(intents) /\ intents'[l] = intents[l]
        BY <1>3, <1>5, <3>2
      <4>2. intents[l].user \in Account /\ JournalOf(intents[l].kind) \in JournalName
        BY <1>3, <4>1, IntentAt
      <4>3. CASE \E n \in 1..Len(calls) : calls[n].intent = l /\ calls[n].awaits = "nothing"
        BY <1>10, <4>3
      <4>4. CASE saved[intents[l].user][JournalOf(intents[l].kind)] = l
        <5>1. ~(intents[l].user = identity /\ JournalOf(intents[l].kind) = k)
          BY <1>2, <1>6, <4>1, <4>4
        <5>. QED  BY <1>6, <1>7, <4>1, <4>2, <4>4, <5>1
      <4>. QED  BY <1>3, <4>1, <4>3, <4>4 DEF Undecided
    <3>. QED  BY <3>1, <3>2
  <2>. QED  BY <2>1 DEF Undecided
<1>13. Balances'
  <2>1. Balances /\ \A l \in receipts : intents'[l] = intents[l]
    BY <1>3, <1>5 DEF AccountInv
  <2>. QED  BY <1>2, <2>1, BalancesStand
<1>14. receipts' \subseteq 1..Len(intents')
  BY <1>2, <1>3, <1>5
<1>. QED  BY <1>2, <1>5, <1>7, <1>9, <1>10, <1>11, <1>12, <1>13, <1>14 DEF AccountInv, AccountTypes, TabInv

\* The tab changes accounts, or is loaded again: what is on its way is not awaited any more.
LEMMA IdentifyKeeps ==
    ASSUME AccountInv, NEW u \in Account \cup {Nobody}, NEW reload \in BOOLEAN, Identify(u, reload)
    PROVE  AccountInv'
<1>1. /\ generation' = generation + 1 /\ identity' = u
      /\ held' = IF u = Nobody THEN NoIntents ELSE saved[u]
      /\ UNCHANGED <<saved, intents, coins, vault, owners, wearers, friendship, admins, rewards, receipts, denied>>
  BY DEF Identify, serverVars
<1>2. /\ calls \in Seq(Call) /\ saved \in [Account -> [JournalName -> Nat]] /\ generation \in Nat
      /\ StoredHolds(identity, saved, held, intents) /\ CallsHold(generation, held, intents, calls)
      /\ Undecided(saved, intents, calls)
  BY DEF AccountInv, AccountTypes, TabInv
<1>3. DOMAIN calls = 1..Len(calls) /\ Len(calls) \in Nat
  BY <1>2
<1>4. ASSUME NEW n \in 1..Len(calls)
      PROVE  /\ calls'[n] \in Call
             /\ calls'[n].intent = calls[n].intent /\ calls'[n].generation = calls[n].generation
             /\ calls[n].awaits = "nothing" => calls'[n].awaits = "nothing"
  <2>1. calls[n] \in Call
    BY <1>2
  <2>2. calls'[n] = IF reload /\ calls[n].awaits # "nothing" THEN [calls[n] EXCEPT !.awaits = "nothing any more"] ELSE calls[n]
    BY <1>3, Zenon DEF Identify
  <2>. QED  BY <2>1, <2>2 DEF Call, Awaits
<1>5. calls' \in Seq(Call) /\ Len(calls') = Len(calls)
  <2>1. DOMAIN calls' = 1..Len(calls) /\ calls' = [n \in 1..Len(calls) |-> calls'[n]]
    BY <1>3, Zenon DEF Identify
  <2>2. calls' \in [1..Len(calls) -> Call]
    BY <1>4, <2>1
  <2>. QED  BY <1>3, <2>2
<1>6. held' \in [JournalName -> Nat]
  BY <1>1, <1>2, JournalsOfKinds
<1>7. StoredHolds(identity', saved, held', intents)
  BY <1>1, <1>2 DEF StoredHolds
<1>8. CallsHold(generation', held', intents, calls')
  <2>1. \A n \in 1..Len(calls) : calls[n].intent \in 1..Len(intents) /\ calls[n].generation <= generation /\ calls[n].generation \in Nat
    <3>1. \A n \in 1..Len(calls) : calls[n] \in Call
      BY <1>2
    <3>. QED  BY <1>2, <3>1 DEF CallsHold, Call
  <2>2. \A n \in 1..Len(calls) : calls'[n].generation <= generation' /\ calls'[n].generation # generation'
    BY <1>1, <1>2, <1>4, <2>1
  <2>. QED  BY <1>4, <1>5, <2>1, <2>2 DEF CallsHold, Awaiting
<1>9. Undecided(saved, intents, calls')
  BY <1>2, <1>4, <1>5 DEF Undecided
<1>. QED  BY <1>1, <1>5, <1>6, <1>7, <1>8, <1>9 DEF AccountInv, AccountTypes, TabInv, Balances

------------------------------------------------------------------------------
(* Account actions: the server's steps *)

LEMMA TheOther ==
    ASSUME NEW u \in Account
    PROVE  Other(u) \in Account /\ Other(u) # u /\ Other(Other(u)) = u /\ \A v \in Account : v = u \/ v = Other(u)
<1>1. PICK other \in Account \ {Admin} : Account = {Admin, other}
  BY AccountActionsAssumption
<1>2. ASSUME NEW v \in Account PROVE Other(v) \in Account /\ Other(v) # v
  <2>1. \E w \in Account : w # v
    BY <1>1, <1>2
  <2>. QED  BY <2>1 DEF Other
<1>3. Other(Other(u)) # Other(u) /\ Other(Other(u)) \in Account
  BY <1>2
<1>. HIDE DEF Other
<1>. QED  BY <1>1, <1>2, <1>3

\* One more receipt counts once, for its kind and its account.
NewReceipt(rs, is, i) == is \in Seq(Intent) /\ rs \subseteq 1..Len(is) /\ i \in 1..Len(is) /\ i \notin rs
CountsOnce(rs, is, i, kind, u) ==
    /\ TimesIn(rs, is, kind, u) \in Nat /\ IsFiniteSet(DoneIn(rs, is, kind, u))
    /\ DoneIn(rs \cup {i}, is, kind, u) = DoneIn(rs, is, kind, u) \cup (IF is[i].kind = kind /\ is[i].user = u THEN {i} ELSE {})
    /\ TimesIn(rs \cup {i}, is, kind, u)
           = TimesIn(rs, is, kind, u) + (IF is[i].kind = kind /\ is[i].user = u THEN 1 ELSE 0)

LEMMA OneMoreReceipt ==
    ASSUME NEW rs, NEW is, NEW i, NewReceipt(rs, is, i), NEW kind, NEW u
    PROVE  CountsOnce(rs, is, i, kind, u)
<1>0. is \in Seq(Intent) /\ rs \subseteq 1..Len(is) /\ i \in 1..Len(is) /\ i \notin rs
  BY DEF NewReceipt
<1>. DEFINE D == DoneIn(rs, is, kind, u)
            E == DoneIn(rs \cup {i}, is, kind, u)
<1>1. IsFiniteSet(D) /\ i \notin D
  <2>1. D \subseteq 1..Len(is) /\ i \notin D
    BY <1>0 DEF DoneIn
  <2>2. 1 \in Int /\ Len(is) \in Int
    BY <1>0
  <2>3. IsFiniteSet(1..Len(is))
    BY <2>2, FS_Interval, Zenon
  <2>. QED  BY <2>1, <2>3, FS_Subset
<1>2. E = D \cup (IF is[i].kind = kind /\ is[i].user = u THEN {i} ELSE {})
  BY <1>0 DEF DoneIn
<1>3. Cardinality(D) \in Nat /\ Cardinality(D \cup {i}) = Cardinality(D) + 1
  BY <1>1, FS_AddElement, FS_CardinalityType
<1>4. TimesIn(rs, is, kind, u) = Cardinality(D) /\ TimesIn(rs \cup {i}, is, kind, u) = Cardinality(E)
  BY DEF TimesIn
<1>. HIDE DEF D, E
<1>5. CASE is[i].kind = kind /\ is[i].user = u
  BY <1>2, <1>3, <1>4, <1>5, <1>1 DEF D, E, CountsOnce
<1>6. CASE ~(is[i].kind = kind /\ is[i].user = u)
  <2>1. E = D
    BY <1>2, <1>6
  <2>. QED  BY <1>1, <1>3, <1>4, <1>6, <2>1 DEF D, E, CountsOnce
<1>. QED  BY <1>5, <1>6

LEMMA OnceMore == \A p, t \in Nat : p * t \in Nat /\ p * (t + 1) = p * t + p /\ p * (t + 0) = p * t
BY SMTT(30)

\* What Apply adds to and takes from the coins of one account.
Spent(kind, mine) == CASE mine /\ kind = "purchase" -> Price [] mine /\ kind = "tip" -> Tip [] OTHER -> 0
Gained(kind, mine) == CASE ~mine /\ kind = "tip" -> Tip [] ~mine /\ kind = "give-coins" -> Grant [] OTHER -> 0

LEMMA ApplyCoins ==
    ASSUME AccountInv, NEW i \in 1..Len(intents), ~Refused(i), Apply(i), NEW v \in Account
    PROVE  LET kind == intents[i].kind
               mine == v = intents[i].user
           IN  /\ coins[v] \in Nat /\ Spent(kind, mine) \in Nat /\ Gained(kind, mine) \in Nat
               /\ Spent(kind, mine) <= coins[v] /\ coins'[v] = coins[v] - Spent(kind, mine) + Gained(kind, mine)
<1>. DEFINE u == intents[i].user
            kind == intents[i].kind
<1>1. u \in Account /\ kind \in ActionKind /\ coins \in [Account -> Nat]
  BY IntentAt DEF AccountInv, AccountTypes
<1>2. Price \in Nat /\ Tip \in Nat /\ Grant \in Nat
  BY AccountActionsAssumption
<1>3. v = u \/ (v # u /\ v = Other(u))
  BY <1>1, TheOther
<1>4. v = u => Other(u) # v
  BY <1>1, TheOther
<1>5. /\ kind = "purchase" => coins[u] >= Price
      /\ kind = "tip" => coins[u] >= Tip
  BY <1>1, <1>2 DEF Refused
<1>6. coins'[v] = CASE v = u /\ kind = "purchase" -> coins[v] - Price
                    [] v = u /\ kind = "tip" -> coins[v] - Tip
                    [] v = Other(u) /\ kind = "tip" -> coins[v] + Tip
                    [] v = Other(u) /\ kind = "give-coins" -> coins[v] + Grant
                    [] OTHER -> coins[v]
  BY Zenon DEF Apply
<1>. HIDE DEF u, kind
<1>7. /\ coins[v] \in Nat /\ Spent(kind, v = u) \in Nat /\ Gained(kind, v = u) \in Nat
      /\ Spent(kind, v = u) <= coins[v] /\ coins'[v] = coins[v] - Spent(kind, v = u) + Gained(kind, v = u)
  <2>1. CASE v = u
    BY <1>1, <1>2, <1>4, <1>5, <1>6, <2>1 DEF Spent, Gained
  <2>2. CASE v # u
    BY <1>1, <1>2, <1>3, <1>6, <2>2 DEF Spent, Gained
  <2>. QED  BY <2>1, <2>2
<1>. QED  BY <1>7 DEF u, kind

\* The receipt explains what the coins of an account have become.
LEMMA ApplyAddsUp ==
    ASSUME AccountInv, NEW i \in 1..Len(intents), i \notin receipts, ~Refused(i), Apply(i)
    PROVE  CoinsAddUp(coins', rewards, receipts', intents)
<1>. DEFINE u == intents[i].user
            kind == intents[i].kind
            n(k, w) == TimesIn(receipts, intents, k, w)
            n2(k, w) == TimesIn(receipts', intents, k, w)
            one(k, w) == IF kind = k /\ u = w THEN 1 ELSE 0
<1>1. /\ intents \in Seq(Intent) /\ receipts \subseteq 1..Len(intents) /\ receipts' = receipts \cup {i}
      /\ u \in Account /\ CoinsAddUp(coins, rewards, receipts, intents)
  BY IntentAt DEF AccountInv, AccountTypes, Balances, Apply
<1>2. \A k, w : n(k, w) \in Nat /\ n2(k, w) = n(k, w) + one(k, w)
  <2>1. NewReceipt(receipts, intents, i)
    BY <1>1 DEF NewReceipt
  <2>2. ASSUME NEW k, NEW w
        PROVE  /\ TimesIn(receipts, intents, k, w) \in Nat
               /\ TimesIn(receipts \cup {i}, intents, k, w) = TimesIn(receipts, intents, k, w) + one(k, w)
    <3>1. CountsOnce(receipts, intents, i, k, w)
      BY <2>1, OneMoreReceipt
    <3>. QED  BY <3>1 DEF CountsOnce
  <2>. QED  BY <1>1, <2>2
<1>3. Price \in Nat /\ Tip \in Nat /\ Grant \in Nat /\ Reward \in Nat /\ InitialCoins \in Nat
  BY AccountActionsAssumption
<1>4. ASSUME NEW v \in Account
      PROVE  coins'[v] + Price * n2("purchase", v) + Tip * n2("tip", v)
                 = InitialCoins + Tip * n2("tip", Other(v)) + Grant * n2("give-coins", Other(v)) + PaidIn(rewards, v)
  <2>. DEFINE o == Other(v)
              had == coins[v]
              has == coins'[v]
              bought == Price * n("purchase", v)
              tipped == Tip * n("tip", v)
              received == Tip * n("tip", o)
              granted == Grant * n("give-coins", o)
              spent == Spent(kind, v = u)
              gained == Gained(kind, v = u)
              paid == PaidIn(rewards, v)
              bought2 == Price * n2("purchase", v)
              tipped2 == Tip * n2("tip", v)
              received2 == Tip * n2("tip", o)
              granted2 == Grant * n2("give-coins", o)
  <2>1. /\ had \in Nat /\ spent \in Nat /\ gained \in Nat
        /\ spent <= had /\ has = had - spent + gained
    BY ApplyCoins
  <2>2. o \in Account /\ (u = o <=> u # v)
    BY <1>1, TheOther
  <2>3. /\ bought \in Nat /\ tipped \in Nat /\ received \in Nat /\ granted \in Nat
    BY <1>2, <1>3, OnceMore
  <2>4. /\ bought2 = IF kind = "purchase" /\ u = v THEN bought + Price ELSE bought
        /\ tipped2 = IF kind = "tip" /\ u = v THEN tipped + Tip ELSE tipped
        /\ received2 = IF kind = "tip" /\ u = o THEN received + Tip ELSE received
        /\ granted2 = IF kind = "give-coins" /\ u = o THEN granted + Grant ELSE granted
    BY <1>2, <1>3, OnceMore
  <2>5. had + bought + tipped = InitialCoins + received + granted + paid /\ paid \in Nat
    BY <1>1, <1>3 DEF CoinsAddUp, PaidIn
  <2>6. spent = IF v = u /\ kind = "purchase" THEN Price ELSE IF v = u /\ kind = "tip" THEN Tip ELSE 0
    BY DEF Spent
  <2>7. gained = IF v # u /\ kind = "tip" THEN Tip ELSE IF v # u /\ kind = "give-coins" THEN Grant ELSE 0
    BY DEF Gained
  <2>8. has + bought2 + tipped2 = InitialCoins + received2 + granted2 + paid
    <3>. HIDE DEF had, has, n, n2, one, u, kind, o, bought, tipped, received, granted, spent, gained, paid, bought2, tipped2, received2, granted2
    <3>1. CASE v = u
      BY <1>3, <2>1, <2>2, <2>3, <2>4, <2>5, <2>6, <2>7, <3>1
    <3>2. CASE v # u
      <4>1. spent = 0 /\ bought2 = bought /\ tipped2 = tipped /\ u = o
        BY <2>2, <2>4, <2>6, <3>2
      <4>2. /\ kind = "tip" => gained = Tip /\ received2 = received + Tip /\ granted2 = granted
            /\ kind = "give-coins" => gained = Grant /\ received2 = received /\ granted2 = granted + Grant
            /\ kind \notin {"tip", "give-coins"} => gained = 0 /\ received2 = received /\ granted2 = granted
        BY <2>4, <2>7, <3>2, <4>1
      <4>3. CASE kind = "tip"
        BY <1>3, <2>1, <2>3, <2>5, <4>1, <4>2, <4>3
      <4>4. CASE kind = "give-coins"
        BY <1>3, <2>1, <2>3, <2>5, <4>1, <4>2, <4>4
      <4>5. CASE kind \notin {"tip", "give-coins"}
        BY <1>3, <2>1, <2>3, <2>5, <4>1, <4>2, <4>5
      <4>. QED  BY <4>3, <4>4, <4>5
    <3>. QED  BY <3>1, <3>2
  <2>. QED  BY <2>8
<1>. QED  BY <1>4 DEF CoinsAddUp

LEMMA FiniteAccounts == IsFiniteSet(Account)
<1>1. PICK other \in Account \ {Admin} : Account = {Admin, other}
  BY AccountActionsAssumption
<1>2. IsFiniteSet({}) /\ IsFiniteSet({} \cup {Admin}) /\ IsFiniteSet(({} \cup {Admin}) \cup {other})
  BY FS_EmptySet, FS_AddElement
<1>. QED  BY <1>1, <1>2

LEMMA ApplyFillsVault ==
    ASSUME AccountInv, NEW i \in 1..Len(intents), i \notin receipts, Apply(i)
    PROVE  VaultAddsUp(vault', rewards, receipts', intents) /\ vault' \in Nat /\ OwnersHaveBought(owners', receipts', intents)
<1>. DEFINE u == intents[i].user
            kind == intents[i].kind
            bought(w) == DoneIn(receipts, intents, "purchase", w)
            bought2(w) == DoneIn(receipts', intents, "purchase", w)
            all == UNION {bought(w) : w \in Account}
            all2 == UNION {bought2(w) : w \in Account}
<1>1. /\ intents \in Seq(Intent) /\ receipts \subseteq 1..Len(intents) /\ receipts' = receipts \cup {i}
      /\ u \in Account /\ vault \in Nat
      /\ VaultAddsUp(vault, rewards, receipts, intents) /\ OwnersHaveBought(owners, receipts, intents)
      /\ vault' = (IF kind = "purchase" THEN vault + VaultShare ELSE vault)
      /\ owners' = (IF kind = "purchase" THEN owners \cup {u} ELSE owners)
  BY IntentAt DEF AccountInv, AccountTypes, Balances, Apply
<1>2. NewReceipt(receipts, intents, i)
  BY <1>1 DEF NewReceipt
<1>3. \A w : bought2(w) = bought(w) \cup (IF kind = "purchase" /\ u = w THEN {i} ELSE {})
  <2>1. \A w : CountsOnce(receipts, intents, i, "purchase", w)
    BY <1>2, OneMoreReceipt
  <2>. QED  BY <1>1, <2>1 DEF CountsOnce
<1>4. VaultShare \in Nat /\ Reward \in Nat
  BY AccountActionsAssumption
<1>5. IsFiniteSet(all) /\ i \notin all
  <2>1. all \subseteq 1..Len(intents) /\ i \notin all
    BY <1>1, <1>2 DEF DoneIn, NewReceipt
  <2>2. 1 \in Int /\ Len(intents) \in Int
    BY <1>1
  <2>3. IsFiniteSet(1..Len(intents))
    BY <2>2, FS_Interval, Zenon
  <2>. QED  BY <2>1, <2>3, FS_Subset
<1>6. all2 = IF kind = "purchase" THEN all \cup {i} ELSE all
  <2>. HIDE DEF bought, bought2, u, kind
  <2>1. CASE kind = "purchase"
    BY <1>1, <1>3, <2>1
  <2>2. CASE kind # "purchase"
    BY <1>3, <2>2
  <2>. QED  BY <2>1, <2>2
<1>7. VaultAddsUp(vault', rewards, receipts', intents)
  <2>. DEFINE size == Cardinality(all)
              paid == Reward * Cardinality({w \in Account : rewards[w] = "paid"})
              share == VaultShare * size
  <2>1. size \in Nat /\ Cardinality(all \cup {i}) = size + 1
    <3>. HIDE DEF all
    <3>. QED  BY <1>5, FS_AddElement, FS_CardinalityType
  <2>2. VaultShare * Cardinality(all2) = (IF kind = "purchase" THEN share + VaultShare ELSE share) /\ share \in Nat
    <3>1. \A t \in Nat : VaultShare * t \in Nat /\ VaultShare * (t + 1) = VaultShare * t + VaultShare
      BY <1>4, OnceMore
    <3>. HIDE DEF all, all2, size, kind
    <3>2. share \in Nat /\ VaultShare * (size + 1) = share + VaultShare
      BY <2>1, <3>1
    <3>3. CASE kind = "purchase"
      BY <1>6, <2>1, <3>2, <3>3
    <3>4. CASE kind # "purchase"
      BY <1>6, <3>2, <3>4 DEF size
    <3>. QED  BY <3>3, <3>4
  <2>3. vault + paid = share
    BY <1>1 DEF VaultAddsUp
  <2>4. paid \in Nat
    <3>1. {w \in Account : rewards[w] = "paid"} \subseteq Account /\ IsFiniteSet(Account)
      BY FiniteAccounts
    <3>2. Cardinality({w \in Account : rewards[w] = "paid"}) \in Nat
      BY <3>1, FS_Subset, FS_CardinalityType
    <3>. QED  BY <1>4, <3>2, OnceMore
  <2>5. vault' + paid = VaultShare * Cardinality(all2)
    <3>. HIDE DEF all, all2, size, kind, paid, share
    <3>. QED  BY <1>1, <1>4, <2>2, <2>3, <2>4
  <2>. QED  BY <2>5 DEF VaultAddsUp
<1>8. OwnersHaveBought(owners', receipts', intents)
  <2>1. \A w \in Account : bought2(w) # {} <=> bought(w) # {} \/ (kind = "purchase" /\ u = w)
    <3>. HIDE DEF bought, bought2, u, kind
    <3>. QED  BY <1>3
  <2>2. owners = {w \in Account : bought(w) # {}}
    BY <1>1 DEF OwnersHaveBought
  <2>3. owners' = {w \in Account : bought2(w) # {}}
    <3>. HIDE DEF bought, bought2, u, kind
    <3>. QED  BY <1>1, <2>1, <2>2
  <2>. QED  BY <2>3 DEF OwnersHaveBought
<1>9. vault' \in Nat
  BY <1>1, <1>4
<1>. QED  BY <1>7, <1>8, <1>9

LEMMA TimesAreNatural ==
    ASSUME AccountInv
    PROVE  \A kind, u : TimesIn(receipts, intents, kind, u) \in Nat
<1>1. receipts \subseteq 1..Len(intents) /\ 1 \in Int /\ Len(intents) \in Int
  BY DEF AccountInv, AccountTypes
<1>2. IsFiniteSet(receipts)
  BY <1>1, FS_Interval, FS_Subset
<1>3. \A kind, u : DoneIn(receipts, intents, kind, u) \subseteq receipts
  BY DEF DoneIn
<1>. QED  BY <1>2, <1>3, FS_Subset, FS_CardinalityType DEF TimesIn

\* The server takes a call up: its intent takes effect, or did, or is refused and leaves no trace.
LEMMA ExecuteKeeps ==
    ASSUME AccountInv, NEW n \in DOMAIN calls, Execute(n)
    PROVE  AccountInv'
<1>. DEFINE i == calls[n].intent
            answer == IF i \in receipts \/ ~Refused(i) THEN "receipt" ELSE "refused"
            new == [calls[n] EXCEPT !.answer = answer]
<1>1. /\ n \in 1..Len(calls) /\ calls[n] \in Call /\ calls \in Seq(Call)
      /\ i \in 1..Len(intents) /\ intents \in Seq(Intent) /\ intents[i] \in Intent
  BY CallAt
<1>2. /\ identity' = identity /\ generation' = generation /\ saved' = saved /\ held' = held
      /\ intents' = intents /\ rewards' = rewards
  BY DEF Execute, tabVars
<1>3. new \in Call /\ new.awaits = calls[n].awaits /\ new.intent = i /\ new.generation = calls[n].generation
  BY <1>1 DEF Call
<1>4. calls' = [calls EXCEPT ![n] = new]
  BY <1>1 DEF Execute
<1>5. calls' \in Seq(Call) /\ GoOn(calls, calls')
  <2>. HIDE DEF new
  <2>1. /\ calls' \in Seq(Call) /\ Len(calls') = Len(calls) /\ calls'[n] = new
        /\ \A m \in 1..Len(calls) : m # n => calls'[m] = calls[m]
    BY <1>1, <1>3, <1>4
  <2>. QED  BY <1>3, <2>1 DEF GoOn
<1>6. TabInv'
  <2>1. CallsHold(generation, held, intents, calls') /\ Undecided(saved, intents, calls')
    BY <1>5, CallsGoOn DEF AccountInv, TabInv
  <2>. QED  BY <1>2, <2>1 DEF AccountInv, TabInv
<1>7. denied' = {}
  BY DEF AccountInv, Execute
<1>8. CASE i \in receipts \/ Refused(i)
  <2>1. UNCHANGED <<coins, vault, owners, friendship, receipts>>
    BY <1>8 DEF Execute
  <2>. QED  BY <1>2, <1>5, <1>6, <1>7, <2>1 DEF AccountInv, AccountTypes, Balances
<1>9. CASE i \notin receipts /\ ~Refused(i)
  <2>1. Apply(i)
    BY <1>9 DEF Execute
  <2>2. Balances' /\ vault' \in Nat
    <3>. HIDE DEF i
    <3>. QED  BY <1>1, <1>2, <1>9, <2>1, ApplyAddsUp, ApplyFillsVault DEF Balances
  <2>3. coins' \in [Account -> Nat]
    <3>1. \A v \in Account : coins'[v] \in Nat
      <4>. HIDE DEF i
      <4>1. ASSUME NEW v \in Account PROVE coins'[v] \in Nat
        <5>1. PICK spent, gained \in Nat : spent <= coins[v] /\ coins[v] \in Nat /\ coins'[v] = coins[v] - spent + gained
          BY <1>1, <1>9, <2>1, ApplyCoins
        <5>. QED  BY <5>1
      <4>. QED  BY <4>1
    <3>2. coins' = [v \in Account |-> coins'[v]]
      <4>. DEFINE u == intents[i].user
                  kind == intents[i].kind
                  become(v) == CASE v = u /\ kind = "purchase" -> coins[v] - Price
                                 [] v = u /\ kind = "tip" -> coins[v] - Tip
                                 [] v = Other(u) /\ kind = "tip" -> coins[v] + Tip
                                 [] v = Other(u) /\ kind = "give-coins" -> coins[v] + Grant
                                 [] OTHER -> coins[v]
      <4>1. coins' = [v \in Account |-> become(v)]
        BY <2>1 DEF Apply
      <4>. HIDE DEF become
      <4>. QED  BY <4>1
    <3>. QED  BY <3>1, <3>2
  <2>4. friendship' \in Friendship /\ owners' \subseteq Account /\ receipts' \subseteq 1..Len(intents)
    <3>1. intents[i].user \in Account /\ i \in Nat
      BY <1>1 DEF Intent
    <3>2. friendship \in Friendship /\ owners \subseteq Account /\ receipts \subseteq 1..Len(intents)
      BY DEF AccountInv, AccountTypes
    <3>3. owners' \subseteq Account /\ receipts' \subseteq 1..Len(intents)
      BY <1>1, <2>1, <3>1, <3>2 DEF Apply
    <3>4. \/ friendship' = [id |-> i + 1, from |-> intents[i].user, status |-> "PENDING"]
          \/ friendship' = [friendship EXCEPT !.status = "ACCEPTED"]
          \/ friendship' = NoFriendship \/ friendship' = friendship
      BY <2>1, Zenon DEF Apply
    <3>5. friendship' \in Friendship
      BY <3>1, <3>2, <3>4 DEF Friendship, NoFriendship
    <3>. QED  BY <3>3, <3>5
  <2>. QED  BY <1>2, <1>5, <1>6, <1>7, <2>2, <2>3, <2>4 DEF AccountInv, AccountTypes
<1>. QED  BY <1>8, <1>9

\* A call that is turned away at the door changes nothing but its answer.
LEMMA ShutOutKeeps ==
    ASSUME AccountInv, NEW n \in DOMAIN calls, ShutOut(n)
    PROVE  AccountInv'
<1>. DEFINE new == [calls[n] EXCEPT !.answer = "refused"]
<1>1. n \in 1..Len(calls) /\ calls[n] \in Call /\ calls \in Seq(Call)
  BY CallAt
<1>2. UNCHANGED <<identity, generation, saved, held, intents, coins, vault, owners, wearers, friendship, admins, rewards, receipts, denied>>
  BY DEF ShutOut, tabVars, serverVars
<1>3. new \in Call /\ new.awaits = calls[n].awaits /\ new.intent = calls[n].intent /\ new.generation = calls[n].generation
  BY <1>1 DEF Call
<1>4. calls' = [calls EXCEPT ![n] = new]
  BY <1>1 DEF ShutOut
<1>5. calls' \in Seq(Call) /\ GoOn(calls, calls')
  <2>. HIDE DEF new
  <2>1. /\ calls' \in Seq(Call) /\ Len(calls') = Len(calls) /\ calls'[n] = new
        /\ \A m \in 1..Len(calls) : m # n => calls'[m] = calls[m]
    BY <1>1, <1>3, <1>4
  <2>. QED  BY <1>3, <2>1 DEF GoOn
<1>6. CallsHold(generation, held, intents, calls') /\ Undecided(saved, intents, calls')
  BY <1>5, CallsGoOn DEF AccountInv, TabInv
<1>. QED  BY <1>2, <1>5, <1>6 DEF AccountInv, AccountTypes, TabInv, Balances

\* A reward is paid once, or owed until the vault can pay it.
LEMMA PayRewardKeeps ==
    ASSUME AccountInv, NEW u \in Account, PayReward(u)
    PROVE  AccountInv'
<1>1. /\ coins \in [Account -> Nat] /\ vault \in Nat /\ rewards \in [Account -> {"none", "owed", "paid"}]
      /\ CoinsAddUp(coins, rewards, receipts, intents) /\ VaultAddsUp(vault, rewards, receipts, intents)
  BY DEF AccountInv, AccountTypes, Balances
<1>2. /\ rewards[u] # "paid" /\ rewards' = [rewards EXCEPT ![u] = IF vault >= Reward THEN "paid" ELSE "owed"]
      /\ vault' = (IF vault >= Reward THEN vault - Reward ELSE vault)
      /\ coins' = (IF vault >= Reward THEN [coins EXCEPT ![u] = @ + Reward] ELSE coins)
      /\ UNCHANGED <<identity, generation, saved, held, intents, calls, owners, friendship, receipts, denied>>
  BY DEF PayReward, tabVars
<1>3. Reward \in Nat
  BY AccountActionsAssumption
<1>4. /\ rewards' \in [Account -> {"none", "owed", "paid"}] /\ coins' \in [Account -> Nat] /\ vault' \in Nat
  BY <1>1, <1>2, <1>3
<1>5. CoinsAddUp(coins', rewards', receipts, intents)
  <2>1. \A v \in Account : coins'[v] = coins[v] + (PaidIn(rewards', v) - PaidIn(rewards, v)) /\ coins[v] \in Nat
                           /\ PaidIn(rewards', v) \in Nat /\ PaidIn(rewards, v) \in Nat
    BY <1>1, <1>2, <1>3 DEF PaidIn
  <2>2. ASSUME NEW v \in Account
        PROVE  coins'[v] + Price * TimesIn(receipts, intents, "purchase", v) + Tip * TimesIn(receipts, intents, "tip", v)
                   = InitialCoins + Tip * TimesIn(receipts, intents, "tip", Other(v))
                       + Grant * TimesIn(receipts, intents, "give-coins", Other(v)) + PaidIn(rewards', v)
    <3>. DEFINE x == Price * TimesIn(receipts, intents, "purchase", v)
                y == Tip * TimesIn(receipts, intents, "tip", v)
                z == Tip * TimesIn(receipts, intents, "tip", Other(v))
                g == Grant * TimesIn(receipts, intents, "give-coins", Other(v))
    <3>1. coins[v] + x + y = InitialCoins + z + g + PaidIn(rewards, v)
      BY <1>1 DEF CoinsAddUp
    <3>2. x \in Nat /\ y \in Nat /\ z \in Nat /\ g \in Nat /\ InitialCoins \in Nat
      BY AccountActionsAssumption, OnceMore, TimesAreNatural
    <3>. HIDE DEF x, y, z, g
    <3>3. coins'[v] + x + y = InitialCoins + z + g + PaidIn(rewards', v)
      BY <2>1, <3>1, <3>2
    <3>. QED  BY <3>3 DEF x, y, z, g
  <2>. QED  BY <2>2 DEF CoinsAddUp
<1>6. VaultAddsUp(vault', rewards', receipts, intents)
  <2>. DEFINE paid == {v \in Account : rewards[v] = "paid"}
              paid2 == {v \in Account : rewards'[v] = "paid"}
              share == VaultShare * Cardinality(UNION {DoneIn(receipts, intents, "purchase", v) : v \in Account})
  <2>1. paid2 = (IF vault >= Reward THEN paid \cup {u} ELSE paid) /\ u \notin paid
    BY <1>1, <1>2
  <2>2. IsFiniteSet(paid)
    <3>1. paid \subseteq Account
      OBVIOUS
    <3>. QED  BY <3>1, FiniteAccounts, FS_Subset
  <2>3. Cardinality(paid) \in Nat /\ Cardinality(paid \cup {u}) = Cardinality(paid) + 1
    <3>. HIDE DEF paid
    <3>. QED  BY <2>1, <2>2, FS_AddElement, FS_CardinalityType
  <2>4. vault + Reward * Cardinality(paid) = share
    BY <1>1 DEF VaultAddsUp
  <2>5. Reward * Cardinality(paid) \in Nat /\ Reward * (Cardinality(paid) + 1) = Reward * Cardinality(paid) + Reward
    <3>. HIDE DEF paid
    <3>. QED  BY <1>3, <2>3, OnceMore
  <2>6. vault' + Reward * Cardinality(paid2) = share
    <3>. DEFINE sum == Reward * Cardinality(paid)
                sum2 == Reward * Cardinality(paid2)
    <3>. HIDE DEF paid, paid2, share
    <3>1. sum2 = (IF vault >= Reward THEN sum + Reward ELSE sum) /\ sum \in Nat
      BY <2>1, <2>3, <2>5
    <3>2. vault + sum = share
      BY <2>4
    <3>. HIDE DEF sum, sum2
    <3>3. vault' + sum2 = share
      BY <1>1, <1>2, <1>3, <3>1, <3>2
    <3>. QED  BY <3>3 DEF sum2
  <2>. QED  BY <2>6 DEF VaultAddsUp
<1>. QED  BY <1>2, <1>4, <1>5, <1>6 DEF AccountInv, AccountTypes, TabInv, Balances

------------------------------------------------------------------------------
(* Account actions: the theorems *)

LEMMA AccountInitially == AccountInit => AccountInv
<1>. SUFFICES ASSUME AccountInit PROVE AccountInv
  OBVIOUS
<1>1. Admin \in Account /\ Nobody \notin Account /\ InitialCoins \in Nat /\ Reward \in Nat
  BY AccountActionsAssumption
<1>2. /\ intents = << >> /\ calls = << >> /\ Len(intents) = 0 /\ Len(calls) = 0
      /\ intents \in Seq(Intent) /\ calls \in Seq(Call)
  BY DEF AccountInit
<1>3. friendship \in Friendship
  <2>1. friendship = NoFriendship \/ friendship = [id |-> 1, from |-> Admin, status |-> "ACCEPTED"]
    BY DEF AccountInit
  <2>. QED  BY <1>1, <2>1 DEF NoFriendship, Friendship
<1>4. AccountTypes
  BY <1>1, <1>2, <1>3, JournalsOfKinds DEF AccountInit, AccountTypes
<1>5. StoredHolds(identity, saved, held, intents)
  BY <1>1, JournalsOfKinds DEF AccountInit, StoredHolds
<1>6. CallsHold(generation, held, intents, calls) /\ Undecided(saved, intents, calls)
  BY <1>2 DEF CallsHold, Undecided
<1>7. receipts = {} /\ owners = {} /\ vault = 0 /\ denied = {} /\ \A u \in Account : coins[u] = InitialCoins /\ rewards[u] = "none"
  BY DEF AccountInit
<1>8. \A kind, u : DoneIn(receipts, intents, kind, u) = {} /\ TimesIn(receipts, intents, kind, u) = 0
  BY <1>7, FS_EmptySet DEF DoneIn, TimesIn
<1>9. CoinsAddUp(coins, rewards, receipts, intents)
  BY <1>1, <1>7, <1>8, AccountActionsAssumption, SMTT(30) DEF CoinsAddUp, PaidIn
<1>10. VaultAddsUp(vault, rewards, receipts, intents)
  <2>1. {u \in Account : rewards[u] = "paid"} = {} /\ UNION {DoneIn(receipts, intents, "purchase", u) : u \in Account} = {}
    BY <1>7, <1>8
  <2>2. Reward * 0 = 0 /\ VaultShare * 0 = 0
    BY <1>1, AccountActionsAssumption
  <2>3. Cardinality({u \in Account : rewards[u] = "paid"}) = 0
        /\ Cardinality(UNION {DoneIn(receipts, intents, "purchase", u) : u \in Account}) = 0
    BY <2>1, FS_EmptySet
  <2>. QED  BY <1>7, <2>2, <2>3 DEF VaultAddsUp
<1>11. OwnersHaveBought(owners, receipts, intents)
  BY <1>7, <1>8 DEF OwnersHaveBought
<1>. QED  BY <1>4, <1>5, <1>6, <1>7, <1>9, <1>10, <1>11 DEF AccountInv, TabInv, Balances

LEMMA AccountStep == AccountInv /\ [AccountNext]_accountVars => AccountInv'
<1>. SUFFICES ASSUME AccountInv, [AccountNext]_accountVars PROVE AccountInv'
  OBVIOUS
<1>1. ASSUME NEW j \in DOMAIN Journals, Retry(j) PROVE AccountInv'
  BY <1>1, RetryKeeps
<1>2. ASSUME NEW j \in DOMAIN Journals, NEW kind \in Journals[j], Start(kind) PROVE AccountInv'
  BY <1>2, StartKeeps
<1>3. ASSUME NEW n \in DOMAIN calls, GiveUp(n) \/ Confirm(n) PROVE AccountInv'
  BY <1>3, ConfirmAndGiveUpKeep
<1>4. ASSUME NEW n \in DOMAIN calls, TakeReply(n) PROVE AccountInv'
  BY <1>4, TakeReplyKeeps
<1>5. ASSUME NEW n \in DOMAIN calls, Execute(n) \/ ShutOut(n) PROVE AccountInv'
  BY <1>5, ExecuteKeeps, ShutOutKeeps
<1>6. ASSUME NEW u \in Account \cup {Nobody}, NEW reload \in BOOLEAN, Identify(u, reload) PROVE AccountInv'
  BY <1>6, IdentifyKeeps
<1>7. ASSUME NEW u \in Account, PayReward(u) PROVE AccountInv'
  BY <1>7, PayRewardKeeps
<1>8. CASE UNCHANGED accountVars
  <2>1. UNCHANGED <<identity, generation, saved, held, intents, calls, coins, vault, owners, friendship, rewards, receipts, denied>>
    BY <1>8 DEF accountVars, tabVars, serverVars
  <2>. QED  BY <2>1 DEF AccountInv, AccountTypes, TabInv, Balances
<1>. QED  BY <1>1, <1>2, <1>3, <1>4, <1>5, <1>6, <1>7, <1>8, Zenon DEF AccountNext

\* What the tab holds and what it waits for, and what the balances are made of, stay as AccountInv says.
\* (ActionJournal; purchaseItem, tipFriend, executeFriendshipAction, executeAdminAction)
THEOREM AccountInvariance == AccountSpec => []AccountInv
<1>1. AccountInit => AccountInv
  BY AccountInitially
<1>2. AccountInv /\ [AccountNext]_accountVars => AccountInv'
  BY AccountStep
<1>. QED  BY <1>1, <1>2, PTL DEF AccountSpec

\* However replies are lost or late and the tab changes accounts, an action is forgotten only when it
\* has been answered, takes effect once, and is not refused once done.  (ActionJournal.retry)
THEOREM ActionsTakeEffectOnce == AccountSpec => []ActionsHappenOnce
<1>1. ASSUME AccountInv PROVE ActionsHappenOnce
  <2>1. DOMAIN intents = 1..Len(intents) /\ DOMAIN calls = 1..Len(calls)
    BY <1>1 DEF AccountInv, AccountTypes
  <2>2. UndecidedIsKept
    BY <1>1, <2>1 DEF AccountInv, TabInv, Undecided, UndecidedIsKept
  <2>3. \A kind, u : Done(kind, u) = DoneIn(receipts, intents, kind, u) /\ Times(kind, u) = TimesIn(receipts, intents, kind, u)
    BY DEF Done, DoneIn, Times, TimesIn
  <2>4. \A u : Paid(u) = PaidIn(rewards, u)
    BY DEF Paid, PaidIn
  <2>5. BalancesAddUp
    <3>1. Balances
      BY <1>1 DEF AccountInv
    <3>. HIDE DEF Done, Times, Paid
    <3>2. UNION {Done("purchase", u) : u \in Account} = UNION {DoneIn(receipts, intents, "purchase", u) : u \in Account}
      BY <2>3
    <3>3. owners = {u \in Account : Done("purchase", u) # {}}
      BY <2>3, <3>1 DEF Balances, OwnersHaveBought
    <3>. QED  BY <2>3, <2>4, <3>1, <3>2, <3>3 DEF Balances, CoinsAddUp, VaultAddsUp, BalancesAddUp
  <2>. QED  BY <1>1, <2>2, <2>5 DEF AccountInv, ActionsHappenOnce
<1>. QED  BY <1>1, AccountInvariance, PTL

------------------------------------------------------------------------------
(* The life of a process: the inductive invariant *)

LEMMA RuntimeInvInit ==
    ASSUME RuntimeInit
    PROVE  RuntimeInv
<1>1. PICK e \in Extents : server = [stage |-> "starting", awaited |-> {}, sockets |-> FALSE, database |-> TRUE, extent |-> e]
  BY DEF RuntimeInit
<1>2. [stage |-> "idle", todo |-> << >>] \in Chore
  BY DEF Chore
<1>3. chores \in [RepeatedChores -> Chore]
  BY <1>2 DEF RuntimeInit
<1>4. tasks \in [Task -> [stage : Stages, for : SUBSET Task]]
  BY DEF RuntimeInit, Stages
<1>5. RuntimeTypeOK
  BY <1>1, <1>3, <1>4 DEF RuntimeInit, RuntimeTypeOK
<1>. QED  BY <1>1, <1>5 DEF RuntimeInit, RuntimeInv, LifetimeEnds, OnlyTheAwaitedRun, ClosedIsQuiet, StoppedWorkEnds

\* Tasks that go to a stage of their own: the others stay where they were.
LEMMA GoesIs ==
    ASSUME RuntimeTypeOK, NEW t \in Task, NEW stage \in Stages
    PROVE  /\ Goes(t, stage) \in [Task -> [stage : Stages, for : SUBSET Task]]
           /\ Goes(t, stage)[t].stage = stage
           /\ \A u \in Task : u # t => Goes(t, stage)[u] = tasks[u]
BY DEF RuntimeTypeOK, Goes

\* Stopping, or not: what is left of work ts when the process stops while it stands so.
LEMMA StopKeepsInv ==
    ASSUME RuntimeInv, NEW ts, NEW sockets \in BOOLEAN, ts \in [Task -> [stage : Stages, for : SUBSET Task]],
           server.stage # "stopping", Stop(ts, "stopping", sockets), owned' \in BOOLEAN, lost' \in BOOLEAN,
           chores' \in [RepeatedChores -> Chore]
    PROVE  RuntimeInv'
<1>. USE DEF RuntimeInv, Stop
<1>0. /\ server.awaited \in SUBSET Task /\ server.database = TRUE
      /\ server \in [stage : {"starting", "serving", "stopping"}, awaited : SUBSET Task, sockets : BOOLEAN, database : BOOLEAN, extent : Extents]
  BY DEF RuntimeTypeOK, ClosedIsQuiet
<1>. DEFINE A == Aborted(ts)
<1>1. A \in [Task -> [stage : Stages, for : SUBSET Task]] /\ \A t \in Task : A[t].stage # "waiting"
  BY DEF Aborted, EndedTask, Stages
<1>2. tasks' = A /\ lifetime' = "stopped" /\ server'.stage = "stopping" /\ server'.database = TRUE
      /\ server'.awaited = {t \in Task : A[t].stage \notin {"new", "ended"}}
  BY <1>0
<1>3. server' \in [stage : {"starting", "serving", "stopping"}, awaited : SUBSET Task, sockets : BOOLEAN, database : BOOLEAN, extent : Extents]
  BY <1>0, <1>2
<1>. HIDE DEF A, Stop
<1>4. RuntimeTypeOK'
  BY <1>1, <1>2, <1>3 DEF RuntimeTypeOK
<1>5. \A t \in Task \ server'.awaited : tasks'[t].stage \in {"new", "queued", "ended"}
  BY <1>2
<1>. QED  BY <1>1, <1>2, <1>4, <1>5 DEF LifetimeEnds, OnlyTheAwaitedRun, ClosedIsQuiet, StoppedWorkEnds

\* A step of one piece of work, or of none: what it may do to the others and to the server.
TaskSteps(ts) ==
    /\ ts \in [Task -> [stage : Stages, for : SUBSET Task]]
    /\ lifetime = "stopped" => \A t \in Task : ts[t] # tasks[t] =>
           \/ tasks[t].stage = "new" /\ ts[t].stage \in {"queued", "ended"}
           \/ ts[t].stage = "ended"

LEMMA TaskStepKeepsInv ==
    ASSUME RuntimeInv, NEW ts, TaskSteps(ts), tasks' = ts, UNCHANGED <<server, chores>>, owned' \in BOOLEAN, lost' \in BOOLEAN,
           lifetime' \in {"none", "open", "stopped"}, lifetime' = "stopped" <=> lifetime = "stopped"
    PROVE  RuntimeInv'
<1>. USE DEF RuntimeInv, TaskSteps
<1>1. RuntimeTypeOK'
  BY DEF RuntimeTypeOK
<1>2. LifetimeEnds'
  BY DEF LifetimeEnds
<1>3. OnlyTheAwaitedRun'
  BY DEF OnlyTheAwaitedRun, LifetimeEnds
<1>4. ClosedIsQuiet'
  BY DEF ClosedIsQuiet, LifetimeEnds
<1>5. StoppedWorkEnds'
  BY DEF StoppedWorkEnds
<1>. QED  BY <1>1, <1>2, <1>3, <1>4, <1>5

LEMMA ShutdownKeepsInv ==
    ASSUME RuntimeInv, NEW ts, TaskSteps(ts), Shutdown(ts), owned' \in BOOLEAN, lost' \in BOOLEAN,
           chores' \in [RepeatedChores -> Chore],
           server.stage # "serving" => \A c \in RepeatedChores : chores[c].stage = "idle" => chores'[c].stage = "idle"
    PROVE  RuntimeInv'
<1>1. CASE server.stage = "serving"
  BY <1>1, StopKeepsInv DEF Shutdown, TaskSteps
<1>2. CASE server.stage # "serving"
  <2>1. tasks' = ts /\ lifetime' = lifetime /\ server' = server
    BY <1>2 DEF Shutdown
  <2>. USE DEF RuntimeInv, TaskSteps
  <2>2. RuntimeTypeOK'
    BY <2>1 DEF RuntimeTypeOK
  <2>3. LifetimeEnds'
    BY <2>1 DEF LifetimeEnds
  <2>4. OnlyTheAwaitedRun'
    BY <2>1 DEF OnlyTheAwaitedRun, LifetimeEnds
  <2>5. ClosedIsQuiet'
    BY <2>1, <1>2 DEF ClosedIsQuiet, LifetimeEnds
  <2>6. StoppedWorkEnds'
    BY <2>1 DEF StoppedWorkEnds
  <2>. QED  BY <2>2, <2>3, <2>4, <2>5, <2>6
<1>. QED  BY <1>1, <1>2

LEMMA ReportKeepsInv ==
    ASSUME RuntimeInv, NEW ts, TaskSteps(ts), ReportLost(ts), owned' \in BOOLEAN,
           chores' \in [RepeatedChores -> Chore],
           \A c \in RepeatedChores : chores[c].stage = "idle" => chores'[c].stage = "idle"
    PROVE  RuntimeInv'
<1>1. CASE lost
  <2>1. tasks' = ts /\ lifetime' = lifetime /\ server' = server /\ lost' = TRUE
    BY <1>1 DEF ReportLost
  <2>. USE DEF RuntimeInv, TaskSteps
  <2>2. RuntimeTypeOK'
    BY <2>1 DEF RuntimeTypeOK
  <2>3. LifetimeEnds'
    BY <2>1 DEF LifetimeEnds
  <2>4. OnlyTheAwaitedRun'
    BY <2>1 DEF OnlyTheAwaitedRun, LifetimeEnds
  <2>5. ClosedIsQuiet'
    BY <2>1 DEF ClosedIsQuiet, LifetimeEnds
  <2>6. StoppedWorkEnds'
    BY <2>1 DEF StoppedWorkEnds
  <2>. QED  BY <2>2, <2>3, <2>4, <2>5, <2>6
<1>2. CASE ~lost
  BY <1>2, ShutdownKeepsInv DEF ReportLost
<1>. QED  BY <1>1, <1>2

\* The same tasks, chores going their way: what chores may do.
LEMMA ChoreStepKeepsInv ==
    ASSUME RuntimeInv, UNCHANGED <<owned, lost, lifetime, tasks, server>>, chores' \in [RepeatedChores -> Chore],
           server.stage = "serving" \/ \A c \in RepeatedChores : chores[c].stage = "idle" => chores'[c].stage = "idle"
    PROVE  RuntimeInv'
<1>. USE DEF RuntimeInv
<1>1. RuntimeTypeOK'
  BY DEF RuntimeTypeOK
<1>2. ClosedIsQuiet'
  BY DEF ClosedIsQuiet
<1>. QED  BY <1>1, <1>2 DEF LifetimeEnds, OnlyTheAwaitedRun, StoppedWorkEnds

LEMMA SignalKeepsInv ==
    ASSUME RuntimeInv, Signal \/ RestoreFails \/ Watch
    PROVE  RuntimeInv'
<1>0. tasks \in [Task -> [stage : Stages, for : SUBSET Task]] /\ TaskSteps(tasks) /\ owned \in BOOLEAN /\ lost \in BOOLEAN
      /\ chores \in [RepeatedChores -> Chore]
  BY DEF RuntimeInv, RuntimeTypeOK, TaskSteps
<1>1. CASE Signal
  BY <1>0, <1>1, ShutdownKeepsInv DEF Signal
<1>2. CASE RestoreFails
  BY <1>0, <1>2, StopKeepsInv DEF RestoreFails
<1>3. CASE Watch
  BY <1>0, <1>3, ReportKeepsInv DEF Watch
<1>. QED  BY <1>1, <1>2, <1>3

LEMMA ServerStepsKeepInv ==
    ASSUME RuntimeInv, Restored \/ SocketsClosed \/ CloseDatabase \/ TakeOver \/ Tick
    PROVE  RuntimeInv'
<1>. USE DEF RuntimeInv
<1>1. CASE Restored
  <2>1. /\ server.stage = "starting" /\ server'.stage = "serving" /\ server'.database = server.database
        /\ server'.awaited = server.awaited /\ UNCHANGED <<owned, lost, lifetime, tasks, chores>>
    BY <1>1 DEF Restored, RuntimeTypeOK
  <2>2. RuntimeTypeOK'
    BY <1>1, <2>1 DEF Restored, RuntimeTypeOK
  <2>3. ClosedIsQuiet' /\ LifetimeEnds' /\ OnlyTheAwaitedRun' /\ StoppedWorkEnds'
    BY <2>1 DEF ClosedIsQuiet, LifetimeEnds, OnlyTheAwaitedRun, StoppedWorkEnds
  <2>. QED  BY <2>2, <2>3
<1>2. CASE SocketsClosed
  <2>1. /\ server'.stage = server.stage /\ server'.database = server.database
        /\ server'.awaited = server.awaited /\ UNCHANGED <<owned, lost, lifetime, tasks, chores>>
    BY <1>2 DEF SocketsClosed, RuntimeTypeOK
  <2>2. RuntimeTypeOK'
    BY <1>2, <2>1 DEF SocketsClosed, RuntimeTypeOK
  <2>3. ClosedIsQuiet' /\ LifetimeEnds' /\ OnlyTheAwaitedRun' /\ StoppedWorkEnds'
    BY <2>1 DEF ClosedIsQuiet, LifetimeEnds, OnlyTheAwaitedRun, StoppedWorkEnds
  <2>. QED  BY <2>2, <2>3
<1>3. CASE CloseDatabase
  <2>1. /\ server'.stage = server.stage /\ server'.awaited = server.awaited /\ UNCHANGED <<owned, lost, lifetime, tasks, chores>>
        /\ server.stage = "stopping"
    BY <1>3 DEF CloseDatabase, RuntimeTypeOK
  <2>2. RuntimeTypeOK'
    BY <1>3, <2>1 DEF CloseDatabase, RuntimeTypeOK
  <2>3. \A t \in Task : tasks[t].stage \in {"new", "queued", "ended"}
    BY <1>3, <2>1 DEF CloseDatabase, Admitted, OnlyTheAwaitedRun
  <2>4. \A c \in RepeatedChores : chores[c].stage = "idle"
    BY <1>3 DEF CloseDatabase
  <2>5. ClosedIsQuiet' /\ LifetimeEnds' /\ OnlyTheAwaitedRun' /\ StoppedWorkEnds'
    BY <2>1, <2>3, <2>4 DEF ClosedIsQuiet, LifetimeEnds, OnlyTheAwaitedRun, StoppedWorkEnds
  <2>. QED  BY <2>2, <2>5
<1>4. CASE TakeOver \/ Tick
  <2>1. owned' \in BOOLEAN /\ UNCHANGED <<lost, lifetime, tasks, chores, server>>
    BY <1>4 DEF TakeOver, Tick, RuntimeTypeOK
  <2>2. RuntimeTypeOK'
    BY <2>1 DEF RuntimeTypeOK
  <2>3. ClosedIsQuiet' /\ LifetimeEnds' /\ OnlyTheAwaitedRun' /\ StoppedWorkEnds'
    BY <2>1 DEF ClosedIsQuiet, LifetimeEnds, OnlyTheAwaitedRun, StoppedWorkEnds
  <2>. QED  BY <2>2, <2>3
<1>. QED  BY <1>1, <1>2, <1>3, <1>4

\* Work that is at the database goes nowhere but to its end once the process stops.
LEMMA GoesStep ==
    ASSUME RuntimeInv, NEW t \in Task, NEW stage \in Stages,
           lifetime = "stopped" => stage = "ended" \/ (tasks[t].stage = "new" /\ stage = "queued")
    PROVE  TaskSteps(Goes(t, stage))
BY GoesIs DEF RuntimeInv, TaskSteps

LEMMA AdmissionKeepsInv ==
    ASSUME RuntimeInv, NEW t \in Task, Admit(t) \/ Begin(t) \/ Return(t) \/ ReadAgain(t)
    PROVE  RuntimeInv'
<1>0. /\ owned \in BOOLEAN /\ lost \in BOOLEAN /\ lifetime \in {"none", "open", "stopped"}
      /\ {"ended", "queued", "writing", "reading"} \subseteq Stages
      /\ tasks \in [Task -> [stage : Stages, for : SUBSET Task]]
  BY DEF RuntimeInv, RuntimeTypeOK, Stages
<1>1. CASE Admit(t)
  <2>1. tasks[t].stage = "new" /\ UNCHANGED <<owned, lost, chores, server>>
    BY <1>1 DEF Admit
  <2>2. CASE lost
    <3>1. tasks' = Goes(t, "ended") /\ lifetime' = lifetime
      BY <1>1, <2>2 DEF Admit
    <3>. QED  BY <1>0, <2>1, <3>1, GoesStep, TaskStepKeepsInv
  <2>3. CASE ~lost
    <3>1. tasks' = Goes(t, "queued") /\ lifetime' = Known(lifetime)
      BY <1>1, <2>3 DEF Admit
    <3>2. lifetime' \in {"none", "open", "stopped"} /\ (lifetime' = "stopped" <=> lifetime = "stopped")
      BY <1>0, <3>1 DEF Known
    <3>. QED  BY <1>0, <2>1, <3>1, <3>2, GoesStep, TaskStepKeepsInv
  <2>. QED  BY <2>2, <2>3
<1>2. CASE Begin(t)
  <2>0. UNCHANGED <<owned, lost, lifetime, chores, server>>
    BY <1>2 DEF Begin
  <2>1. CASE ~MayBegin /\ tasks' = Goes(t, "ended")
    BY <1>0, <2>0, <2>1, GoesStep, TaskStepKeepsInv
  <2>2. CASE MayBegin /\ tasks' = Goes(t, "writing")
    <3>1. lifetime # "stopped"
      BY <2>2 DEF MayBegin, CurrentWork
    <3>. QED  BY <1>0, <2>0, <2>2, <3>1, GoesStep, TaskStepKeepsInv
  <2>3. ASSUME NEW u \in server.extent.tasks, MayBegin, tasks[u].stage = "new",
               tasks' = [tasks EXCEPT ![t] = [stage |-> "delegating", for |-> {u}], ![u] = [stage |-> "queued", for |-> {}]]
        PROVE  RuntimeInv'
    <3>1. lifetime # "stopped"
      BY <2>3 DEF MayBegin, CurrentWork
    <3>2. u \in Task
      BY ServerRuntimeAssumption DEF RuntimeInv, RuntimeTypeOK
    <3>3. [stage |-> "delegating", for |-> {u}] \in [stage : Stages, for : SUBSET Task] /\ [stage |-> "queued", for |-> {}] \in [stage : Stages, for : SUBSET Task]
      BY <3>2 DEF Stages
    <3>4. tasks' \in [Task -> [stage : Stages, for : SUBSET Task]]
      BY <1>0, <2>3, <3>2, <3>3
    <3>5. TaskSteps(tasks')
      BY <3>1, <3>4 DEF TaskSteps
    <3>. DEFINE ts == tasks'
    <3>6. ts = tasks' /\ TaskSteps(ts)
      BY <3>5
    <3>. HIDE DEF ts
    <3>. QED  BY <1>0, <2>0, <3>6, TaskStepKeepsInv
  <2>. QED  BY <1>2, <2>1, <2>2, <2>3 DEF Begin
<1>3. CASE Return(t)
  <2>1. tasks' = Goes(t, "ended") /\ UNCHANGED <<owned, lost, lifetime, chores, server>>
    BY <1>3 DEF Return
  <2>. QED  BY <1>0, <2>1, GoesStep, TaskStepKeepsInv
<1>4. CASE ReadAgain(t)
  <2>. DEFINE stage == IF CurrentWork THEN "reading" ELSE "ended"
  <2>1. tasks' = Goes(t, stage) /\ UNCHANGED <<owned, lost, lifetime, chores, server>>
    BY <1>4 DEF ReadAgain
  <2>2. stage \in Stages /\ (lifetime = "stopped" => stage = "ended")
    BY DEF CurrentWork, Stages
  <2>. HIDE DEF stage
  <2>. QED  BY <1>0, <2>1, <2>2, GoesStep, TaskStepKeepsInv
<1>. QED  BY <1>1, <1>2, <1>3, <1>4

LEMMA DatabaseWorkKeepsInv ==
    ASSUME RuntimeInv, NEW t \in Task, Write(t) \/ Reread(t)
    PROVE  RuntimeInv'
<1>0. /\ owned \in BOOLEAN /\ lost \in BOOLEAN /\ lifetime \in {"none", "open", "stopped"}
      /\ {"ended", "queued", "writing", "reading", "waiting"} \subseteq Stages
      /\ chores \in [RepeatedChores -> Chore] /\ UNCHANGED <<owned, chores>>
  BY DEF RuntimeInv, RuntimeTypeOK, Stages, Write, Reread
<1>2. \/ ReportLost(Goes(t, "ended"))
      \/ tasks' = Goes(t, "ended") /\ UNCHANGED <<lost, lifetime, server>>
      \/ tasks' = Goes(t, "reading") /\ CurrentWork /\ UNCHANGED <<lost, lifetime, server>>
      \/ tasks' = Goes(t, "waiting") /\ CurrentWork /\ UNCHANGED <<lost, lifetime, server>>
  BY DEF Write, Reread
<1>3. TaskSteps(Goes(t, "ended")) /\ (CurrentWork => TaskSteps(Goes(t, "reading")) /\ TaskSteps(Goes(t, "waiting")))
  BY <1>0, GoesStep DEF CurrentWork
<1>. QED  BY <1>0, <1>2, <1>3, ReportKeepsInv, TaskStepKeepsInv

\* A chore that goes on to a state that is well formed.
LEMMA DoingIs ==
    ASSUME RuntimeInv, NEW c \in RepeatedChores, NEW stage \in {"idle", "finding", "working", "failed"},
           NEW todo \in Seq(Job \cup RepeatedChores), stage = "failed" => todo # << >>, Doing(c, stage, todo)
    PROVE  /\ chores' \in [RepeatedChores -> Chore] /\ chores'[c].stage = stage
           /\ \A d \in RepeatedChores : d # c => chores'[d] = chores[d]
<1>1. [stage |-> stage, todo |-> todo] \in Chore /\ chores \in [RepeatedChores -> Chore]
  BY DEF Chore, RuntimeInv, RuntimeTypeOK
<1>. QED  BY <1>1 DEF Doing

LEMMA BatchesAreItems ==
    ASSUME NEW c \in RepeatedChores, NEW found \in BatchOf(c)
    PROVE  found \in Seq(Job \cup RepeatedChores)
<1>1. CASE c = "settlement"
  <2>1. PICK n \in 0..Cardinality(Due) : found \in [1..n -> Due]
    BY <1>1 DEF BatchOf
  <2>2. Due \subseteq Job
    BY DEF Due
  <2>3. n \in Nat
    BY ServerRuntimeAssumption, FS_Subset, FS_CardinalityType, <2>2
  <2>. QED  BY <2>1, <2>2, <2>3
<1>2. CASE c # "settlement"
  <2>1. found = <<c>> \/ found = << >>
    BY <1>2 DEF BatchOf
  <2>2. c \in Job \cup RepeatedChores
    OBVIOUS
  <2>. HIDE DEF BatchOf
  <2>3. <<c>> \in Seq(Job \cup RepeatedChores) /\ << >> \in Seq(Job \cup RepeatedChores)
    BY <2>2
  <2>. QED  BY <2>1, <2>3
<1>. QED  BY <1>1, <1>2

LEMMA ChoresKeepInv ==
    ASSUME RuntimeInv, NEW c \in RepeatedChores, RunOnce(c) \/ Find(c) \/ EndOfBatch(c)
    PROVE  RuntimeInv'
<1>0. UNCHANGED <<owned, lost, lifetime, tasks, server>> /\ << >> \in Seq(Job \cup RepeatedChores)
  BY DEF RunOnce, Find, EndOfBatch
<1>1. CASE RunOnce(c)
  <2>1. Doing(c, "finding", << >>) /\ server.stage = "serving"
    BY <1>1 DEF RunOnce
  <2>. QED  BY <1>0, <2>1, DoingIs, ChoreStepKeepsInv
<1>2. CASE Find(c)
  <2>1. chores[c].stage = "finding"
    BY <1>2 DEF Find
  <2>2. CASE \E found \in BatchOf(c) : Doing(c, "working", found)
    <3>1. PICK found \in BatchOf(c) : Doing(c, "working", found)
      BY <2>2
    <3>2. found \in Seq(Job \cup RepeatedChores)
      BY <3>1, BatchesAreItems
    <3>. QED  BY <1>0, <2>1, <3>1, <3>2, DoingIs, ChoreStepKeepsInv
  <2>3. CASE Doing(c, "idle", << >>)
    BY <1>0, <2>3, DoingIs, ChoreStepKeepsInv
  <2>. QED  BY <1>2, <2>2, <2>3 DEF Find
<1>3. CASE EndOfBatch(c)
  <2>1. Doing(c, "idle", << >>)
    BY <1>3 DEF EndOfBatch
  <2>. QED  BY <1>0, <2>1, DoingIs, ChoreStepKeepsInv
<1>. QED  BY <1>1, <1>2, <1>3

LEMMA SettlementKeepsInv ==
    ASSUME RuntimeInv, Settle \/ BackOff
    PROVE  RuntimeInv'
<1>. DEFINE c == "settlement"
<1>0. c \in RepeatedChores /\ UNCHANGED <<owned, lost, lifetime, tasks, server>> /\ chores[c].stage # "idle"
  BY DEF Settle, BackOff, RepeatedChores
<1>1. chores[c].todo \in Seq(Job \cup RepeatedChores) /\ << >> \in Seq(Job \cup RepeatedChores)
  BY <1>0 DEF RuntimeInv, RuntimeTypeOK, Chore
<1>2. chores[c].todo # << >> => Tail(chores[c].todo) \in Seq(Job \cup RepeatedChores)
  BY <1>1
<1>3. CASE Settle
  <2>1. chores[c].todo # << >> /\ (Doing(c, "working", Tail(chores[c].todo)) \/ Doing(c, "failed", chores[c].todo))
    BY <1>3 DEF Settle
  <2>. HIDE DEF c
  <2>. QED  BY <1>0, <1>1, <1>2, <2>1, DoingIs, ChoreStepKeepsInv
<1>4. CASE BackOff
  <2>1. Doing(c, "working", Tail(chores[c].todo)) \/ Doing(c, "idle", << >>)
    BY <1>4 DEF BackOff
  <2>0. chores[c].todo # << >>
    BY <1>0, <1>4 DEF BackOff, RuntimeInv, RuntimeTypeOK, Chore
  <2>2. ASSUME Doing(c, "working", Tail(chores[c].todo)) PROVE RuntimeInv'
    BY <1>0, <1>1, <1>2, <2>0, <2>2, DoingIs, ChoreStepKeepsInv
  <2>3. ASSUME Doing(c, "idle", << >>) PROVE RuntimeInv'
    BY <1>0, <1>1, <2>3, DoingIs, ChoreStepKeepsInv
  <2>. QED  BY <2>1, <2>2, <2>3
<1>. QED  BY <1>3, <1>4

LEMMA FencedChoresKeepInv ==
    ASSUME RuntimeInv, RetireGuests \/ TellRevisions
    PROVE  RuntimeInv'
<1>0. /\ "guests" \in RepeatedChores /\ "profiles" \in RepeatedChores /\ << >> \in Seq(Job \cup RepeatedChores)
      /\ owned \in BOOLEAN /\ tasks \in [Task -> [stage : Stages, for : SUBSET Task]] /\ TaskSteps(tasks)
  BY DEF RepeatedChores, RuntimeInv, RuntimeTypeOK, TaskSteps
<1>1. CASE RetireGuests
  <2>1. chores["guests"].stage = "working" /\ owned' = owned
    BY <1>1 DEF RetireGuests
  <2>2. CASE ReportLost(tasks) /\ Doing("guests", "idle", << >>)
    <3>1. chores' \in [RepeatedChores -> Chore] /\ \A d \in RepeatedChores : chores[d].stage = "idle" => chores'[d].stage = "idle"
      BY <1>0, <2>1, <2>2, DoingIs
    <3>. QED  BY <1>0, <2>1, <2>2, <3>1, ReportKeepsInv
  <2>3. CASE Doing("guests", "working", << >>) /\ UNCHANGED <<lost, lifetime, tasks, server>>
    BY <1>0, <2>1, <2>3, DoingIs, ChoreStepKeepsInv
  <2>. QED  BY <1>1, <2>2, <2>3 DEF RetireGuests
<1>2. CASE TellRevisions
  <2>1. chores["profiles"].stage = "working" /\ Doing("profiles", "working", << >>) /\ UNCHANGED <<owned, lost, lifetime, tasks, server>>
    BY <1>2 DEF TellRevisions
  <2>. QED  BY <1>0, <2>1, DoingIs, ChoreStepKeepsInv
<1>. QED  BY <1>1, <1>2

LEMMA RuntimeInvNext ==
    ASSUME RuntimeInv, [RuntimeNext]_runtimeVars
    PROVE  RuntimeInv'
<1>0. RepeatedChores = {"settlement", "guests", "profiles"} /\ chores \in [RepeatedChores -> Chore]
  BY DEF RepeatedChores, RuntimeInv, RuntimeTypeOK
<1>1. CASE UNCHANGED <<owned, lost, lifetime, tasks, chores, server>>
  BY <1>0, <1>1, ChoreStepKeepsInv
<1>2. ASSUME NEW j \in Job, GameEnds(j) \/ SettledElsewhere(j) PROVE RuntimeInv'
  BY <1>1, <1>2 DEF GameEnds, SettledElsewhere
<1>3. CASE UNCHANGED runtimeVars
  BY <1>1, <1>3 DEF runtimeVars
<1>. QED  BY <1>2, <1>3, SignalKeepsInv, ServerStepsKeepInv, AdmissionKeepsInv, DatabaseWorkKeepsInv, ChoresKeepInv,
             SettlementKeepsInv, FencedChoresKeepInv DEF RuntimeNext

\* Stopping ends the lifetime of the admitted work, and what shutdown does not wait for
\* never begins: the invariant on which the order of the shutdown rests.
THEOREM RuntimeInvariance == RuntimeSpec => []RuntimeInv
<1>. QED  BY RuntimeInvInit, RuntimeInvNext, PTL DEF RuntimeSpec

\* The database is closed last, and nothing that shutdown waits for sleeps.
THEOREM ShutdownIsSound == RuntimeSpec => []RuntimeIsSound
<1>1. RuntimeInv => RuntimeIsSound
  BY DEF RuntimeInv, RuntimeIsSound, DatabaseClosesLast, ClosedIsQuiet
<1>. QED  BY <1>1, RuntimeInvariance, PTL

------------------------------------------------------------------------------
(* A session: the inductive invariant *)

SessionType == [phase : {"idle", "in-room", "searching", "in-game", "spectating"}, link : Nat, restoring : BOOLEAN,
                notice : Nat, cursor : Reading, search : [joined : Nat, fallback : Nat, timer : Nat]]
PageType == [phase : {"none", "idle", "in-room", "searching", "in-game", "spectating"}, open : BOOLEAN]
LeftType == [notices : Nat, links : Nat, searches : Nat, moves : Nat, faults : Nat, moments : Nat]

LEMMA SessionInvInit ==
    ASSUME SessionsInit
    PROVE  SessionInv
<1>1. NewSession \in SessionType /\ NoPage \in PageType
  BY DEF NewSession, NoContext, NoPage, SessionType, PageType, Reading
<1>2. SessionTypeOK
  BY <1>1, SessionsAssumption DEF SessionsInit, SessionTypeOK, NoDismissal, SessionType, PageType, NewSession, NoContext, NoPage, Reading
<1>3. notices = << >> /\ Latest = [sequence |-> 0, dismissed |-> FALSE] /\ session.cursor = Latest /\ session.notice = 0
      /\ session.phase = "idle" /\ readings = {} /\ dismissing = NoDismissal /\ dismissals.confirmed = {}
  BY DEF SessionsInit, Latest, NewSession
<1>. QED  BY <1>2, <1>3 DEF SessionInv, ReadingsAreTrue, CursorIsTrue, Truly, DismissalIsOfANotice, ConfirmedArePassed, LatestIsKnown,
          SearchIsTimed, FallbackIsKept

\* The newest notice, as the database has it.
LEMMA LatestIs ==
    ASSUME SessionTypeOK
    PROVE  /\ Latest \in Reading /\ Truly(Latest) /\ Latest.sequence = Len(notices)
           /\ Latest.sequence # 0 => Latest.dismissed = notices[Latest.sequence].dismissed
<1>0. notices \in Seq([dismissed : BOOLEAN])
  BY DEF SessionTypeOK
<1>1. CASE notices = << >>
  <2>1. Latest = [sequence |-> 0, dismissed |-> FALSE] /\ Len(notices) = 0
    BY <1>1 DEF Latest
  <2>. QED  BY <2>1 DEF Reading, Truly
<1>2. CASE notices # << >>
  <2>0. Len(notices) \in Nat /\ Len(notices) # 0
    BY <1>0, <1>2, EmptySeq
  <2>1. notices[Len(notices)] \in [dismissed : BOOLEAN]
    <3>1. Len(notices) \in 1..Len(notices)
      BY <2>0
    <3>. QED  BY <1>0, <3>1, ElementOfSeq
  <2>2. Latest = [sequence |-> Len(notices), dismissed |-> notices[Len(notices)].dismissed]
    BY <1>2 DEF Latest
  <2>. QED  BY <2>0, <2>1, <2>2 DEF Reading, Truly
<1>. QED  BY <1>1, <1>2

\* The phase, the connection and the search may change: the notices and what is known of them stay.
LEMMA NoticesStay ==
    ASSUME SessionInv, SessionTypeOK', UNCHANGED <<notices, readings, owing, dismissing>>,
           session'.cursor = session.cursor, session'.notice = session.notice,
           dismissals' = dismissals \/ (dismissals'.confirmed = dismissals.confirmed /\ (dismissals'.doubt \/ ~dismissals.doubt))
    PROVE  ReadingsAreTrue' /\ CursorIsTrue' /\ DismissalIsOfANotice' /\ ConfirmedArePassed' /\ LatestIsKnown'
<1>. USE DEF SessionInv
<1>1. ReadingsAreTrue' /\ CursorIsTrue' /\ DismissalIsOfANotice'
  BY DEF ReadingsAreTrue, CursorIsTrue, Truly, DismissalIsOfANotice
<1>2. ConfirmedArePassed'
  BY DEF ConfirmedArePassed, CursorPassed
<1>3. LatestIsKnown'
  BY DEF LatestIsKnown, Latest
<1>. QED  BY <1>1, <1>2, <1>3

\* A notice is applied: the cursor only goes on, and says what was true.
LEMMA NoticedIs ==
    ASSUME SessionInv, NEW r \in Reading, NEW s, s = Noticed(session, r), r.sequence = 0 => ~r.dismissed
    PROVE  /\ s \in SessionType /\ s.phase = session.phase /\ s.link = session.link /\ s.search = session.search
           /\ s.restoring = session.restoring
           /\ s.cursor = session.cursor \/ s.cursor = r
           /\ s.notice = IF s.cursor.dismissed THEN 0 ELSE s.cursor.sequence
           /\ s.cursor.sequence >= session.cursor.sequence
           /\ s.cursor.sequence = session.cursor.sequence => (session.cursor.dismissed => s.cursor.dismissed)
           /\ s.cursor.sequence >= r.sequence
           /\ s.cursor.sequence = r.sequence /\ r.dismissed => s.cursor.dismissed
<1>0. session \in SessionType /\ session.cursor \in Reading /\ session.notice = (IF session.cursor.dismissed THEN 0 ELSE session.cursor.sequence)
      /\ (session.cursor.dismissed => session.cursor.sequence # 0)
  BY DEF SessionInv, SessionTypeOK, SessionType, CursorIsTrue, Truly
<1>1. CASE r.sequence = 0 \/ Outdated(r)
  <2>1. s = session
    BY <1>1 DEF Noticed
  <2>2. r.sequence <= session.cursor.sequence /\ (r.sequence = session.cursor.sequence => ~r.dismissed \/ session.cursor.dismissed)
    BY <1>0, <1>1 DEF Outdated, Reading
  <2>. QED  BY <1>0, <2>1, <2>2 DEF Reading
<1>2. CASE ~(r.sequence = 0 \/ Outdated(r))
  <2>1. s = [session EXCEPT !.cursor = r, !.notice = IF r.dismissed THEN 0 ELSE r.sequence]
    BY <1>2 DEF Noticed
  <2>2. r.sequence >= session.cursor.sequence /\ (r.sequence = session.cursor.sequence => ~session.cursor.dismissed)
    BY <1>0, <1>2 DEF Outdated, Reading
  <2>3. (IF r.dismissed THEN 0 ELSE r.sequence) \in Nat
    BY DEF Reading
  <2>4. s \in SessionType /\ s.cursor = r /\ s.notice = IF r.dismissed THEN 0 ELSE r.sequence
    BY <1>0, <2>1, <2>3 DEF SessionType
  <2>5. s.phase = session.phase /\ s.link = session.link /\ s.search = session.search /\ s.restoring = session.restoring
    BY <1>0, <2>1 DEF SessionType
  <2>. QED  BY <1>0, <2>2, <2>4, <2>5 DEF Reading
<1>. QED  BY <1>1, <1>2

\* The session moves from one phase to another: what is published of it keeps the search's promise.
LEMMA PublishedIs ==
    ASSUME SessionInv, NEW s \in SessionType
    PROVE  Published(s) \in PageType
BY DEF SessionInv, SessionTypeOK, Published, PageOf, PageType, SessionType

\* What a connected page is shown of a search.
LEMMA PageIs ==
    ASSUME NEW s, s.link # 0, ~s.restoring
    PROVE  Published(s).open <=> (s.phase = "searching" /\ moment >= s.search.fallback)
<1>1. Published(s) = PageOf(s)
  BY DEF Published
<1>2. PageOf(s).open = (s.phase = "searching" /\ moment >= s.search.fallback)
  BY Zenon DEF PageOf
<1>. QED  BY <1>1, <1>2

LEMMA EnteredIs ==
    ASSUME NEW s \in SessionType, NEW next \in {"idle", "in-room", "searching", "in-game", "spectating"}
    PROVE  /\ Entered(s, next) \in SessionType /\ Entered(s, next).phase = next /\ Entered(s, next).cursor = s.cursor
           /\ Entered(s, next).notice = s.notice /\ Entered(s, next).link = s.link /\ Entered(s, next).restoring = s.restoring
BY DEF Entered, NoContext, SessionType

LEMMA MayIs ==
    ASSUME SessionTypeOK, NEW what \in {"notices", "links", "searches", "moves", "faults", "moments"}, May(what)
    PROVE  left' \in LeftType /\ left[what] \in Nat /\ left[what] # 0
<1>1. left \in LeftType /\ left[what] \in Nat /\ left[what] > 0
  BY DEF SessionTypeOK, LeftType, May
<1>2. left[what] - 1 \in Nat
  BY <1>1
<1>. QED  BY <1>1, <1>2 DEF LeftType, May

\* The types, with the names the lemmas use.
LEMMA SessionTypes ==
    SessionTypeOK <=>
            /\ session \in SessionType
            /\ notices \in Seq([dismissed : BOOLEAN]) /\ readings \subseteq Reading /\ owing \subseteq Nat
            /\ dismissing \in [notice : Nat, link : Nat, attempt : Nat]
            /\ shownPage \in PageType
            /\ dismissals \in [confirmed : SUBSET Nat, doubt : BOOLEAN]
            /\ moment \in Nat
            /\ left \in LeftType
BY DEF SessionTypeOK, SessionType, PageType, LeftType

LEMMA PhaseKeepsInv ==
    ASSUME SessionInv, ForceIdle \/ \E next \in {"idle", "in-room", "in-game", "spectating"} : Enter(next)
    PROVE  SessionInv'
<1>0. SessionTypeOK /\ session \in SessionType
  BY SessionTypes DEF SessionInv
<1>1. PICK next \in {"idle", "in-room", "in-game", "spectating"} :
         May("moves") /\ MoveTo(Entered(session, next)) /\ UNCHANGED <<notices, readings, owing, dismissing, dismissals, moment>>
  BY DEF ForceIdle, Enter
<1>2. session' = Entered(session, next) /\ shownPage' = Published(session')
  BY <1>1 DEF MoveTo
<1>3. session' \in SessionType /\ session'.phase = next /\ session'.cursor = session.cursor /\ session'.notice = session.notice
  BY <1>0, <1>2, EnteredIs
<1>4. shownPage' \in PageType
  BY <1>2, <1>3, PublishedIs
<1>5. SessionTypeOK'
  BY <1>0, <1>1, <1>3, <1>4, MayIs DEF SessionTypeOK, SessionType, PageType, LeftType
<1>6. SearchIsTimed' /\ FallbackIsKept'
  BY <1>3 DEF SearchIsTimed, FallbackIsKept
<1>. QED  BY <1>1, <1>3, <1>5, <1>6, NoticesStay DEF SessionInv

LEMMA SearchKeepsInv ==
    ASSUME SessionInv, BeginSearch
    PROVE  SessionInv'
<1>0. SessionTypeOK /\ session \in SessionType /\ moment \in Nat /\ left.searches \in Nat /\ left.searches # 0 /\ left' \in LeftType
  BY SessionTypes, MayIs DEF SessionInv, BeginSearch
<1>1. PICK after \in {0, Wait} :
        MoveTo([Entered(session, "searching") EXCEPT
            !.search = [joined |-> moment, fallback |-> moment + after, timer |-> IF after = 0 THEN 0 ELSE left.searches]])
  BY DEF BeginSearch
<1>2. after \in Nat /\ (after # 0 => moment < moment + after)
  BY <1>0, SessionsAssumption
<1>. DEFINE context == [joined |-> moment, fallback |-> moment + after, timer |-> IF after = 0 THEN 0 ELSE left.searches]
<1>3. context \in [joined : Nat, fallback : Nat, timer : Nat] /\ (after = 0 => context.fallback = moment) /\ (after # 0 => context.timer # 0)
  BY <1>0, <1>2
<1>. HIDE DEF context
<1>4. session' = [Entered(session, "searching") EXCEPT !.search = context] /\ shownPage' = Published(session')
  BY <1>1 DEF MoveTo, context
<1>5. session' \in SessionType /\ session'.phase = "searching" /\ session'.cursor = session.cursor /\ session'.notice = session.notice
      /\ session'.search = context /\ session'.link = session.link /\ session'.restoring = session.restoring
  BY <1>0, <1>3, <1>4, EnteredIs DEF SessionType
<1>6. shownPage' \in PageType
  BY <1>4, <1>5, PublishedIs
<1>7. SessionTypeOK'
  BY <1>0, <1>5, <1>6 DEF BeginSearch, SessionTypeOK, SessionType, PageType, LeftType
<1>8. after = 0 => shownPage'.open
  <2>1. session'.link # 0 /\ ~session'.restoring
    BY <1>5 DEF BeginSearch
  <2>2. shownPage'.open <=> (session'.phase = "searching" /\ moment >= session'.search.fallback)
    BY <1>4, <2>1, PageIs
  <2>. QED  BY <1>0, <1>3, <1>5, <2>2
<1>9. SearchIsTimed' /\ FallbackIsKept'
  <2>1. moment' = moment
    BY DEF BeginSearch
  <2>. QED  BY <1>0, <1>3, <1>5, <1>8, <2>1 DEF SearchIsTimed, FallbackIsKept
<1>. QED  BY <1>5, <1>7, <1>9, NoticesStay DEF SessionInv, BeginSearch

LEMMA TimeKeepsInv ==
    ASSUME SessionInv, TimerWakes \/ Moment
    PROVE  SessionInv'
<1>0. SessionTypeOK /\ session \in SessionType /\ moment \in Nat /\ session.search.fallback \in Nat
  BY SessionTypes DEF SessionInv, SessionType
<1>1. CASE TimerWakes
  <2>0. UNCHANGED <<notices, readings, owing, dismissing, dismissals, moment, left>> /\ session' = Woken(session)
    BY <1>1 DEF TimerWakes
  <2>1. CASE moment < session.search.fallback
    <3>1. session' = session /\ shownPage' = shownPage
      BY <1>1, <2>1 DEF TimerWakes, Woken
    <3>2. SessionTypeOK'
      BY <1>0, <2>0, <3>1 DEF SessionTypeOK
    <3>3. SearchIsTimed' /\ FallbackIsKept'
      BY <2>0, <3>1 DEF SearchIsTimed, FallbackIsKept, SessionInv
    <3>. QED  BY <2>0, <3>1, <3>2, <3>3, NoticesStay DEF SessionInv
  <2>2. CASE ~(moment < session.search.fallback)
    <3>1. session' = [session EXCEPT !.search.timer = 0] /\ shownPage' = Published(session')
      BY <1>1, <2>2 DEF TimerWakes, Woken
    <3>2. session' \in SessionType /\ session'.phase = session.phase /\ session'.cursor = session.cursor /\ session'.notice = session.notice
          /\ session'.link = session.link /\ session'.restoring = session.restoring /\ session'.search.fallback = session.search.fallback
      <4>1. session.search \in [joined : Nat, fallback : Nat, timer : Nat]
        BY <1>0 DEF SessionType
      <4>2. [session.search EXCEPT !.timer = 0] \in [joined : Nat, fallback : Nat, timer : Nat]
            /\ [session.search EXCEPT !.timer = 0].fallback = session.search.fallback
        BY <4>1
      <4>3. session' = [session EXCEPT !.search = [session.search EXCEPT !.timer = 0]]
        BY <1>0, <3>1 DEF SessionType
      <4>. QED  BY <1>0, <4>2, <4>3 DEF SessionType
    <3>3. shownPage' \in PageType
      BY <3>1, <3>2, PublishedIs
    <3>4. SessionTypeOK'
      BY <1>0, <2>0, <3>2, <3>3 DEF SessionTypeOK, SessionType, PageType, LeftType
    <3>5. session'.link # 0 /\ ~session'.restoring => shownPage'.open \/ session'.phase # "searching"
      <4>1. session'.link # 0 /\ ~session'.restoring => (shownPage'.open <=> (session'.phase = "searching" /\ moment >= session'.search.fallback))
        BY <3>1, PageIs
      <4>. QED  BY <1>0, <2>2, <3>2, <4>1
    <3>6. SearchIsTimed' /\ FallbackIsKept'
      BY <2>0, <2>2, <3>2, <3>5 DEF SearchIsTimed, FallbackIsKept
    <3>. QED  BY <2>0, <3>2, <3>4, <3>6, NoticesStay DEF SessionInv
  <2>. QED  BY <2>1, <2>2
<1>2. CASE Moment
  <2>1. moment' = moment + 1 /\ left' \in LeftType /\ UNCHANGED <<session, notices, readings, owing, dismissing, dismissals, shownPage>>
    BY <1>0, <1>2, MayIs DEF Moment
  <2>2. SessionTypeOK'
    <3>1. moment' \in Nat
      BY <1>0, <2>1
    <3>. QED  BY <1>0, <2>1, <3>1 DEF SessionTypeOK, LeftType
  <2>3. SearchIsTimed' /\ FallbackIsKept'
    BY <1>0, <2>1 DEF SearchIsTimed, FallbackIsKept, SessionInv
  <2>. QED  BY <2>1, <2>2, <2>3, NoticesStay DEF SessionInv
<1>. QED  BY <1>1, <1>2

\* What a log of notices says of its newest, and that only this is as new and says as much.
LEMMA NewestIs ==
    ASSUME NEW log \in Seq([dismissed : BOOLEAN]), NEW newest,
           newest = IF log = << >> THEN [sequence |-> 0, dismissed |-> FALSE] ELSE [sequence |-> Len(log), dismissed |-> log[Len(log)].dismissed]
    PROVE  /\ newest \in Reading /\ newest.sequence = Len(log)
           /\ newest.dismissed => newest.sequence # 0 /\ log[newest.sequence].dismissed
           /\ newest.sequence # 0 => newest.dismissed = log[newest.sequence].dismissed
           /\ \A c \in Reading : c.sequence = Len(log) /\ (c.dismissed => c.sequence # 0 /\ log[c.sequence].dismissed)
                                 /\ (newest.dismissed => c.dismissed) => c = newest
<1>1. Len(log) \in Nat /\ (log # << >> => Len(log) # 0) /\ (log = << >> => Len(log) = 0)
  BY EmptySeq
<1>2. log # << >> => log[Len(log)].dismissed \in BOOLEAN
  <2>1. ASSUME log # << >> PROVE log[Len(log)] \in [dismissed : BOOLEAN]
    <3>1. Len(log) \in 1..Len(log)
      BY <1>1, <2>1
    <3>. QED  BY <3>1, ElementOfSeq
  <2>. QED  BY <2>1
<1>3. newest \in Reading /\ newest.sequence = Len(log)
  BY <1>1, <1>2 DEF Reading
<1>4. newest.dismissed => newest.sequence # 0 /\ log[newest.sequence].dismissed
  BY <1>1
<1>5. newest.sequence # 0 => newest.dismissed = log[newest.sequence].dismissed
  BY <1>1
<1>6. ASSUME NEW c \in Reading, c.sequence = Len(log), c.dismissed => c.sequence # 0 /\ log[c.sequence].dismissed, newest.dismissed => c.dismissed
      PROVE  c = newest
  <2>1. c.dismissed => newest.dismissed
    BY <1>3, <1>5, <1>6
  <2>2. c.dismissed = newest.dismissed
    BY <1>3, <1>6, <2>1 DEF Reading
  <2>. QED  BY <1>3, <1>6, <2>2 DEF Reading
<1>. QED  BY <1>3, <1>4, <1>5, <1>6

\* What was said of a log stays true when it grows and more of it is dismissed.
LEMMA TruthStays ==
    ASSUME NEW old \in Seq([dismissed : BOOLEAN]), NEW log \in Seq([dismissed : BOOLEAN]), Len(old) <= Len(log),
           \A n \in 1..Len(old) : old[n].dismissed => log[n].dismissed,
           NEW r \in Reading, r.sequence <= Len(old), r.dismissed => r.sequence # 0 /\ old[r.sequence].dismissed
    PROVE  r.sequence <= Len(log) /\ (r.dismissed => r.sequence # 0 /\ log[r.sequence].dismissed)
<1>1. r.sequence \in Nat /\ Len(old) \in Nat /\ Len(log) \in Nat
  BY DEF Reading
<1>2. r.sequence # 0 => r.sequence \in 1..Len(old)
  BY <1>1
<1>. QED  BY <1>1, <1>2

\* The log only grows.
LEMMA AppendedGrows ==
    ASSUME NEW old \in Seq([dismissed : BOOLEAN]), NEW log, log = Append(old, [dismissed |-> FALSE])
    PROVE  /\ log \in Seq([dismissed : BOOLEAN]) /\ Len(log) = Len(old) + 1 /\ DOMAIN log = 1..Len(log)
           /\ Len(old) <= Len(log) /\ \A n \in 1..Len(old) : old[n].dismissed => log[n].dismissed
<1>1. log \in Seq([dismissed : BOOLEAN]) /\ Len(log) = Len(old) + 1 /\ Len(old) \in Nat
  BY SMT
<1>2. \A n \in 1..Len(old) : log[n] = old[n]
  BY SMT
<1>3. Len(old) <= Len(log)
  BY <1>1
<1>4. DOMAIN log = 1..Len(log)
  BY <1>1
<1>. QED  BY <1>1, <1>2, <1>3, <1>4

LEMMA DismissedGrows ==
    ASSUME NEW old \in Seq([dismissed : BOOLEAN]), NEW n \in DOMAIN old, NEW log, log = [old EXCEPT ![n] = [old[n] EXCEPT !.dismissed = TRUE]]
    PROVE  /\ log \in Seq([dismissed : BOOLEAN]) /\ Len(log) = Len(old) /\ DOMAIN log = DOMAIN old /\ log[n].dismissed
           /\ Len(old) <= Len(log) /\ \A k \in 1..Len(old) : old[k].dismissed => log[k].dismissed
<1>1. Len(old) \in Nat /\ DOMAIN old = 1..Len(old)
  BY SMT
<1>2. old[n] \in [dismissed : BOOLEAN]
  BY <1>1, ElementOfSeq
<1>3. [old[n] EXCEPT !.dismissed = TRUE] \in [dismissed : BOOLEAN] /\ [old[n] EXCEPT !.dismissed = TRUE].dismissed
  BY <1>2
<1>4. log \in Seq([dismissed : BOOLEAN]) /\ Len(log) = Len(old) /\ DOMAIN log = DOMAIN old
  <2>. DEFINE item == [old[n] EXCEPT !.dismissed = TRUE]
  <2>1. item \in [dismissed : BOOLEAN] /\ log = [old EXCEPT ![n] = item]
    BY <1>3
  <2>. HIDE DEF item
  <2>2. n \in 1..Len(old) /\ DOMAIN log = DOMAIN old
    BY <1>1, <2>1
  <2>3. item \in [dismissed : BOOLEAN]
    BY <2>1
  <2>. DEFINE S == [dismissed : BOOLEAN]
  <2>. HIDE DEF S
  <2>5. old \in Seq(S) /\ item \in S
    BY <2>3 DEF S
  <2>6. [old EXCEPT ![n] = item] \in Seq(S) /\ Len([old EXCEPT ![n] = item]) = Len(old)
    BY <2>2, <2>5, ExceptSeq
  <2>4. [old EXCEPT ![n] = item] \in Seq([dismissed : BOOLEAN]) /\ Len([old EXCEPT ![n] = item]) = Len(old)
    BY <2>6 DEF S
  <2>. QED  BY <2>1, <2>2, <2>4
<1>5. \A k \in 1..Len(old) : log[k] = IF k = n THEN [old[n] EXCEPT !.dismissed = TRUE] ELSE old[k]
  BY <1>1
<1>6. Len(old) <= Len(log)
  BY <1>1, <1>4
<1>. QED  BY <1>1, <1>3, <1>4, <1>5, <1>6

\* The notices, their readings and the cursor, after what was read is applied to the session.
LEMMA LatestTrue ==
    ASSUME SessionTypeOK
    PROVE  /\ Latest \in Reading /\ Latest.sequence = Len(notices)
           /\ Latest.dismissed => Latest.sequence # 0 /\ notices[Latest.sequence].dismissed
           /\ Latest.sequence # 0 => Latest.dismissed = notices[Latest.sequence].dismissed
           /\ \A c \in Reading : Truly(c) /\ c.sequence = Len(notices) /\ (Latest.dismissed => c.dismissed) => c = Latest
<1>1. notices \in Seq([dismissed : BOOLEAN])
  BY DEF SessionTypeOK
<1>2. Latest = IF notices = << >> THEN [sequence |-> 0, dismissed |-> FALSE] ELSE [sequence |-> Len(notices), dismissed |-> notices[Len(notices)].dismissed]
  BY DEF Latest
<1>. QED  BY <1>1, <1>2, NewestIs DEF Truly

LEMMA AppendKeepsInv ==
    ASSUME SessionInv, AppendNotice
    PROVE  SessionInv'
<1>0. SessionTypeOK /\ notices \in Seq([dismissed : BOOLEAN]) /\ notices' = Append(notices, [dismissed |-> FALSE])
      /\ UNCHANGED <<session, readings, dismissing, dismissals, shownPage, moment>> /\ left' \in LeftType
      /\ owing' = owing \cup {Len(notices) + 1}
  BY MayIs DEF SessionInv, SessionTypeOK, AppendNotice
<1>1. /\ notices' \in Seq([dismissed : BOOLEAN]) /\ Len(notices') = Len(notices) + 1 /\ DOMAIN notices' = 1..Len(notices')
      /\ Len(notices) <= Len(notices') /\ \A n \in 1..Len(notices) : notices[n].dismissed => notices'[n].dismissed
  BY <1>0, AppendedGrows
<1>2. Len(notices) \in Nat /\ owing' \subseteq Nat /\ owing' # {}
  <2>1. Len(notices) \in Nat
    BY <1>0
  <2>2. Len(notices) + 1 \in Nat /\ owing \subseteq Nat
    BY <1>0, <2>1 DEF SessionTypeOK
  <2>. QED  BY <1>0, <2>1, <2>2
<1>3. SessionTypeOK'
  BY <1>0, <1>1, <1>2 DEF SessionTypeOK, LeftType
<1>4. \A r \in Reading : r.sequence <= Len(notices) /\ (r.dismissed => r.sequence # 0 /\ notices[r.sequence].dismissed)
        => r.sequence <= Len(notices') /\ (r.dismissed => r.sequence # 0 /\ notices'[r.sequence].dismissed)
  BY <1>0, <1>1, TruthStays
<1>5. ReadingsAreTrue' /\ CursorIsTrue'
  <2>1. readings \subseteq Reading /\ session.cursor \in Reading
    BY <1>0 DEF SessionTypeOK
  <2>. QED  BY <1>0, <1>4, <2>1 DEF ReadingsAreTrue, CursorIsTrue, Truly, SessionInv
<1>6. DOMAIN notices \subseteq DOMAIN notices'
  BY <1>0, <1>1
<1>7. DismissalIsOfANotice' /\ ConfirmedArePassed'
  <2>1. DOMAIN notices = 1..Len(notices)
    BY <1>0
  <2>. QED  BY <1>0, <1>1, <1>6, <2>1 DEF DismissalIsOfANotice, ConfirmedArePassed, CursorPassed, SessionInv
<1>8. LatestIsKnown' /\ SearchIsTimed' /\ FallbackIsKept'
  BY <1>0, <1>2 DEF LatestIsKnown, SearchIsTimed, FallbackIsKept, SessionInv
<1>. QED  BY <1>3, <1>5, <1>7, <1>8 DEF SessionInv

LEMMA ReadKeepsInv ==
    ASSUME SessionInv, NEW n \in owing, ReadAccount(n)
    PROVE  SessionInv'
<1>0. SessionTypeOK /\ owing' = owing \ {n} /\ readings' = readings \cup {Latest}
      /\ UNCHANGED <<session, notices, dismissing, dismissals, shownPage, moment, left>>
  BY DEF SessionInv, ReadAccount
<1>1. Latest \in Reading /\ Truly(Latest)
  BY <1>0, LatestIs
<1>2. SessionTypeOK'
  BY <1>0, <1>1 DEF SessionTypeOK
<1>3. ReadingsAreTrue' /\ CursorIsTrue' /\ DismissalIsOfANotice' /\ ConfirmedArePassed'
  BY <1>0, <1>1 DEF ReadingsAreTrue, CursorIsTrue, DismissalIsOfANotice, ConfirmedArePassed, CursorPassed, Truly, SessionInv
<1>4. Latest' = Latest
  BY <1>0 DEF Latest
<1>5. LatestIsKnown' /\ SearchIsTimed' /\ FallbackIsKept'
  BY <1>0, <1>4 DEF LatestIsKnown, SearchIsTimed, FallbackIsKept, SessionInv
<1>. QED  BY <1>2, <1>3, <1>5 DEF SessionInv

LEMMA ApplyKeepsInv ==
    ASSUME SessionInv, NEW r \in readings, ApplyReading(r)
    PROVE  SessionInv'
<1>0. SessionTypeOK /\ session \in SessionType /\ r \in Reading /\ readings' = readings \ {r} /\ session' = Noticed(session, r)
      /\ UNCHANGED <<notices, owing, dismissing, dismissals, shownPage, moment, left>> /\ session.cursor \in Reading
  BY SessionTypes DEF SessionInv, ApplyReading, SessionType
<1>1. Truly(r) /\ Truly(session.cursor)
  BY DEF SessionInv, ReadingsAreTrue, CursorIsTrue
<1>2. /\ session' \in SessionType /\ session'.phase = session.phase /\ session'.link = session.link /\ session'.search = session.search
      /\ session'.restoring = session.restoring
      /\ session'.cursor = session.cursor \/ session'.cursor = r
      /\ session'.notice = IF session'.cursor.dismissed THEN 0 ELSE session'.cursor.sequence
      /\ session'.cursor.sequence >= session.cursor.sequence
      /\ session'.cursor.sequence = session.cursor.sequence => (session.cursor.dismissed => session'.cursor.dismissed)
      /\ session'.cursor.sequence >= r.sequence
      /\ session'.cursor.sequence = r.sequence /\ r.dismissed => session'.cursor.dismissed
  <2>1. r.sequence = 0 => ~r.dismissed
    BY <1>1 DEF Truly
  <2>. QED  BY <1>0, <2>1, NoticedIs
<1>3. session'.cursor \in Reading /\ Truly(session'.cursor)
  BY <1>0, <1>1, <1>2
<1>4. SessionTypeOK'
  BY <1>0, <1>2 DEF SessionTypeOK, SessionType
<1>5. ReadingsAreTrue' /\ CursorIsTrue' /\ DismissalIsOfANotice'
  BY <1>0, <1>2, <1>3 DEF ReadingsAreTrue, CursorIsTrue, DismissalIsOfANotice, Truly, SessionInv
<1>6. ConfirmedArePassed'
  <2>1. ASSUME NEW n \in dismissals.confirmed PROVE n <= session'.cursor.sequence /\ (n = session'.cursor.sequence => session'.cursor.dismissed)
    <3>1. n \in Nat /\ n <= session.cursor.sequence /\ (n = session.cursor.sequence => session.cursor.dismissed)
      BY <1>0 DEF SessionInv, ConfirmedArePassed, CursorPassed, SessionTypeOK
    <3>. QED  BY <1>0, <1>2, <1>3, <3>1 DEF Reading
  <2>. QED  BY <1>0, <2>1 DEF ConfirmedArePassed, CursorPassed, SessionInv
<1>7. LatestIsKnown'
  <2>0. Latest' = Latest
    BY <1>0 DEF Latest
  <2>1. /\ Latest \in Reading /\ Latest.sequence = Len(notices)
        /\ \A c \in Reading : Truly(c) /\ c.sequence = Len(notices) /\ (Latest.dismissed => c.dismissed) => c = Latest
    BY <1>0, LatestTrue
  <2>2. Len(notices) \in Nat /\ session'.cursor.sequence <= Len(notices)
    BY <1>0, <1>3 DEF Truly, SessionTypeOK
  <2>3. CASE session.cursor = Latest
    <3>1. session'.cursor.sequence = Len(notices) /\ (Latest.dismissed => session'.cursor.dismissed)
      BY <1>2, <1>3, <2>1, <2>2, <2>3 DEF Reading
    <3>. QED  BY <1>3, <2>0, <2>1, <3>1 DEF LatestIsKnown
  <2>4. CASE r = Latest
    <3>1. session'.cursor.sequence = Len(notices) /\ (Latest.dismissed => session'.cursor.dismissed)
      BY <1>2, <1>3, <2>1, <2>2, <2>4 DEF Reading
    <3>. QED  BY <1>3, <2>0, <2>1, <3>1 DEF LatestIsKnown
  <2>5. CASE session.cursor # Latest /\ r # Latest
    BY <1>0, <2>0, <2>5 DEF LatestIsKnown, SessionInv
  <2>. QED  BY <2>3, <2>4, <2>5
<1>8. SearchIsTimed' /\ FallbackIsKept'
  BY <1>0, <1>2 DEF SearchIsTimed, FallbackIsKept, SessionInv
<1>. QED  BY <1>4, <1>5, <1>6, <1>7, <1>8 DEF SessionInv

LEMMA DismissKeepsInv ==
    ASSUME SessionInv, NEW n \in DOMAIN notices, Dismiss(n)
    PROVE  SessionInv'
<1>0. SessionTypeOK /\ UNCHANGED <<session, notices, readings, owing, dismissals, shownPage, moment, left>>
      /\ dismissing' = [notice |-> n, link |-> session.link, attempt |-> 1]
  BY DEF SessionInv, Dismiss
<1>1. n \in Nat /\ session.link \in Nat
  <2>1. DOMAIN notices = 1..Len(notices)
    BY <1>0 DEF SessionTypeOK
  <2>. QED  BY <1>0, <2>1 DEF SessionTypeOK
<1>2. SessionTypeOK'
  BY <1>0, <1>1 DEF SessionTypeOK
<1>3. DismissalIsOfANotice'
  BY <1>0 DEF DismissalIsOfANotice
<1>4. Latest' = Latest
  BY <1>0 DEF Latest
<1>. QED  BY <1>0, <1>2, <1>3, <1>4 DEF SessionInv, ReadingsAreTrue, CursorIsTrue, Truly, ConfirmedArePassed, CursorPassed, LatestIsKnown,
          SearchIsTimed, FallbackIsKept

\* A second attempt, or none.
LEMMA AttemptedIs ==
    ASSUME dismissing \in [notice : Nat, link : Nat, attempt : Nat]
    PROVE  Attempted \in [notice : Nat, link : Nat, attempt : Nat] /\ (Attempted = NoDismissal \/ Attempted.notice = dismissing.notice)
BY DEF Attempted, NoDismissal

LEMMA ConfirmKeepsInv ==
    ASSUME SessionInv, NEW n, n = dismissing.notice, dismissing # NoDismissal,
           notices' = Dismissed(n), session' = Noticed(session, Latest'),
           dismissals' = [confirmed |-> dismissals.confirmed \cup {n}, doubt |-> FALSE],
           dismissing' = NoDismissal, UNCHANGED <<left, readings, owing, shownPage, moment>>
    PROVE  SessionInv'
<1>0. SessionTypeOK /\ session \in SessionType /\ notices \in Seq([dismissed : BOOLEAN]) /\ n \in DOMAIN notices /\ session.cursor \in Reading
      /\ readings \subseteq Reading
  BY SessionTypes DEF SessionInv, DismissalIsOfANotice, SessionTypeOK
<1>1. DOMAIN notices = 1..Len(notices) /\ Len(notices) \in Nat /\ n \in Nat
  BY <1>0
<1>2. /\ notices' \in Seq([dismissed : BOOLEAN]) /\ Len(notices') = Len(notices) /\ DOMAIN notices' = DOMAIN notices /\ notices'[n].dismissed
      /\ Len(notices) <= Len(notices') /\ \A k \in 1..Len(notices) : notices[k].dismissed => notices'[k].dismissed
  <2>1. notices' = [notices EXCEPT ![n] = [notices[n] EXCEPT !.dismissed = TRUE]]
    BY DEF Dismissed
  <2>. QED  BY <1>0, <2>1, DismissedGrows
<1>3. \A r \in Reading : r.sequence <= Len(notices) /\ (r.dismissed => r.sequence # 0 /\ notices[r.sequence].dismissed)
        => r.sequence <= Len(notices') /\ (r.dismissed => r.sequence # 0 /\ notices'[r.sequence].dismissed)
  BY <1>0, <1>2, TruthStays
<1>4. /\ Latest' \in Reading /\ Latest'.sequence = Len(notices')
      /\ Latest'.dismissed => Latest'.sequence # 0 /\ notices'[Latest'.sequence].dismissed
      /\ Latest'.sequence # 0 => Latest'.dismissed = notices'[Latest'.sequence].dismissed
      /\ \A c \in Reading : c.sequence = Len(notices') /\ (c.dismissed => c.sequence # 0 /\ notices'[c.sequence].dismissed)
                            /\ (Latest'.dismissed => c.dismissed) => c = Latest'
  <2>1. Latest' = IF notices' = << >> THEN [sequence |-> 0, dismissed |-> FALSE]
                  ELSE [sequence |-> Len(notices'), dismissed |-> notices'[Len(notices')].dismissed]
    BY DEF Latest
  <2>. QED  BY <1>2, <2>1, NewestIs
<1>5. /\ session' \in SessionType /\ session'.phase = session.phase /\ session'.link = session.link /\ session'.search = session.search
      /\ session'.restoring = session.restoring
      /\ session'.cursor = session.cursor \/ session'.cursor = Latest'
      /\ session'.notice = IF session'.cursor.dismissed THEN 0 ELSE session'.cursor.sequence
      /\ session'.cursor.sequence >= Latest'.sequence
      /\ session'.cursor.sequence = Latest'.sequence /\ Latest'.dismissed => session'.cursor.dismissed
  <2>1. Latest'.sequence = 0 => ~Latest'.dismissed
    BY <1>4
  <2>. QED  BY <1>4, <2>1, NoticedIs
<1>6. session'.cursor \in Reading /\ session'.cursor.sequence <= Len(notices')
      /\ (session'.cursor.dismissed => session'.cursor.sequence # 0 /\ notices'[session'.cursor.sequence].dismissed)
  <2>1. Truly(session.cursor)
    BY DEF SessionInv, CursorIsTrue
  <2>2. CASE session'.cursor = session.cursor
    BY <1>0, <1>3, <2>1, <2>2 DEF Truly
  <2>3. CASE session'.cursor = Latest'
    BY <1>2, <1>4, <2>3 DEF Reading
  <2>. QED  BY <1>5, <2>2, <2>3
<1>7. session'.cursor = Latest'
  <2>1. session'.cursor.sequence = Len(notices')
    BY <1>1, <1>2, <1>4, <1>5, <1>6 DEF Reading
  <2>. QED  BY <1>4, <1>5, <1>6, <2>1
<1>8. SessionTypeOK'
  <2>1. dismissals' \in [confirmed : SUBSET Nat, doubt : BOOLEAN]
    BY <1>0, <1>1 DEF SessionTypeOK
  <2>2. NoDismissal \in [notice : Nat, link : Nat, attempt : Nat]
    BY DEF NoDismissal
  <2>. QED  BY <1>0, <1>2, <1>5, <2>1, <2>2 DEF SessionTypeOK, SessionType
<1>9. ReadingsAreTrue' /\ CursorIsTrue'
  BY <1>0, <1>3, <1>5, <1>6 DEF ReadingsAreTrue, CursorIsTrue, Truly, SessionInv
<1>10. ConfirmedArePassed'
  <2>1. ASSUME NEW m \in dismissals.confirmed \cup {n} PROVE m \in DOMAIN notices /\ notices'[m].dismissed
    BY <1>0, <1>1, <1>2, <2>1 DEF SessionInv, ConfirmedArePassed
  <2>2. ASSUME NEW m \in dismissals.confirmed \cup {n} PROVE m <= session'.cursor.sequence /\ (m = session'.cursor.sequence => session'.cursor.dismissed)
    <3>1. m \in 1..Len(notices) /\ notices'[m].dismissed
      BY <1>1, <2>1
    <3>. QED  BY <1>1, <1>2, <1>4, <1>7, <3>1
  <2>. QED  BY <1>2, <2>1, <2>2 DEF ConfirmedArePassed, CursorPassed
<1>11. DismissalIsOfANotice' /\ LatestIsKnown' /\ SearchIsTimed' /\ FallbackIsKept'
  BY <1>5, <1>7 DEF DismissalIsOfANotice, NoDismissal, LatestIsKnown, SearchIsTimed, FallbackIsKept, SessionInv
<1>. QED  BY <1>8, <1>9, <1>10, <1>11 DEF SessionInv

LEMMA AttemptKeepsInv ==
    ASSUME SessionInv, dismissing # NoDismissal, dismissing' = Attempted, UNCHANGED <<session, readings, owing, shownPage, moment>>, left' \in LeftType,
           \/ UNCHANGED <<notices, dismissals>>
           \/ notices' \in {notices, Dismissed(dismissing.notice)} /\ dismissals' = [dismissals EXCEPT !.doubt = TRUE]
    PROVE  SessionInv'
<1>0. SessionTypeOK /\ session \in SessionType /\ notices \in Seq([dismissed : BOOLEAN]) /\ dismissing.notice \in DOMAIN notices
      /\ session.cursor \in Reading /\ readings \subseteq Reading /\ dismissing \in [notice : Nat, link : Nat, attempt : Nat]
      /\ dismissals \in [confirmed : SUBSET Nat, doubt : BOOLEAN]
  BY SessionTypes DEF SessionInv, DismissalIsOfANotice, SessionTypeOK
<1>1. /\ notices' \in Seq([dismissed : BOOLEAN]) /\ DOMAIN notices' = DOMAIN notices
      /\ Len(notices) <= Len(notices') /\ \A k \in 1..Len(notices) : notices[k].dismissed => notices'[k].dismissed
  <2>1. CASE notices' = notices
    BY <1>0, <2>1
  <2>2. CASE notices' = Dismissed(dismissing.notice)
    <3>1. notices' = [notices EXCEPT ![dismissing.notice] = [notices[dismissing.notice] EXCEPT !.dismissed = TRUE]]
      BY <2>2 DEF Dismissed
    <3>. QED  BY <1>0, <3>1, DismissedGrows
  <2>. QED  BY <2>1, <2>2
<1>2. \A r \in Reading : r.sequence <= Len(notices) /\ (r.dismissed => r.sequence # 0 /\ notices[r.sequence].dismissed)
        => r.sequence <= Len(notices') /\ (r.dismissed => r.sequence # 0 /\ notices'[r.sequence].dismissed)
  BY <1>0, <1>1, TruthStays
<1>3. Attempted \in [notice : Nat, link : Nat, attempt : Nat] /\ (Attempted = NoDismissal \/ Attempted.notice = dismissing.notice)
  BY <1>0, AttemptedIs
<1>4. dismissals' \in [confirmed : SUBSET Nat, doubt : BOOLEAN] /\ dismissals'.confirmed = dismissals.confirmed
      /\ ((dismissals' = dismissals /\ notices' = notices) \/ dismissals'.doubt)
  BY <1>0
<1>5. SessionTypeOK'
  BY <1>0, <1>1, <1>3, <1>4 DEF SessionTypeOK, LeftType
<1>6. ReadingsAreTrue' /\ CursorIsTrue'
  BY <1>0, <1>2 DEF ReadingsAreTrue, CursorIsTrue, Truly, SessionInv
<1>7. DismissalIsOfANotice'
  BY <1>0, <1>1, <1>3 DEF DismissalIsOfANotice
<1>8. ConfirmedArePassed'
  <2>1. DOMAIN notices = 1..Len(notices)
    BY <1>0
  <2>. QED  BY <1>0, <1>1, <1>4, <2>1 DEF ConfirmedArePassed, CursorPassed, SessionInv
<1>9. LatestIsKnown' /\ SearchIsTimed' /\ FallbackIsKept'
  BY <1>4 DEF LatestIsKnown, Latest, SearchIsTimed, FallbackIsKept, SessionInv
<1>. QED  BY <1>5, <1>6, <1>7, <1>8, <1>9 DEF SessionInv

LEMMA DismissOnceKeepsInv ==
    ASSUME SessionInv, DismissOnce
    PROVE  SessionInv'
<1>. DEFINE n == dismissing.notice
<1>0. SessionTypeOK /\ left \in LeftType /\ dismissing # NoDismissal /\ UNCHANGED <<readings, owing, shownPage, moment>>
  BY DEF SessionInv, SessionTypeOK, LeftType, DismissOnce
<1>1. ASSUME notices' = Dismissed(n), session' = Noticed(session, Latest'), dismissals' = [confirmed |-> dismissals.confirmed \cup {n}, doubt |-> FALSE],
             dismissing' = NoDismissal, UNCHANGED left
      PROVE  SessionInv'
  BY <1>0, <1>1, ConfirmKeepsInv
<1>2. ASSUME dismissing' = Attempted, UNCHANGED <<notices, session, dismissals, left>>
      PROVE  SessionInv'
  BY <1>0, <1>2, AttemptKeepsInv
<1>3. ASSUME May("faults"), dismissing' = Attempted, UNCHANGED session, notices' \in {notices, Dismissed(n)},
             dismissals' = [dismissals EXCEPT !.doubt = TRUE]
      PROVE  SessionInv'
  <2>1. left' \in LeftType
    BY <1>0, <1>3, MayIs
  <2>. QED  BY <1>0, <1>3, <2>1, AttemptKeepsInv
<1>. QED  BY <1>1, <1>2, <1>3 DEF DismissOnce

LEMMA OpenKeepsInv ==
    ASSUME SessionInv, OpenConnection
    PROVE  SessionInv'
<1>0. SessionTypeOK /\ session \in SessionType /\ left.links \in Nat /\ left.links # 0 /\ left' \in LeftType
      /\ session' = [session EXCEPT !.link = left.links, !.restoring = TRUE] /\ shownPage' = NoPage
      /\ UNCHANGED <<notices, readings, owing, dismissing, dismissals, moment>>
  BY SessionTypes, MayIs DEF SessionInv, OpenConnection
<1>1. session' \in SessionType /\ session'.phase = session.phase /\ session'.cursor = session.cursor /\ session'.notice = session.notice
      /\ session'.search = session.search /\ session'.restoring
  BY <1>0 DEF SessionType
<1>2. NoPage \in PageType
  BY DEF NoPage, PageType
<1>3. SessionTypeOK'
  BY <1>0, <1>1, <1>2 DEF SessionTypeOK, SessionType, PageType, LeftType
<1>4. SearchIsTimed' /\ FallbackIsKept'
  BY <1>0, <1>1 DEF SearchIsTimed, FallbackIsKept, SessionInv
<1>. QED  BY <1>0, <1>1, <1>3, <1>4, NoticesStay DEF SessionInv

\* A connection that ends takes the search with it, and nothing else.
LEMMA DisconnectedIs ==
    ASSUME NEW s \in SessionType
    PROVE  /\ Disconnected(s) \in SessionType /\ Disconnected(s).phase # "searching" /\ Disconnected(s).cursor = s.cursor
           /\ Disconnected(s).notice = s.notice
<1>. DEFINE t == IF s.phase = "searching" THEN Entered(s, "idle") ELSE s
<1>1. t \in SessionType /\ t.phase # "searching" /\ t.cursor = s.cursor /\ t.notice = s.notice
  BY EnteredIs
<1>2. Disconnected(s) = [t EXCEPT !.link = 0, !.restoring = FALSE]
  BY DEF Disconnected
<1>. HIDE DEF t
<1>. DEFINE u == [t EXCEPT !.link = 0]
<1>3. u \in SessionType /\ u.phase = t.phase /\ u.cursor = t.cursor /\ u.notice = t.notice
  BY <1>1 DEF SessionType
<1>4. Disconnected(s) = [u EXCEPT !.restoring = FALSE]
  BY <1>2
<1>. HIDE DEF u
<1>5. [u EXCEPT !.restoring = FALSE] \in SessionType /\ [u EXCEPT !.restoring = FALSE].phase = u.phase
      /\ [u EXCEPT !.restoring = FALSE].cursor = u.cursor /\ [u EXCEPT !.restoring = FALSE].notice = u.notice
  BY <1>3 DEF SessionType
<1>. QED  BY <1>1, <1>3, <1>4, <1>5

LEMMA LossKeepsInv ==
    ASSUME SessionInv, session' = Disconnected(session), shownPage' = NoPage, left' \in LeftType,
           UNCHANGED <<notices, readings, owing, dismissing, dismissals, moment>>
    PROVE  SessionInv'
<1>0. SessionTypeOK /\ session \in SessionType
  BY SessionTypes DEF SessionInv
<1>1. session' \in SessionType /\ session'.phase # "searching" /\ session'.cursor = session.cursor /\ session'.notice = session.notice
  BY <1>0, DisconnectedIs
<1>2. NoPage \in PageType
  BY DEF NoPage, PageType
<1>3. SessionTypeOK'
  BY <1>0, <1>1, <1>2 DEF SessionTypeOK, SessionType, PageType, LeftType
<1>4. SearchIsTimed' /\ FallbackIsKept'
  BY <1>1 DEF SearchIsTimed, FallbackIsKept
<1>. QED  BY <1>1, <1>3, <1>4, NoticesStay DEF SessionInv

LEMMA RestoreKeepsInv ==
    ASSUME SessionInv, RestoreNotice
    PROVE  SessionInv'
<1>0. SessionTypeOK /\ session \in SessionType /\ session.cursor \in Reading /\ left \in LeftType
      /\ UNCHANGED <<notices, readings, owing, dismissing, moment>>
  BY SessionTypes DEF SessionInv, RestoreNotice, SessionType
<1>1. ASSUME session' = [Noticed(session, Latest) EXCEPT !.restoring = FALSE], shownPage' = PageOf(session'),
             dismissals' = [dismissals EXCEPT !.doubt = FALSE], UNCHANGED left
      PROVE  SessionInv'
  <2>1. /\ Latest \in Reading /\ Latest.sequence = Len(notices)
        /\ Latest.dismissed => Latest.sequence # 0 /\ notices[Latest.sequence].dismissed
        /\ \A c \in Reading : Truly(c) /\ c.sequence = Len(notices) /\ (Latest.dismissed => c.dismissed) => c = Latest
    BY <1>0, LatestTrue
  <2>. DEFINE s == Noticed(session, Latest)
  <2>2. /\ s \in SessionType /\ s.phase = session.phase /\ s.link = session.link /\ s.search = session.search
        /\ s.cursor = session.cursor \/ s.cursor = Latest
        /\ s.notice = IF s.cursor.dismissed THEN 0 ELSE s.cursor.sequence
        /\ s.cursor.sequence >= Latest.sequence
        /\ s.cursor.sequence = Latest.sequence /\ Latest.dismissed => s.cursor.dismissed
    BY <2>1, NoticedIs
  <2>. HIDE DEF s
  <2>3. Truly(session.cursor) /\ Truly(Latest)
    BY <1>0, LatestIs DEF SessionInv, CursorIsTrue
  <2>4. s.cursor = Latest
    <3>1. s.cursor \in Reading /\ Truly(s.cursor)
      BY <1>0, <2>1, <2>2, <2>3
    <3>2. s.cursor.sequence = Len(notices) /\ (Latest.dismissed => s.cursor.dismissed)
      <4>1. Len(notices) \in Nat
        BY <1>0 DEF SessionTypeOK
      <4>. QED  BY <2>1, <2>2, <3>1, <4>1 DEF Truly, Reading
    <3>. QED  BY <2>1, <3>1, <3>2
  <2>5. /\ session' \in SessionType /\ session'.phase = session.phase /\ session'.search = session.search
        /\ session'.cursor = Latest /\ session'.notice = IF Latest.dismissed THEN 0 ELSE Latest.sequence
    <3>1. session' = [s EXCEPT !.restoring = FALSE]
      BY <1>1 DEF s
    <3>. QED  BY <2>2, <2>4, <3>1 DEF SessionType
  <2>6. shownPage' \in PageType /\ (shownPage'.open <=> (session'.phase = "searching" /\ moment >= session'.search.fallback))
    <3>1. PageOf(session').open = (session'.phase = "searching" /\ moment >= session'.search.fallback)
      BY Zenon DEF PageOf
    <3>2. PageOf(session') \in PageType
      BY <2>5 DEF PageOf, PageType, SessionType
    <3>. QED  BY <1>1, <3>1, <3>2
  <2>7. SessionTypeOK'
    BY <1>0, <1>1, <2>5, <2>6 DEF SessionTypeOK, SessionType, PageType
  <2>8. Latest' = Latest
    BY <1>0 DEF Latest
  <2>9. ReadingsAreTrue' /\ CursorIsTrue' /\ DismissalIsOfANotice' /\ LatestIsKnown'
    BY <1>0, <2>3, <2>5, <2>8 DEF ReadingsAreTrue, CursorIsTrue, Truly, DismissalIsOfANotice, LatestIsKnown, SessionInv
  <2>10. ConfirmedArePassed'
    <3>0. dismissals'.confirmed = dismissals.confirmed
      BY <1>0, <1>1 DEF SessionTypeOK
    <3>1. ASSUME NEW m \in dismissals.confirmed PROVE m \in DOMAIN notices /\ notices[m].dismissed
      BY DEF SessionInv, ConfirmedArePassed
    <3>2. ASSUME NEW m \in dismissals.confirmed PROVE m <= Latest.sequence /\ (m = Latest.sequence => Latest.dismissed)
      <4>1. m \in 1..Len(notices) /\ notices[m].dismissed /\ Len(notices) \in Nat
        BY <1>0, <3>1 DEF SessionTypeOK
      <4>2. Latest.sequence # 0 => Latest.dismissed = notices[Latest.sequence].dismissed
        BY <1>0, LatestIs
      <4>. QED  BY <2>1, <4>1, <4>2
    <3>. QED  BY <1>0, <2>5, <3>0, <3>1, <3>2 DEF ConfirmedArePassed, CursorPassed
  <2>11. SearchIsTimed' /\ FallbackIsKept'
    <3>1. session.search.fallback \in Nat /\ moment \in Nat
      BY <1>0 DEF SessionTypeOK
    <3>2. SearchIsTimed'
      BY <1>0, <2>5 DEF SearchIsTimed, SessionInv
    <3>3. session'.phase = "searching" => session'.search.timer # 0 \/ shownPage'.open
      BY <1>0, <2>5, <2>6, <3>1, <3>2 DEF SearchIsTimed
    <3>. QED  BY <3>2, <3>3 DEF FallbackIsKept
  <2>. QED  BY <2>7, <2>9, <2>10, <2>11 DEF SessionInv
<1>2. ASSUME May("faults"), UNCHANGED dismissals, session' = Disconnected(session), shownPage' = NoPage
      PROVE  SessionInv'
  <2>1. left' \in LeftType
    BY <1>0, <1>2, MayIs
  <2>. QED  BY <1>0, <1>2, <2>1, LossKeepsInv
<1>. QED  BY <1>1, <1>2 DEF RestoreNotice

LEMMA SessionInvNext ==
    ASSUME SessionInv, [SessionsNext]_sessionVars
    PROVE  SessionInv'
<1>1. ASSUME SessionsNext PROVE SessionInv'
  <2>1. CASE ForceIdle \/ \E next \in {"idle", "in-room", "in-game", "spectating"} : Enter(next)
    BY <2>1, PhaseKeepsInv
  <2>2. CASE BeginSearch
    BY <2>2, SearchKeepsInv
  <2>3. CASE TimerWakes \/ Moment
    BY <2>3, TimeKeepsInv
  <2>4. CASE AppendNotice
    BY <2>4, AppendKeepsInv
  <2>5. CASE \E n \in owing : ReadAccount(n)
    BY <2>5, ReadKeepsInv
  <2>6. CASE \E r \in readings : ApplyReading(r)
    BY <2>6, ApplyKeepsInv
  <2>7. CASE \E n \in DOMAIN notices : Dismiss(n)
    BY <2>7, DismissKeepsInv
  <2>8. CASE DismissOnce
    BY <2>8, DismissOnceKeepsInv
  <2>9. CASE OpenConnection
    BY <2>9, OpenKeepsInv
  <2>10. CASE RestoreNotice
    BY <2>10, RestoreKeepsInv
  <2>11. CASE CloseConnection
    <3>1. left \in LeftType
      BY DEF SessionInv, SessionTypeOK, LeftType
    <3>. QED  BY <2>11, <3>1, LossKeepsInv DEF CloseConnection
  <2>. QED  BY <1>1, <2>1, <2>2, <2>3, <2>4, <2>5, <2>6, <2>7, <2>8, <2>9, <2>10, <2>11 DEF SessionsNext
<1>2. CASE UNCHANGED sessionVars
  <2>1. UNCHANGED <<session, notices, readings, owing, dismissing, shownPage, dismissals, moment, left>>
    BY <1>2 DEF sessionVars
  <2>2. SessionTypeOK'
    BY <2>1 DEF SessionInv, SessionTypeOK
  <2>3. SearchIsTimed' /\ FallbackIsKept'
    BY <2>1 DEF SessionInv, SearchIsTimed, FallbackIsKept
  <2>. QED  BY <2>1, <2>2, <2>3, NoticesStay DEF SessionInv
<1>. QED  BY <1>1, <1>2

\* What a session knows of its notices was true when it was read, the latest is known unless it is
\* still to be read or applied, and a search that is not due has its timer: whatever the order in
\* which readings, dismissals, connections and wakenings come.
THEOREM SessionInvariance == SessionsSpec => []SessionInv
<1>1. SessionsInit => SessionInv
  BY SessionInvInit
<1>2. SessionInv /\ [SessionsNext]_sessionVars => SessionInv'
  BY SessionInvNext
<1>. QED  BY <1>1, <1>2, PTL DEF SessionsSpec

\* What was dismissed is not shown again, the latest notice is shown once all is applied, and a
\* search keeps the moment at which a computer is offered.
THEOREM TheSessionIsSound == SessionsSpec => []SessionIsSound
<1>1. SessionInv => SessionIsSound
  <2>. SUFFICES ASSUME SessionInv PROVE SessionIsSound
    OBVIOUS
  <2>0. SessionTypeOK /\ Truly(session.cursor) /\ session.notice = (IF session.cursor.dismissed THEN 0 ELSE session.cursor.sequence)
    BY DEF SessionInv, CursorIsTrue
  <2>1. DismissedStaysAway
    <3>1. SUFFICES ASSUME NEW n \in dismissals.confirmed, n = session.notice PROVE FALSE
      BY DEF DismissedStaysAway
    <3>2. n \in DOMAIN notices /\ (n = session.cursor.sequence => session.cursor.dismissed)
      BY <3>1 DEF SessionInv, ConfirmedArePassed, CursorPassed
    <3>3. n # 0
      BY <2>0, <3>2 DEF SessionTypeOK
    <3>. QED  BY <2>0, <3>1, <3>2, <3>3
  <2>2. NoticeIsLatest
    <3>1. SUFFICES ASSUME owing = {}, readings = {}, ~dismissals.doubt
                   PROVE  session.notice = IF notices = << >> \/ Latest.dismissed THEN 0 ELSE Latest.sequence
      BY DEF NoticeIsLatest
    <3>2. session.cursor = Latest
      BY <3>1 DEF SessionInv, LatestIsKnown
    <3>3. notices = << >> => Latest.sequence = 0
      BY DEF Latest
    <3>. QED  BY <2>0, <3>2, <3>3
  <2>. QED  BY <2>1, <2>2 DEF SessionIsSound, SessionInv
<1>. QED  BY <1>1, SessionInvariance, PTL
==============================================================================
