---------------------------- MODULE PuzzlePublishing ----------------------------
(***************************************************************************)
(* The calendar of daily puzzles, and the separate processes that write    *)
(* it: the nightly job, which verifies the coming puzzles more deeply and  *)
(* searches for new ones before it opens a short transaction, and the      *)
(* importer of a verified batch.  All of them share an advisory lock that  *)
(* a transaction tries once, and all evidence may be stale when it is used. *)
(*                                                                         *)
(* A position is a pair of a kind and an orientation; the two orientations *)
(* are each other's mirror.  Two units of time are a day, the second one   *)
(* being its last half minute, the time limit of a transaction.            *)
(***************************************************************************)
EXTENDS Integers, FiniteSets

CONSTANTS
    Publisher,      \* processes
    Found,          \* bound: the positions that generation and imports come up with
    TargetBuffer,   \* --target-buffer
    ReverifyDays,   \* --reverify
    MaxVerifyDepth, \* CRITERIA.MAX_VERIFY_DEPTH, counted from the shallowest as 1
    MaxBatch,       \* bound: rows of an import
    LastTime        \* bound: how long the calendar is watched

ASSUME CalendarAssumption ==
    /\ TargetBuffer \in Nat \ {0} /\ ReverifyDays \in Nat /\ MaxVerifyDepth \in Nat \ {0} /\ MaxBatch \in Nat \ {0} /\ LastTime \in Nat
    /\ Publisher # {} /\ "none" \notin Publisher /\ Found \subseteq Nat \X {0, 1}

VARIABLES
    time,
    calendar,       \* Puzzle rows
    rejections,     \* PuzzleRejection rows
    job,            \* what each process has prepared
    publishing,     \* the open transaction of the lock's holder
    attempted,      \* dates with PuzzleAttempt rows
    shown           \* rows that have been served since their date (history)

puzzleVars == <<time, calendar, rejections, job, publishing, attempted, shown>>

Day(t) == t \div 2
Soon(t) == Day(t + 1)       \* the date half a minute later
Mirrored(p) == <<p[1], 1 - p[2]>>
PositionKeys(p) == {p, Mirrored(p)}
Row == [date : Nat, position : Found, depth : 1..MaxVerifyDepth]

Dates(rows) == {r.date : r \in rows}
Hashes(rows) == {r.position : r \in rows}
RejectedHashes(evidence) == UNION {PositionKeys(<<e.kind, 0>>) : e \in evidence}

NoJob == [stage |-> "idle", changes |-> {}, puzzles |-> {}]
NoTransaction == [by |-> "none", opened |-> 0, calendar |-> {}, rejections |-> {}]

PuzzleInit ==
    /\ time = 0
    /\ calendar = {} /\ rejections = {} /\ attempted = {} /\ shown = {}
    /\ job = [p \in Publisher |-> NoJob]
    /\ publishing = NoTransaction

------------------------------------------------------------------------------
(* Preparation, outside any transaction *)

\* reverifyUpcoming: each row passes at the next depth, fails or exhausts its budget.
Verdicts(rows) == [rows -> {"passes", "fails", "unknown"}]
Deeper(r) == LET d == r.depth + 1 IN IF d > MaxVerifyDepth THEN MaxVerifyDepth ELSE d

Reverify(p) ==
    /\ job[p].stage = "idle"
    /\ LET rows == {r \in calendar : r.date \in (Day(time) + 1)..(Day(time) + ReverifyDays)} IN
       \E verdict \in Verdicts(rows) :
           job' = [job EXCEPT ![p] = [NoJob EXCEPT
               !.stage = "verified",
               !.changes = {[row |-> r, remove |-> verdict[r] = "fails", depth |-> Deeper(r)] :
                            r \in {r \in rows : verdict[r] = "fails" \/ (verdict[r] = "passes" /\ Deeper(r) > r.depth)}}]]
    /\ UNCHANGED <<time, calendar, rejections, publishing, attempted, shown>>

\* planDates: the dates to fill, those of the rows to be removed included.
Slots(vacated) == (Day(time)..(Day(time) + TargetBuffer)) \ Dates(calendar \ vacated)

\* processPosition and the flush of runGenerator: new positions for some of the slots, none of
\* them equivalent to one that exists, was rejected or was found before.
Proposals(slots) ==
    LET known == Hashes(calendar) \cup RejectedHashes(rejections)
        fresh == {q \in Found : PositionKeys(q) \cap known = {}} IN
    { {[date |-> d, position |-> f[d], depth |-> 1] : d \in DOMAIN f} :
        f \in {f \in UNION {[S -> fresh] : S \in SUBSET slots} :
               \A d, e \in DOMAIN f : d # e => f[d] \notin PositionKeys(f[e])} }

\* A job started with --reverify 0 begins here.
Generate(p) ==
    /\ job[p].stage \in {"idle", "verified"}
    /\ \E puzzles \in Proposals(Slots({c.row : c \in {c \in job[p].changes : c.remove}})) :
           /\ puzzles # {} \/ job[p].changes # {}
           /\ job' = [job EXCEPT ![p].stage = "prepared", ![p].puzzles = puzzles]
    /\ UNCHANGED <<time, calendar, rejections, publishing, attempted, shown>>

------------------------------------------------------------------------------
(* The transaction *)

\* recordPuzzleRejection: the deepest failure is kept.
Recorded(evidence, failed) ==
    LET found == {[kind |-> c.row.position[1], depth |-> c.depth, since |-> time] : c \in failed}
        stands(e) == \A o \in found : o.kind = e.kind => o.depth <= e.depth
        adds(o) == \A e \in evidence : o.kind = e.kind => o.depth > e.depth IN
    {e \in evidence : stands(e)} \cup {o \in found : adds(o)}

\* Mutant: a row is only protected once it is public.
ProtectedWhenPublic(r) == r.date <= Day(time)

\* Rows that are public, or could become so before the commit.
Protected(r) == r.date <= Soon(time)

\* commitPuzzlePublication
Publication(prepared) ==
    LET held == {c \in prepared.changes : c.row \in calendar}
        failed == {c \in held : c.remove}
        evidence == Recorded(rejections, failed)
        removed == {c.row : c \in {c \in failed : ~Protected(c.row) /\ c.row.date \notin attempted}}
        deepened == {c \in held \ failed : ~Protected(c.row)}
        kept == ((calendar \ removed) \ {c.row : c \in deepened})
                    \cup {[c.row EXCEPT !.depth = c.depth] : c \in deepened}
        admitted == {r \in prepared.puzzles :
                        /\ r.date >= Day(time) /\ r.date \notin Dates(kept)
                        /\ PositionKeys(r.position) \cap (RejectedHashes(evidence) \cup Hashes(kept)) = {}} IN
    [calendar |-> kept \cup admitted, rejections |-> evidence]

\* importPuzzleBatch: everything or nothing; what is there already is passed over.
Importable(rows) ==
    LET new == {r \in rows : ~\E o \in calendar : o.date = r.date /\ o.position = r.position} IN
    \A r \in new : /\ r.date \notin Dates(calendar)
                   /\ PositionKeys(r.position) \cap (RejectedHashes(rejections) \cup Hashes(calendar)) = {}

Imported(rows) == calendar \cup {r \in rows : r.date \notin Dates(calendar)}

Open(p, result) ==
    publishing' = [by |-> p, opened |-> time, calendar |-> result.calendar, rejections |-> result.rejections]

Publish(p) ==
    /\ job[p].stage = "prepared"
    /\ IF publishing = NoTransaction
       THEN /\ Open(p, Publication(job[p]))
            /\ job' = [job EXCEPT ![p] = [NoJob EXCEPT !.stage = "committing"]]
       ELSE job' = [job EXCEPT ![p] = NoJob] /\ UNCHANGED publishing     \* busy
    /\ UNCHANGED <<time, calendar, rejections, attempted, shown>>

\* verifyPuzzleBatch has passed the rows before: their dates and positions differ.
Batches ==
    { rows \in SUBSET [date : Day(time)..(Day(time) + TargetBuffer), position : Found, depth : {1}] :
        /\ Cardinality(rows) \in 1..MaxBatch
        /\ \A r, s \in rows : r # s => r.date # s.date /\ r.position \notin PositionKeys(s.position) }

Import(p) ==
    /\ job[p].stage = "idle" /\ publishing = NoTransaction
    /\ \E rows \in Batches :
           Importable(rows) /\ Open(p, [calendar |-> Imported(rows), rejections |-> rejections])
    /\ job' = [job EXCEPT ![p].stage = "committing"]
    /\ UNCHANGED <<time, calendar, rejections, attempted, shown>>

Commit(p) ==
    /\ publishing.by = p
    /\ calendar' = publishing.calendar /\ rejections' = publishing.rejections
    /\ publishing' = NoTransaction
    /\ job' = [job EXCEPT ![p] = NoJob]
    /\ UNCHANGED <<time, attempted, shown>>

\* The process fails, an insertion does, or the time limit is reached; the lock goes with it.
Rollback(p) ==
    /\ publishing.by = p
    /\ publishing' = NoTransaction
    /\ job' = [job EXCEPT ![p] = NoJob]
    /\ UNCHANGED <<time, calendar, rejections, attempted, shown>>

------------------------------------------------------------------------------
(* Readers *)

\* GET /:date
Show ==
    /\ \E r \in calendar \ shown : r.date <= Day(time) /\ shown' = shown \cup {r}
    /\ UNCHANGED <<time, calendar, rejections, job, publishing, attempted>>

\* POST /:date/attempt, on a server whose clock may be ahead of the database's.
Attempt ==
    /\ \E r \in calendar : /\ r.date <= Day(time) + 1 /\ r.date \notin attempted
                           /\ publishing = NoTransaction \/ r \in publishing.calendar
                           /\ attempted' = attempted \cup {r.date}
    /\ UNCHANGED <<time, calendar, rejections, job, publishing, shown>>

\* An open transaction is not older than half a minute.
Pass ==
    /\ time < LastTime /\ (publishing # NoTransaction => time = publishing.opened)
    /\ time' = time + 1
    /\ UNCHANGED <<calendar, rejections, job, publishing, attempted, shown>>

PuzzleNext ==
    \/ \E p \in Publisher : Reverify(p) \/ Generate(p) \/ Publish(p) \/ Import(p) \/ Commit(p) \/ Rollback(p)
    \/ Show \/ Attempt \/ Pass

PuzzleSpec == PuzzleInit /\ [][PuzzleNext]_puzzleVars

------------------------------------------------------------------------------
(* Properties *)

\* A date has one puzzle and a position, in either orientation, one date.
NothingRepeats == \A r, s \in calendar : r.date = s.date \/ r.position \in PositionKeys(s.position) => r = s

\* A position that failed verification is not in the calendar, unless the failure was found when
\* its puzzle was public, about to be, or attempted.
RejectedStayOut ==
    \A r \in calendar, e \in rejections : r.position[1] = e.kind => r.date <= Soon(e.since) \/ r.date \in attempted

\* What readers have been shown stays as it was, and what they have tried stays.
PublicStands == shown \subseteq calendar /\ attempted \subseteq Dates(calendar)

\* Whatever jobs and imports do with evidence of any age, the calendar repeats nothing, takes
\* back no rejected position and changes nothing that is public.  (commitPuzzlePublication)
CalendarIsSound == NothingRepeats /\ RejectedStayOut /\ PublicStands
==============================================================================
