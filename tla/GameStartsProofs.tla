--------------------------- MODULE GameStartsProofs ---------------------------
(***************************************************************************)
(* What holds of rooms, runs and claims in every reachable state, for any    *)
(* players, rooms, amounts and bounds.                                      *)
(*                                                                         *)
(* A start runs over several transactions, between which its task, the       *)
(* room's copy and the claims may all have fallen behind the database.  The  *)
(* invariant says how far: a copy with a start key is of the start the room  *)
(* still has, or of one that is over, and while a task creates a game its    *)
(* players are reserved to it alone.                                        *)
(***************************************************************************)
EXTENDS GameStarts, FiniteSetTheorems, TLAPS

------------------------------------------------------------------------------
(* The inductive invariant: the database *)

\* A room has a start key while it starts or plays, and then players.
Keyed(room, r) ==
    /\ room.status \in {"starting", "playing"} <=> room.key # NoKey
    /\ room.key # NoKey => RoomOf(room.key) = r /\ room.players # {}
    /\ room.status \in {"none", "closed"} => room.players = {}

RoomsAreKeyed ==
    \A r \in Room : /\ Keyed(record[r], r)
                    /\ record[r].status = "starting" => run[record[r].key].status = "none"

RunsAreRecorded ==
    \A k \in Key : /\ run[k].status \in {"none", "aborted"} => job[k] = NoJob
                   /\ run[k].status = "settled" => job[k] # NoJob
                   /\ job[k] # NoJob <=> run[k].board = "over"
                   /\ Unfinished(k) <=> record[RoomOf(k)].status = "playing" /\ record[RoomOf(k)].key = k
                   /\ Unfinished(k) => run[k].players = record[RoomOf(k)].players

OneClaim ==
    \A p \in Player : /\ member[p] # NoRoom => seat[p] = NoKey /\ viewer[p] = NoKey
                      /\ seat[p] # NoKey => viewer[p] = NoKey

MembersAreIn ==
    \A p \in Player, r \in Room :
        member[p] = r <=> p \in record[r].players /\ record[r].status \in {"waiting", "starting"}

SeatsAreTaken ==
    \A p \in Player, k \in Key : seat[p] = k <=> Unfinished(k) /\ p \in run[k].players

Database == RoomsAreKeyed /\ RunsAreRecorded /\ OneClaim /\ MembersAreIn /\ SeatsAreTaken

------------------------------------------------------------------------------
(* The inductive invariant: the process *)

GamesAreOpen == \A k \in installed : Unfinished(k)

DownIsEmpty ==
    ~up => installed = {} /\ reserved = {} /\ \A r \in Room : task[r] = Idle

\* A copy that is behind belongs to the start the room still has, or to one it no
\* longer has.
CopyLags(r) ==
    /\ Keyed(seen[r], r)
    /\ seen[r].key # NoKey =>
          /\ record[r].key # NoKey => record[r].key = seen[r].key /\ record[r].players = seen[r].players
          /\ run[seen[r].key].status # "none" => run[seen[r].key].players = seen[r].players

Creating == {"create", "check", "open", "install", "abort"}
Created == {"check", "open", "install"}
Undoing == {"cancel", "cancelled", "reset", "depart"}
Busy(r) == task[r].stage \in Creating

\* A task that starts the game of its room.
StartIsSound(r, t) ==
    /\ t.key # NoKey /\ RoomOf(t.key) = r /\ t.who # {}
    /\ t.stage \notin {"leave", "depart"}
    /\ t.stage = "accept" => /\ seen[r] = record[r]
                             /\ record[r].status = "waiting" /\ record[r].players = t.who
                             /\ run[t.key].status = "none"
    /\ t.stage # "accept" =>
          /\ run[t.key].status # "none" => run[t.key].players = t.who
          /\ record[r].key # NoKey => record[r].key = t.key /\ record[r].players = t.who
    /\ t.stage \in Creating => t.key \notin installed /\ t.who \subseteq reserved
    /\ t.stage \in Created => run[t.key].status \in {"open", "settled"}

\* A task that takes somebody out of the room.
DepartureIsSound(r, t) ==
    /\ t.stage \in {"leave"} \cup Undoing
    /\ t.who # {}
    /\ t.stage \in Undoing => t.who \subseteq record[r].players /\ record[r].key \notin installed
    /\ t.stage = "depart" => record[r].status = "waiting"

TaskIsSound(r) ==
    LET t == task[r] IN
    /\ t.stage # "none" => up
    /\ t.stage \in {"accept", "begin", "done"} \cup Creating => t.tries <= 1
    /\ t.stage # "none" /\ ~t.leaving => StartIsSound(r, t)
    /\ t.stage # "none" /\ t.leaving => DepartureIsSound(r, t)
    /\ t.stage = "cancel" => seen[r].key \notin installed
    /\ t.stage = "cancelled" => record[r].status # "playing"
    /\ t.stage = "reset" => record[r].status = "starting" /\ seen[r] = record[r]

Reservations ==
    \A r, s \in Room : r # s /\ Busy(r) /\ Busy(s) => task[r].who \cap task[s].who = {}

Process ==
    /\ GamesAreOpen /\ DownIsEmpty /\ Reservations
    /\ \A r \in Room : CopyLags(r) /\ TaskIsSound(r)

IInv == TypeOK /\ Database /\ Process

------------------------------------------------------------------------------
(* Keys and shapes *)

LEMMA KeyFacts == NoKey \notin Key /\ \A k \in Key : RoomOf(k) \in Room /\ k # NoKey
BY RoomAssumption DEF Key, NoKey, RoomOf

RunState == [status : {"none", "open", "aborted", "settled"}, players : SUBSET Player,
             board : {"none", "opening", "started", "over"}]

RecordsTyped ==
    /\ record \in [Room -> RoomState] /\ run \in [Key -> RunState]
    /\ job \in [Key -> Outcome \cup {NoJob}]
    /\ member \in [Player -> Room \cup {NoRoom}]
    /\ seat \in [Player -> Key \cup {NoKey}] /\ viewer \in [Player -> Key \cup {NoKey}]

MoneyTyped ==
    coins \in [Player -> Nat] /\ vault \in Nat /\ bounty \in [Player -> {"none", "owed", "paid"}]

Stage == {"none", "accept", "begin", "create", "check", "open", "install", "abort",
          "reread", "done", "cancel", "cancelled", "reset", "leave", "depart"}
TaskState == [stage : Stage, leaving : BOOLEAN, who : SUBSET Player,
              key : Key \cup {NoKey}, tries : 0..3]

RuntimeTyped ==
    /\ up \in BOOLEAN /\ seen \in [Room -> RoomState]
    /\ installed \subseteq Key /\ reserved \subseteq Player /\ retry \subseteq Room
    /\ task \in [Room -> TaskState] /\ faults \in Nat

LEMMA TypeOKParts == TypeOK <=> RecordsTyped /\ MoneyTyped /\ RuntimeTyped
BY DEF TypeOK, RecordsTyped, MoneyTyped, RuntimeTyped, RunState, TaskState, Stage

LEMMA NoOutcome == \A o \in Outcome : o # NoJob
BY DEF Outcome, NoJob

------------------------------------------------------------------------------
(* Transactions *)

\* Whoever plays an unfinished game has a seat and no other claim.
LEMMA PlayersAreSeated ==
    ASSUME RecordsTyped, Database, NEW k \in Key, Unfinished(k), NEW p \in run[k].players
    PROVE  /\ p \in Player /\ seat[p] = k /\ member[p] = NoRoom /\ viewer[p] = NoKey
           /\ record[RoomOf(k)].status = "playing" /\ record[RoomOf(k)].key = k
           /\ record[RoomOf(k)].players = run[k].players
<1>1. p \in Player /\ seat[p] = k
  BY DEF RecordsTyped, RunState, Database, SeatsAreTaken
<1> QED BY <1>1, KeyFacts DEF Database, OneClaim, RunsAreRecorded

\* A transaction that leaves rooms, runs and claims alone.
LEMMA NothingRecorded ==
    ASSUME RecordsTyped, Database, UNCHANGED <<record, run, job, claimVars>>
    PROVE  RecordsTyped' /\ Database'
<1>1. /\ record' = record /\ run' = run /\ job' = job
      /\ member' = member /\ seat' = seat /\ viewer' = viewer
  BY DEF claimVars
<1>2. RecordsTyped'
  BY <1>1 DEF RecordsTyped
<1>3. Database'
  BY <1>1 DEF Database, RoomsAreKeyed, Keyed, RunsAreRecorded, OneClaim, MembersAreIn,
              SeatsAreTaken, Unfinished
<1> QED BY <1>2, <1>3

\* An accepted start has a key of its own room and no run.
LEMMA StartingRooms ==
    ASSUME RecordsTyped, Database, NEW s \in Room, record[s].status = "starting"
    PROVE  /\ record[s].key \in Key /\ RoomOf(record[s].key) = s
           /\ \A k \in Key : run[k].status # "none" => record[s].key # k
BY KeyFacts DEF Database, RoomsAreKeyed, Keyed, RecordsTyped, RoomState

\* The creation of a run takes its room from an accepted start into play.
LEMMA CreationKeepsDatabase ==
    ASSUME RecordsTyped, Database, NEW k \in Key, run[k].status = "none", MayCreate(k), Create(k)
    PROVE  RecordsTyped' /\ Database'
<1> DEFINE r == RoomOf(k)
           room == record[r]
<1>1. /\ r \in Room /\ room \in RoomState /\ room.status = "starting" /\ room.key = k
      /\ \A p \in room.players : seat[p] = NoKey /\ viewer[p] = NoKey /\ member[p] = r
  BY KeyFacts DEF MayCreate, RecordsTyped
<1>2. /\ run' = [run EXCEPT ![k] = [status |-> "open", players |-> room.players, board |-> "none"]]
      /\ seat' = [p \in Player |-> IF p \in room.players THEN k ELSE seat[p]]
      /\ member' = [p \in Player |-> IF p \in room.players THEN NoRoom ELSE member[p]]
      /\ record' = [record EXCEPT ![r].status = "playing"]
      /\ job' = job /\ viewer' = viewer
  BY DEF Create
<1>3. room.players \subseteq Player
  BY <1>1 DEF RoomState
<1>4. RecordsTyped'
  BY <1>1, <1>2, <1>3 DEF RecordsTyped, RunState, RoomState
<1>5. /\ record'[r].status = "playing" /\ record'[r].key = k /\ record'[r].players = room.players
      /\ \A s \in Room : s # r => record'[s] = record[s]
  BY <1>1, <1>2 DEF RecordsTyped, RoomState
<1>6. /\ run'[k].status = "open" /\ run'[k].players = room.players /\ run'[k].board = "none"
      /\ \A x \in Key : x # k => run'[x] = run[x]
  BY <1>2 DEF RecordsTyped
<1>7. job[k] = NoJob /\ Unfinished(k)' /\ \A x \in Key : x # k => (Unfinished(x)' <=> Unfinished(x))
  BY <1>2, <1>6 DEF Database, RunsAreRecorded, Unfinished
<1>0. /\ RoomOf(k) = r /\ record[r] = room /\ ~Unfinished(k)
      /\ \A s \in Room : record[s].status = "starting" => record[s].key \in Key /\ RoomOf(record[s].key) = s
  BY StartingRooms DEF Unfinished
<1> HIDE DEF r, room
<1>8. RoomsAreKeyed'
  BY <1>0, <1>1, <1>5, <1>6, KeyFacts DEF Database, RoomsAreKeyed, Keyed
<1>9. RunsAreRecorded'
  <2>1. ASSUME NEW x \in Key, x # k, RoomOf(x) = r PROVE ~Unfinished(x)
    BY <1>0, <1>1, <2>1 DEF Database, RunsAreRecorded
  <2> QED BY <1>0, <1>2, <1>5, <1>6, <1>7, <2>1, KeyFacts DEF Database, RunsAreRecorded
<1>10. OneClaim'
  BY <1>1, <1>2, KeyFacts DEF Database, OneClaim
<1>11. MembersAreIn'
  BY <1>1, <1>2, <1>5, KeyFacts, RoomAssumption DEF Database, MembersAreIn
<1>12. SeatsAreTaken'
  BY <1>0, <1>1, <1>2, <1>3, <1>6, <1>7, KeyFacts DEF Database, SeatsAreTaken
<1> QED BY <1>4, <1>8, <1>9, <1>10, <1>11, <1>12 DEF Database

\* A cancelled run gives its players back to the room, which waits again.
LEMMA AbortKeepsDatabase ==
    ASSUME RecordsTyped, Database, NEW k \in Key, Unfinished(k), Abort(k)
    PROVE  RecordsTyped' /\ Database'
<1> DEFINE r == RoomOf(k)
           players == run[k].players
<1>1. /\ r \in Room /\ record[r].status = "playing" /\ record[r].key = k
      /\ record[r].players = players /\ players \subseteq Player
      /\ record[r] \in RoomState /\ run[k] \in RunState
  BY KeyFacts DEF Database, RunsAreRecorded, RecordsTyped, RunState
<1>2. /\ run' = [run EXCEPT ![k].status = "aborted"]
      /\ seat' = [p \in Player |-> IF seat[p] = k THEN NoKey ELSE seat[p]]
      /\ member' = [p \in Player |-> IF p \in players THEN r ELSE member[p]]
      /\ record' = [record EXCEPT ![r].status = "waiting", ![r].key = NoKey]
      /\ job' = job /\ viewer' = viewer
  BY DEF Abort, Released, Reopened
<1>3. /\ record'[r].status = "waiting" /\ record'[r].key = NoKey /\ record'[r].players = players
      /\ \A s \in Room : s # r => record'[s] = record[s]
  BY <1>1, <1>2 DEF RecordsTyped, RoomState
<1>4. /\ run'[k].status = "aborted" /\ run'[k].players = players /\ run'[k].board = run[k].board
      /\ \A x \in Key : x # k => run'[x] = run[x]
  BY <1>1, <1>2 DEF RecordsTyped, RunState
<1>5. RecordsTyped'
  BY <1>1, <1>2 DEF RecordsTyped, RunState, RoomState
<1>6. ~Unfinished(k)' /\ \A x \in Key : x # k => (Unfinished(x)' <=> Unfinished(x))
  BY <1>2, <1>4 DEF Unfinished
<1>7. \A p \in Player : seat[p] = k <=> p \in players
  BY DEF Database, SeatsAreTaken
<1>8. /\ job[k] = NoJob /\ RoomOf(k) = r /\ players = run[k].players
      /\ \A s \in Room : record[s].status = "starting" => record[s].key \in Key /\ record[s].key # k
  BY StartingRooms DEF Unfinished
<1> HIDE DEF r, players
<1>9. RoomsAreKeyed'
  BY <1>1, <1>3, <1>4, <1>8, KeyFacts DEF Database, RoomsAreKeyed, Keyed
<1>10. RunsAreRecorded'
  <2>1. ASSUME NEW x \in Key, x # k, RoomOf(x) = r PROVE ~Unfinished(x)
    BY <1>1, <2>1 DEF Database, RunsAreRecorded
  <2>2. ASSUME NEW x \in Key, x # k
        PROVE  /\ run'[x] = run[x] /\ job'[x] = job[x] /\ (Unfinished(x)' <=> Unfinished(x))
               /\ Unfinished(x) <=> record'[RoomOf(x)].status = "playing" /\ record'[RoomOf(x)].key = x
               /\ Unfinished(x) => run[x].players = record'[RoomOf(x)].players
    <3>1. /\ Unfinished(x) <=> record[RoomOf(x)].status = "playing" /\ record[RoomOf(x)].key = x
          /\ Unfinished(x) => run[x].players = record[RoomOf(x)].players
      BY DEF Database, RunsAreRecorded
    <3>2. run'[x] = run[x] /\ job'[x] = job[x] /\ (Unfinished(x)' <=> Unfinished(x))
      BY <1>2, <1>4, <1>6, <2>2
    <3>3. CASE RoomOf(x) = r
      BY <1>3, <2>1, <2>2, <3>2, <3>3
    <3>4. CASE RoomOf(x) # r
      BY <1>3, <3>1, <3>2, <3>4, KeyFacts
    <3> QED BY <3>3, <3>4
  <2>3. run[k].board # "over"
    BY <1>8 DEF Database, RunsAreRecorded
  <2>4. ASSUME NEW x \in Key
        PROVE  /\ run'[x].status \in {"none", "aborted"} => job'[x] = NoJob
               /\ run'[x].status = "settled" => job'[x] # NoJob
               /\ job'[x] # NoJob <=> run'[x].board = "over"
               /\ Unfinished(x)' <=> record'[RoomOf(x)].status = "playing" /\ record'[RoomOf(x)].key = x
               /\ Unfinished(x)' => run'[x].players = record'[RoomOf(x)].players
    <3>1. CASE x = k
      BY <1>2, <1>3, <1>4, <1>6, <1>8, <2>3, <3>1
    <3>2. CASE x # k
      <4>1. /\ run[x].status \in {"none", "aborted"} => job[x] = NoJob
            /\ run[x].status = "settled" => job[x] # NoJob
            /\ job[x] # NoJob <=> run[x].board = "over"
        BY DEF Database, RunsAreRecorded
      <4> QED BY <2>2, <3>2, <4>1
    <3> QED BY <3>1, <3>2
  <2> QED BY <2>4 DEF RunsAreRecorded
<1>11. OneClaim'
  BY <1>1, <1>2, <1>7, KeyFacts DEF Database, OneClaim
<1>12. MembersAreIn'
  <2>1. \A p \in players : member[p] = NoRoom
    BY <1>1, <1>7, KeyFacts DEF Database, OneClaim
  <2>2. \A p \in Player : member[p] # r
    BY <1>1 DEF Database, MembersAreIn
  <2>3. ASSUME NEW p \in Player, NEW s \in Room
        PROVE  member'[p] = s <=> p \in record'[s].players /\ record'[s].status \in {"waiting", "starting"}
    <3>1. CASE s = r
      BY <1>1, <1>2, <1>3, <2>2, <3>1
    <3>2. CASE s # r
      <4>1. record'[s] = record[s]
        BY <1>3, <3>2
      <4>2. p \in players => ~(member[p] = s)
        BY <2>1, RoomAssumption
      <4> QED BY <1>2, <3>2, <4>1, <4>2 DEF Database, MembersAreIn
    <3> QED BY <3>1, <3>2
  <2> QED BY <2>3 DEF MembersAreIn
<1>13. SeatsAreTaken'
  BY <1>1, <1>2, <1>4, <1>6, <1>7, KeyFacts DEF Database, SeatsAreTaken
<1> QED BY <1>5, <1>9, <1>10, <1>11, <1>12, <1>13 DEF Database

\* The reveal and the moves of a game only advance its checkpoint.
LEMMA BoardKeepsDatabase ==
    ASSUME RecordsTyped, Database, NEW k \in Key, NEW b \in {"opening", "started"},
           run[k].board # "over", run' = [run EXCEPT ![k].board = b],
           UNCHANGED <<record, job, claimVars>>
    PROVE  RecordsTyped' /\ Database'
<1>1. record' = record /\ job' = job /\ member' = member /\ seat' = seat /\ viewer' = viewer
  BY DEF claimVars
<1>2. /\ run[k] \in RunState /\ run'[k].board = b
      /\ \A x \in Key : /\ run'[x].status = run[x].status /\ run'[x].players = run[x].players
                        /\ x # k => run'[x].board = run[x].board
  BY DEF RecordsTyped, RunState
<1>3. RecordsTyped'
  BY <1>1, <1>2 DEF RecordsTyped, RunState
<1>4. \A x \in Key : Unfinished(x)' <=> Unfinished(x)
  BY <1>1, <1>2 DEF Unfinished
<1>5. RoomsAreKeyed'
  <2>1. \A r \in Room : record[r].status = "starting" => record[r].key \in Key
    BY KeyFacts DEF Database, RoomsAreKeyed, Keyed, RecordsTyped, RoomState
  <2> QED BY <1>1, <1>2, <2>1 DEF Database, RoomsAreKeyed, Keyed
<1>6. RunsAreRecorded'
  BY <1>1, <1>2, <1>4 DEF Database, RunsAreRecorded
<1>7. OneClaim' /\ MembersAreIn'
  BY <1>1 DEF Database, OneClaim, MembersAreIn
<1>8. SeatsAreTaken'
  BY <1>1, <1>2, <1>4 DEF Database, SeatsAreTaken
<1> QED BY <1>3, <1>5, <1>6, <1>7, <1>8 DEF Database

\* The end of a game turns its seats into claims on the result.
LEMMA EndKeepsDatabase ==
    ASSUME RecordsTyped, Database, NEW k \in Key, Unfinished(k), NEW o \in Outcome,
           job' = [job EXCEPT ![k] = o], run' = [run EXCEPT ![k].board = "over"],
           seat' = Released(k),
           viewer' = [p \in Player |-> IF p \in run[k].players THEN k ELSE viewer[p]],
           record' = [record EXCEPT ![RoomOf(k)] = Closed], member' = member
    PROVE  RecordsTyped' /\ Database'
<1> DEFINE r == RoomOf(k)
           players == run[k].players
<1>1. /\ r \in Room /\ record[r].status = "playing" /\ record[r].key = k
      /\ players \subseteq Player /\ run[k] \in RunState
  BY KeyFacts DEF Database, RunsAreRecorded, RecordsTyped, RunState
<1>2. Closed \in RoomState /\ Closed.status = "closed" /\ Closed.players = {} /\ Closed.key = NoKey
  BY DEF Closed, Absent, RoomState
<1>3. seat' = [p \in Player |-> IF seat[p] = k THEN NoKey ELSE seat[p]]
  BY DEF Released
<1>4. record'[r] = Closed /\ \A s \in Room : s # r => record'[s] = record[s]
  BY <1>1 DEF RecordsTyped
<1>5. /\ run'[k].status = "open" /\ run'[k].players = players /\ run'[k].board = "over"
      /\ \A x \in Key : x # k => run'[x] = run[x]
      /\ job'[k] = o /\ \A x \in Key : x # k => job'[x] = job[x]
  BY <1>1 DEF RecordsTyped, RunState, Unfinished
<1>6. RecordsTyped'
  BY <1>1, <1>2, <1>3 DEF RecordsTyped, RunState
<1>7. o # NoJob
  BY NoOutcome
<1>8. ~Unfinished(k)' /\ \A x \in Key : x # k => (Unfinished(x)' <=> Unfinished(x))
  BY <1>5, <1>7 DEF Unfinished
<1>9. \A p \in Player : seat[p] = k <=> p \in players
  BY DEF Database, SeatsAreTaken
<1>10. RoomOf(k) = r /\ viewer' = [p \in Player |-> IF p \in players THEN k ELSE viewer[p]]
  OBVIOUS
<1> HIDE DEF r, players
<1>11. RoomsAreKeyed'
  <2>1. \A s \in Room : record[s].status = "starting" => record[s].key # k
    BY DEF Database, RoomsAreKeyed, Unfinished
  <2>2. \A s \in Room : record[s].status = "starting" => record[s].key \in Key
    BY KeyFacts DEF Database, RoomsAreKeyed, Keyed, RecordsTyped, RoomState
  <2> QED BY <1>1, <1>2, <1>4, <1>5, <2>1, <2>2, KeyFacts DEF Database, RoomsAreKeyed, Keyed
<1>12. RunsAreRecorded'
  <2>1. ASSUME NEW x \in Key, x # k, RoomOf(x) = r PROVE ~Unfinished(x)
    BY <1>1, <2>1 DEF Database, RunsAreRecorded
  <2> QED BY <1>2, <1>4, <1>5, <1>7, <1>8, <1>10, <2>1, KeyFacts DEF Database, RunsAreRecorded
<1>13. OneClaim'
  BY <1>1, <1>3, <1>9, <1>10, KeyFacts DEF Database, OneClaim
<1>14. MembersAreIn'
  BY <1>1, <1>2, <1>4 DEF Database, MembersAreIn
<1>15. SeatsAreTaken'
  BY <1>1, <1>3, <1>5, <1>8, <1>9, KeyFacts DEF Database, SeatsAreTaken
<1> QED BY <1>6, <1>11, <1>12, <1>13, <1>14, <1>15 DEF Database

\* A settlement pays; the seats of its game are long given up.
LEMMA SettlementKeepsDatabase ==
    ASSUME RecordsTyped, Database, NEW k \in Key, Unsettled(k),
           run' = [run EXCEPT ![k].status = "settled"], seat' = Released(k),
           UNCHANGED <<record, job, member, viewer>>
    PROVE  RecordsTyped' /\ Database'
<1>1. /\ run[k] \in RunState /\ run'[k].status = "settled"
      /\ \A x \in Key : /\ run'[x].board = run[x].board /\ run'[x].players = run[x].players
                        /\ x # k => run'[x].status = run[x].status
  BY DEF RecordsTyped, RunState
<1>2. ~Unfinished(k) /\ job[k] # NoJob /\ run[k].status = "open"
  BY DEF Unsettled, Unfinished
<1>3. \A p \in Player : seat[p] # k
  BY <1>2 DEF Database, SeatsAreTaken
<1>4. seat' = seat
  BY <1>3 DEF Released, RecordsTyped
<1>5. RecordsTyped'
  BY <1>1, <1>4 DEF RecordsTyped, RunState
<1>6. \A x \in Key : Unfinished(x)' <=> Unfinished(x)
  BY <1>1, <1>2 DEF Unfinished
<1>7. RoomsAreKeyed'
  <2>1. \A s \in Room : record[s].status = "starting" => record[s].key \in Key /\ record[s].key # k
    BY <1>2, StartingRooms
  <2> QED BY <1>1, <2>1 DEF Database, RoomsAreKeyed, Keyed
<1>8. RunsAreRecorded'
  BY <1>1, <1>2, <1>6 DEF Database, RunsAreRecorded
<1>9. OneClaim' /\ MembersAreIn'
  BY <1>4 DEF Database, OneClaim, MembersAreIn
<1>10. SeatsAreTaken'
  BY <1>1, <1>4, <1>6 DEF Database, SeatsAreTaken
<1> QED BY <1>5, <1>7, <1>8, <1>9, <1>10 DEF Database

LEMMA DismissalKeepsDatabase ==
    ASSUME RecordsTyped, Database, NEW p \in Player, viewer' = [viewer EXCEPT ![p] = NoKey],
           UNCHANGED <<record, run, job, member, seat>>
    PROVE  RecordsTyped' /\ Database'
<1>1. RecordsTyped'
  BY DEF RecordsTyped
<1>2. RoomsAreKeyed' /\ RunsAreRecorded' /\ MembersAreIn' /\ SeatsAreTaken'
  BY DEF Database, RoomsAreKeyed, Keyed, RunsAreRecorded, MembersAreIn, SeatsAreTaken, Unfinished
<1>3. OneClaim'
  BY DEF Database, OneClaim, RecordsTyped
<1> QED BY <1>1, <1>2, <1>3 DEF Database

\* Whom the record of a room holds in it.
Inside(room) == IF room.status \in {"waiting", "starting"} THEN room.players ELSE {}

\* A change to a room without a game: an acceptance or its undoing, an entry, a departure.
LEMMA RoomChangeKeepsDatabase ==
    ASSUME RecordsTyped, Database, NEW r \in Room, NEW new \in RoomState, Keyed(new, r),
           record[r].status # "playing", new.status # "playing",
           new.status = "starting" => run[new.key].status = "none",
           record' = [record EXCEPT ![r] = new], UNCHANGED <<run, job, seat, viewer>>,
           member' = [p \in Player |-> IF p \in Inside(new) THEN r
                                       ELSE IF member[p] = r THEN NoRoom ELSE member[p]],
           \A p \in Inside(new) : \/ member[p] = r
                                  \/ member[p] = NoRoom /\ seat[p] = NoKey /\ viewer[p] = NoKey
    PROVE  RecordsTyped' /\ Database'
<1>1. /\ record'[r] = new /\ \A s \in Room : s # r => record'[s] = record[s]
      /\ run' = run /\ job' = job /\ seat' = seat /\ viewer' = viewer
  BY DEF RecordsTyped
<1>2. RecordsTyped'
  BY DEF RecordsTyped
<1>3. RoomsAreKeyed'
  BY <1>1 DEF Database, RoomsAreKeyed, Keyed
<1>4. \A x \in Key : Unfinished(x)' <=> Unfinished(x)
  BY <1>1 DEF Unfinished
<1>5. RunsAreRecorded'
  <2>1. \A x \in Key : RoomOf(x) = r => ~Unfinished(x)
    BY DEF Database, RunsAreRecorded
  <2>2. ASSUME NEW x \in Key
        PROVE  /\ Unfinished(x) <=> record'[RoomOf(x)].status = "playing" /\ record'[RoomOf(x)].key = x
               /\ Unfinished(x) => run[x].players = record'[RoomOf(x)].players
    <3>1. CASE RoomOf(x) = r
      BY <1>1, <2>1, <3>1
    <3>2. CASE RoomOf(x) # r
      <4>1. record'[RoomOf(x)] = record[RoomOf(x)]
        BY <1>1, <3>2, KeyFacts
      <4> QED BY <4>1 DEF Database, RunsAreRecorded
    <3> QED BY <3>1, <3>2
  <2> QED BY <1>1, <1>4, <2>2 DEF Database, RunsAreRecorded
<1>6. SeatsAreTaken'
  BY <1>1, <1>4 DEF Database, SeatsAreTaken
<1>7. OneClaim'
  BY <1>1, RoomAssumption DEF Database, OneClaim
<1>8. MembersAreIn'
  <2>1. ASSUME NEW p \in Player, NEW s \in Room
        PROVE  member'[p] = s <=> p \in record'[s].players /\ record'[s].status \in {"waiting", "starting"}
    <3>1. CASE s = r
      BY <1>1, <3>1, RoomAssumption DEF Inside
    <3>2. CASE s # r
      <4>1. record'[s] = record[s] /\ (member'[p] = s <=> member[p] = s)
        BY <1>1, <3>2, RoomAssumption
      <4> QED BY <4>1 DEF Database, MembersAreIn
    <3> QED BY <3>1, <3>2
  <2> QED BY <2>1 DEF MembersAreIn
<1> QED BY <1>2, <1>3, <1>5, <1>6, <1>7, <1>8 DEF Database

\* The members of a room are those its record holds.
LEMMA MembersAreInside ==
    ASSUME RecordsTyped, Database, NEW r \in Room
    PROVE  /\ \A p \in Player : member[p] = r <=> p \in Inside(record[r])
           /\ record[r] \in RoomState /\ Inside(record[r]) \subseteq Player
BY DEF RecordsTyped, RoomState, Database, MembersAreIn, Inside

\* The changes that nobody enters or leaves by.
LEMMA SamePeopleKeepDatabase ==
    ASSUME RecordsTyped, Database, NEW r \in Room, NEW new \in RoomState, Keyed(new, r),
           record[r].status # "playing", new.status # "playing",
           new.status = "starting" => run[new.key].status = "none",
           Inside(new) = Inside(record[r]),
           record' = [record EXCEPT ![r] = new], UNCHANGED <<run, job, claimVars>>
    PROVE  RecordsTyped' /\ Database'
<1>1. run' = run /\ job' = job /\ seat' = seat /\ viewer' = viewer /\ member' = member
  BY DEF claimVars
<1>2. \A p \in Player : member[p] = r <=> p \in Inside(new)
  BY MembersAreInside
<1>3. member' = [p \in Player |-> IF p \in Inside(new) THEN r
                                  ELSE IF member[p] = r THEN NoRoom ELSE member[p]]
  BY <1>1, <1>2 DEF RecordsTyped
<1>4. \A p \in Inside(new) : member[p] = r
  BY <1>2, MembersAreInside
<1> QED BY <1>1, <1>3, <1>4, RoomChangeKeepsDatabase

\* A start is accepted by a room that waits.
LEMMA AcceptanceKeepsDatabase ==
    ASSUME RecordsTyped, Database, NEW r \in Room, NEW k \in Key, RoomOf(k) = r,
           run[k].status = "none", record[r].status = "waiting", record[r].players # {},
           record' = [record EXCEPT ![r] = [record[r] EXCEPT !.status = "starting", !.key = k]],
           UNCHANGED <<run, job, claimVars>>
    PROVE  RecordsTyped' /\ Database'
<1> DEFINE new == [record[r] EXCEPT !.status = "starting", !.key = k]
<1>1. record[r] \in RoomState
  BY DEF RecordsTyped
<1>2. new \in RoomState /\ new.status = "starting" /\ new.key = k /\ new.players = record[r].players
  BY <1>1 DEF RoomState
<1>3. Keyed(new, r) /\ Inside(new) = Inside(record[r])
  BY <1>2, KeyFacts DEF Keyed, Inside
<1>4. record' = [record EXCEPT ![r] = new]
  OBVIOUS
<1> HIDE DEF new
<1> QED BY <1>2, <1>3, <1>4, SamePeopleKeepDatabase

\* An accepted start without a run is dropped.
LEMMA ResetKeepsDatabase ==
    ASSUME RecordsTyped, Database, NEW r \in Room, record[r].status = "starting",
           record' = [record EXCEPT ![r] = [record[r] EXCEPT !.status = "waiting", !.key = NoKey]],
           UNCHANGED <<run, job, claimVars>>
    PROVE  RecordsTyped' /\ Database'
<1> DEFINE new == [record[r] EXCEPT !.status = "waiting", !.key = NoKey]
<1>1. record[r] \in RoomState
  BY DEF RecordsTyped
<1>2. new \in RoomState /\ new.status = "waiting" /\ new.key = NoKey /\ new.players = record[r].players
  BY <1>1 DEF RoomState
<1>3. Keyed(new, r) /\ Inside(new) = Inside(record[r])
  BY <1>2 DEF Keyed, Inside
<1>4. record' = [record EXCEPT ![r] = new]
  OBVIOUS
<1> HIDE DEF new
<1> QED BY <1>2, <1>3, <1>4, SamePeopleKeepDatabase

\* Somebody without a claim enters an empty slot or a waiting room.
LEMMA EntryKeepsDatabase ==
    ASSUME RecordsTyped, Database, NEW r \in Room, NEW p \in Player, NEW new \in RoomState,
           record[r].status \in {"none", "waiting"}, new.status = "waiting", new.key = NoKey,
           new.players = record[r].players \cup {p},
           member[p] = NoRoom, seat[p] = NoKey, viewer[p] = NoKey,
           record' = [record EXCEPT ![r] = new], member' = [member EXCEPT ![p] = r],
           UNCHANGED <<run, job, seat, viewer>>
    PROVE  RecordsTyped' /\ Database'
<1>1. Keyed(new, r) /\ Inside(new) = Inside(record[r]) \cup {p}
  BY DEF Keyed, Inside, Database, RoomsAreKeyed
<1>2. \A q \in Player : member[q] = r <=> q \in Inside(record[r])
  BY MembersAreInside
<1>3. member' = [q \in Player |-> IF q \in Inside(new) THEN r
                                  ELSE IF member[q] = r THEN NoRoom ELSE member[q]]
  BY <1>1, <1>2 DEF RecordsTyped
<1>4. \A q \in Inside(new) : \/ member[q] = r
                             \/ member[q] = NoRoom /\ seat[q] = NoKey /\ viewer[q] = NoKey
  BY <1>1, <1>2, MembersAreInside
<1> QED BY <1>1, <1>3, <1>4, RoomChangeKeepsDatabase

\* Some of its people leave a waiting room, which closes when nobody is left.
LEMMA DepartureKeepsDatabase ==
    ASSUME RecordsTyped, Database, NEW r \in Room, NEW gone, gone \subseteq record[r].players,
           record[r].status = "waiting",
           record' = [record EXCEPT ![r] = Without(record[r], gone)],
           member' = [p \in Player |-> IF p \in gone THEN NoRoom ELSE member[p]],
           UNCHANGED <<run, job, seat, viewer>>
    PROVE  RecordsTyped' /\ Database'
<1> DEFINE new == Without(record[r], gone)
<1>1. record[r] \in RoomState /\ record[r].key = NoKey
  BY DEF RecordsTyped, Database, RoomsAreKeyed, Keyed
<1>2. /\ new \in RoomState /\ new.status \in {"waiting", "closed"} /\ new.key = NoKey
      /\ new.players = record[r].players \ gone
      /\ new.status = "closed" => new.players = {}
  BY <1>1 DEF Without, Closed, Absent, RoomState
<1>3. Keyed(new, r) /\ Inside(new) = Inside(record[r]) \ gone /\ gone \subseteq Inside(record[r])
  BY <1>2 DEF Keyed, Inside
<1>4. record' = [record EXCEPT ![r] = new]
  OBVIOUS
<1> HIDE DEF new
<1>5. \A p \in Player : member[p] = r <=> p \in Inside(record[r])
  BY MembersAreInside
<1>6. member' = [p \in Player |-> IF p \in Inside(new) THEN r
                                  ELSE IF member[p] = r THEN NoRoom ELSE member[p]]
  BY <1>3, <1>5 DEF RecordsTyped
<1>7. \A p \in Inside(new) : member[p] = r
  BY <1>3, <1>5, MembersAreInside
<1> QED BY <1>2, <1>3, <1>4, <1>6, <1>7, RoomChangeKeepsDatabase

\* The seats a restart rebuilds are the ones there were.
LEMMA RestoredSeats ==
    ASSUME RecordsTyped, Database, Uninstalled = {}
    PROVE  /\ LiveGames = {k \in Key : Unfinished(k)}
           /\ seat = [p \in Player |-> IF \E k \in LiveGames : p \in run[k].players
                                       THEN CHOOSE k \in LiveGames : p \in run[k].players ELSE NoKey]
<1>1. LiveGames = {k \in Key : Unfinished(k)}
  BY DEF LiveGames, Uninstalled
<1>2. ASSUME NEW p \in Player
      PROVE  seat[p] = IF \E k \in LiveGames : p \in run[k].players
                       THEN CHOOSE k \in LiveGames : p \in run[k].players ELSE NoKey
  <2>1. \A k \in Key : k \in LiveGames /\ p \in run[k].players <=> seat[p] = k
    BY <1>1 DEF Database, SeatsAreTaken
  <2>2. CASE \E k \in LiveGames : p \in run[k].players
    <3> DEFINE c == CHOOSE k \in LiveGames : p \in run[k].players
    <3>1. c \in LiveGames /\ p \in run[c].players
      BY <2>2
    <3>2. c \in Key
      BY <1>1, <3>1
    <3>3. seat[p] = c
      BY <2>1, <3>1, <3>2
    <3> QED BY <2>2, <3>3
  <2>3. CASE ~\E k \in LiveGames : p \in run[k].players
    <3>1. seat[p] \notin Key
      BY <2>1, <2>3
    <3> QED BY <2>3, <3>1 DEF RecordsTyped
  <2> QED BY <2>2, <2>3
<1> QED BY <1>1, <1>2 DEF RecordsTyped

------------------------------------------------------------------------------
(* Every step keeps the database in order *)

LEMMA WorkKeepsDatabase ==
    ASSUME RecordsTyped, RuntimeTyped, Database, Process, NEW r \in Room, Work(r)
    PROVE  RecordsTyped' /\ Database'
<1>0. /\ TaskIsSound(r) /\ CopyLags(r) /\ task[r] \in TaskState
      /\ record[r] \in RoomState /\ seen[r] \in RoomState /\ record \in [Room -> RoomState]
  BY DEF Process, RecordsTyped, RuntimeTyped
<1>1. CASE AcceptStart(r)
  <2>1. task[r].stage = "accept"
    BY <1>1 DEF AcceptStart, At
  <2>2. ~task[r].leaving /\ StartIsSound(r, task[r])
    BY <1>0, <2>1 DEF TaskIsSound, DepartureIsSound, Undoing
  <2>3. /\ seen[r] = record[r] /\ record[r].status = "waiting" /\ record[r].players # {}
        /\ task[r].key \in Key /\ RoomOf(task[r].key) = r /\ run[task[r].key].status = "none"
    BY <1>0, <2>1, <2>2 DEF StartIsSound, TaskState
  <2>4. UNCHANGED <<run, job, claimVars>>
    BY <1>1 DEF AcceptStart
  <2>5. \/ record' = [record EXCEPT ![r] = [record[r] EXCEPT !.status = "starting", !.key = task[r].key]]
        \/ record' = record
    BY <1>0, <1>1, <2>3 DEF AcceptStart, Write
  <2> QED BY <2>3, <2>4, <2>5, AcceptanceKeepsDatabase, NothingRecorded
<1>2. CASE CreateGameRun(r)
  <2>1. task[r].stage = "create"
    BY <1>2 DEF CreateGameRun, At
  <2>2. StartIsSound(r, task[r])
    BY <1>0, <2>1 DEF TaskIsSound, DepartureIsSound, Undoing
  <2>3. task[r].key \in Key /\ task[r].who \subseteq Player
    BY <1>0, <2>2 DEF StartIsSound, TaskState
  <2>4. CASE UNCHANGED durableVars
    BY <2>4, NothingRecorded DEF durableVars
  <2>5. ASSUME NEW old \in Stale(r), MayAbort(old), Abort(old) PROVE RecordsTyped' /\ Database'
    <3>1. old \in Key /\ Unfinished(old)
      BY <2>3, <2>5 DEF Stale, RecordsTyped, MayAbort
    <3> QED BY <2>5, <3>1, AbortKeepsDatabase
  <2>6. CASE run[task[r].key].status = "none" /\ MayCreate(task[r].key) /\ Create(task[r].key)
    BY <2>3, <2>6, CreationKeepsDatabase
  <2> QED BY <1>2, <2>4, <2>5, <2>6 DEF CreateGameRun
<1>3. CASE OpenReveal(r)
  <2>1. task[r].stage = "open"
    BY <1>3 DEF OpenReveal, At
  <2>2. task[r].key \in Key
    BY <1>0, <2>1 DEF TaskIsSound, DepartureIsSound, Undoing, StartIsSound, TaskState
  <2>3. UNCHANGED <<record, job, claimVars>>
    BY <1>3 DEF OpenReveal
  <2>4. \/ run' = run
        \/ run[task[r].key].board = "none" /\ run' = [run EXCEPT ![task[r].key].board = "opening"]
    BY <1>3 DEF OpenReveal
  <2> QED BY <2>2, <2>3, <2>4, NothingRecorded, BoardKeepsDatabase
<1>4. CASE AbortCreation(r)
  <2>1. task[r].stage = "abort"
    BY <1>4 DEF AbortCreation, At
  <2>2. task[r].key \in Key
    BY <1>0, <2>1 DEF TaskIsSound, DepartureIsSound, Undoing, StartIsSound, TaskState
  <2>3. UNCHANGED durableVars \/ (MayAbort(task[r].key) /\ Abort(task[r].key))
    BY <1>4 DEF AbortCreation
  <2> QED BY <2>2, <2>3, NothingRecorded, AbortKeepsDatabase DEF durableVars, MayAbort
<1>5. CASE CancelStart(r)
  <2>1. \/ UNCHANGED durableVars
        \/ seen[r].key # NoKey /\ MayAbort(seen[r].key) /\ Abort(seen[r].key)
    BY <1>5 DEF CancelStart
  <2>2. seen[r].key # NoKey => seen[r].key \in Key
    BY <1>0 DEF RoomState
  <2> QED BY <2>1, <2>2, NothingRecorded, AbortKeepsDatabase DEF durableVars, MayAbort
<1>6. CASE ResetRoom(r)
  <2>1. task[r].stage = "reset"
    BY <1>6 DEF ResetRoom, At
  <2>2. record[r].status = "starting" /\ seen[r] = record[r]
    BY <1>0, <2>1 DEF TaskIsSound
  <2>3. UNCHANGED <<run, job, claimVars>>
    BY <1>6 DEF ResetRoom
  <2>4. \/ record' = [record EXCEPT ![r] = [record[r] EXCEPT !.status = "waiting", !.key = NoKey]]
        \/ record' = record
    BY <1>0, <1>6, <2>2 DEF ResetRoom, Write
  <2> QED BY <2>2, <2>3, <2>4, ResetKeepsDatabase, NothingRecorded
<1>7. CASE Depart(r)
  <2> DEFINE left == Without(seen[r], task[r].who)
  <2>1. task[r].stage = "depart"
    BY <1>7 DEF Depart, At
  <2>2. /\ record[r].status = "waiting" /\ task[r].who \subseteq record[r].players /\ task[r].who # {}
    BY <1>0, <2>1 DEF TaskIsSound, StartIsSound, DepartureIsSound, Undoing
  <2>3. /\ member' = [p \in Player |-> IF p \in task[r].who /\ record'[r] = left THEN NoRoom ELSE member[p]]
        /\ UNCHANGED <<run, job, seat, viewer>>
    BY <1>7 DEF Depart
  <2>4. \/ seen[r] = record[r] /\ record' = [record EXCEPT ![r] = left]
        \/ record' = record
    BY <1>0, <1>7 DEF Depart, Write
  <2>5. CASE seen[r] = record[r] /\ record' = [record EXCEPT ![r] = left]
    <3>1. record'[r] = left
      BY <1>0, <2>5
    <3>2. member' = [p \in Player |-> IF p \in task[r].who THEN NoRoom ELSE member[p]]
      BY <2>3, <3>1
    <3> QED BY <2>2, <2>3, <2>5, <3>2, DepartureKeepsDatabase
  <2>6. CASE record' = record
    <3>1. left.players \cap task[r].who = {}
      BY <1>0 DEF Without, Closed, Absent, RoomState
    <3>2. record[r] # left
      BY <2>2, <3>1
    <3>3. member' = member
      BY <2>3, <2>6, <3>2 DEF RecordsTyped
    <3> QED BY <2>3, <2>6, <3>3, NothingRecorded DEF claimVars
  <2> QED BY <2>4, <2>5, <2>6
<1>8. CASE \/ BeginCreation(r) \/ CheckSessions(r) \/ InstallGame(r) \/ RereadRoom(r)
           \/ ReadStarted(r) \/ ReadCancelled(r) \/ ReadBeforeLeaving(r)
  <2>1. UNCHANGED durableVars
    BY <1>8 DEF BeginCreation, CheckSessions, InstallGame, RereadRoom, ReadStarted, ReadCancelled,
                ReadBeforeLeaving
  <2> QED BY <2>1, NothingRecorded DEF durableVars
<1> QED BY <1>1, <1>2, <1>3, <1>4, <1>5, <1>6, <1>7, <1>8 DEF Work

LEMMA StepKeepsDatabase ==
    ASSUME RecordsTyped, RuntimeTyped, Database, Process, [Next]_vars
    PROVE  RecordsTyped' /\ Database'
<1>1. ASSUME NEW r \in Room, Work(r) PROVE RecordsTyped' /\ Database'
  BY <1>1, WorkKeepsDatabase
<1>2. ASSUME NEW r \in Room,
             ReadyToStart(r) \/ RetryFires(r) \/ Reconnect(r) \/ Refresh(r) \/ AbandonLeaving(r)
      PROVE  RecordsTyped' /\ Database'
  <2>1. UNCHANGED durableVars
    BY <1>2 DEF ReadyToStart, RetryFires, Reconnect, Resume, Refresh, AbandonLeaving
  <2> QED BY <2>1, NothingRecorded DEF durableVars
<1>3. ASSUME NEW r \in Room, BootReset(r) PROVE RecordsTyped' /\ Database'
  <2>1. /\ record[r].status = "starting" /\ record[r] \in RoomState /\ record \in [Room -> RoomState]
        /\ record' = [record EXCEPT ![r].status = "waiting", ![r].key = NoKey]
        /\ UNCHANGED <<run, job, claimVars>>
    BY <1>3 DEF BootReset, RecordsTyped
  <2>2. record' = [record EXCEPT ![r] = [record[r] EXCEPT !.status = "waiting", !.key = NoKey]]
    BY <2>1
  <2> QED BY <2>1, <2>2, ResetKeepsDatabase
<1>4. ASSUME NEW r \in Room, NEW p \in Player, OpenRoom(p, r) PROVE RecordsTyped' /\ Database'
  <2> DEFINE new == [Absent EXCEPT !.status = "waiting", !.players = {p}]
  <2>1. /\ record[r] = Absent /\ member[p] = NoRoom /\ seat[p] = NoKey /\ viewer[p] = NoKey
        /\ record' = [record EXCEPT ![r] = new] /\ member' = [member EXCEPT ![p] = r]
        /\ UNCHANGED <<run, job, seat, viewer>>
    BY <1>4 DEF OpenRoom, MayEnter, SessionIdle, Occupied
  <2>2. /\ Absent \in RoomState /\ Absent.status = "none" /\ Absent.players = {} /\ Absent.key = NoKey
    BY DEF Absent, RoomState
  <2>3. new \in RoomState /\ new.status = "waiting" /\ new.key = NoKey /\ new.players = {p}
    BY <2>2 DEF RoomState
  <2>4. new.players = record[r].players \cup {p} /\ record[r].status = "none"
    BY <2>1, <2>2, <2>3
  <2> HIDE DEF new
  <2> QED BY <2>1, <2>3, <2>4, EntryKeepsDatabase
<1>5. ASSUME NEW r \in Room, NEW p \in Player, JoinRoom(p, r) PROVE RecordsTyped' /\ Database'
  <2> DEFINE new == [record[r] EXCEPT !.players = @ \cup {p}]
  <2>1. /\ record[r].status = "waiting" /\ member[p] = NoRoom /\ seat[p] = NoKey /\ viewer[p] = NoKey
        /\ record' = [record EXCEPT ![r].players = @ \cup {p}] /\ member' = [member EXCEPT ![p] = r]
        /\ UNCHANGED <<run, job, seat, viewer>>
    BY <1>5 DEF JoinRoom, MayEnter, SessionIdle, Occupied
  <2>2. record[r] \in RoomState /\ record[r].key = NoKey /\ record \in [Room -> RoomState]
    BY <2>1 DEF RecordsTyped, Database, RoomsAreKeyed, Keyed
  <2>3. /\ new \in RoomState /\ new.status = "waiting" /\ new.key = NoKey
        /\ new.players = record[r].players \cup {p} /\ record' = [record EXCEPT ![r] = new]
    BY <2>1, <2>2 DEF RoomState
  <2> HIDE DEF new
  <2> QED BY <2>1, <2>3, EntryKeepsDatabase
<1>6. ASSUME NEW r \in Room, NEW p \in Player, LeaveRoom(p, r) PROVE RecordsTyped' /\ Database'
  BY <1>6, NothingRecorded DEF LeaveRoom, durableVars
<1>7. ASSUME NEW k \in Key, Play(k) PROVE RecordsTyped' /\ Database'
  <2>1. /\ run[k].board = "opening" /\ run' = [run EXCEPT ![k].board = "started"]
        /\ UNCHANGED <<record, job, claimVars>>
    BY <1>7 DEF Play
  <2> QED BY <2>1, BoardKeepsDatabase
<1>8. ASSUME NEW k \in Key, EndGame(k) PROVE RecordsTyped' /\ Database'
  <2>1. PICK o \in Outcome : job' = [job EXCEPT ![k] = o]
    BY <1>8 DEF EndGame
  <2>2. Unfinished(k)
    BY <1>8 DEF EndGame, Process, GamesAreOpen
  <2>3. /\ run' = [run EXCEPT ![k].board = "over"] /\ seat' = Released(k) /\ member' = member
        /\ viewer' = [p \in Player |-> IF p \in run[k].players THEN k ELSE viewer[p]]
        /\ record' = [record EXCEPT ![RoomOf(k)] = Closed]
    BY <1>8 DEF EndGame
  <2> QED BY <2>1, <2>2, <2>3, EndKeepsDatabase
<1>9. ASSUME NEW k \in Key, Settle(k) PROVE RecordsTyped' /\ Database'
  <2>1. /\ Unsettled(k) /\ run' = [run EXCEPT ![k].status = "settled"] /\ seat' = Released(k)
        /\ UNCHANGED <<record, job, member, viewer>>
    BY <1>9 DEF Settle
  <2> QED BY <2>1, SettlementKeepsDatabase
<1>10. ASSUME NEW k \in Key, BootAbort(k) PROVE RecordsTyped' /\ Database'
  BY <1>10, AbortKeepsDatabase DEF BootAbort, Uninstalled
<1>11. ASSUME NEW p \in Player, DismissResult(p) PROVE RecordsTyped' /\ Database'
  BY <1>11, DismissalKeepsDatabase DEF DismissResult
<1>12. ASSUME NEW p \in Player, ClaimPendingPayout(p) PROVE RecordsTyped' /\ Database'
  BY <1>12, NothingRecorded DEF ClaimPendingPayout
<1>13. CASE Crash
  BY <1>13, NothingRecorded DEF Crash, durableVars
<1>14. CASE BootUp
  <2>1. /\ seat' = [p \in Player |-> IF \E k \in LiveGames : p \in run[k].players
                                     THEN CHOOSE k \in LiveGames : p \in run[k].players ELSE NoKey]
        /\ Uninstalled = {} /\ UNCHANGED <<record, run, job, member, viewer>>
    BY <1>14 DEF BootUp
  <2>2. seat' = seat
    BY <2>1, RestoredSeats
  <2> QED BY <2>1, <2>2, NothingRecorded DEF claimVars
<1>15. CASE UNCHANGED vars
  BY <1>15, NothingRecorded DEF vars, durableVars
<1> QED BY <1>1, <1>2, <1>3, <1>4, <1>5, <1>6, <1>7, <1>8, <1>9, <1>10, <1>11, <1>12, <1>13,
           <1>14, <1>15 DEF Next

------------------------------------------------------------------------------
(* Every step keeps the process well typed *)

LEMMA IdleIsTask == Idle \in TaskState
BY DEF Idle, TaskState, Stage

LEMMA FinishedIsTyped ==
    ASSUME RuntimeTyped, NEW r \in Room, NEW copy \in RoomState, Finished(r, copy)
    PROVE  seen' \in [Room -> RoomState] /\ task' \in [Room -> TaskState] /\ retry' \subseteq Room
BY IdleIsTask DEF RuntimeTyped, Finished

LEMMA GoIsTyped ==
    ASSUME RuntimeTyped, NEW r \in Room, NEW s \in Stage, Go(r, s)
    PROVE  task' \in [Room -> TaskState]
BY DEF RuntimeTyped, Go, TaskState, Stage

LEMMA TryIsTyped ==
    ASSUME RuntimeTyped, NEW r \in Room, task[r].tries <= 1,
           task' = [task EXCEPT ![r].stage = "reread", ![r].tries = @ + 1]
    PROVE  task' \in [Room -> TaskState]
<1>1. task[r] \in TaskState /\ task \in [Room -> TaskState]
  BY DEF RuntimeTyped
<1>2. task[r].tries + 1 \in 0..3
  BY <1>1 DEF TaskState
<1> QED BY <1>1, <1>2 DEF TaskState

LEMMA TriesAreTyped ==
    ASSUME RuntimeTyped, NEW r \in Room, NEW n \in 0..3, task' = [task EXCEPT ![r].tries = n]
    PROVE  task' \in [Room -> TaskState]
<1>1. task[r] \in TaskState /\ task \in [Room -> TaskState]
  BY DEF RuntimeTyped
<1>2. [task[r] EXCEPT !.tries = n] \in TaskState
  BY <1>1 DEF TaskState
<1> QED BY <1>1, <1>2

LEMMA ThrownIsTyped ==
    ASSUME RuntimeTyped, NEW r \in Room, task[r].tries <= 1, Thrown(r)
    PROVE  /\ task' \in [Room -> TaskState] /\ reserved' \subseteq Player
           /\ up' = up /\ seen' = seen /\ installed' = installed /\ retry' = retry
<1>1. task' \in [Room -> TaskState]
  BY TryIsTyped DEF Thrown
<1>2. reserved' \subseteq Player
  BY DEF Thrown, RuntimeTyped
<1> QED BY <1>1, <1>2 DEF Thrown

LEMMA FaultIsTyped == ASSUME RuntimeTyped, NEW n \in Nat, Fault(n) PROVE faults' \in Nat
BY DEF RuntimeTyped, Fault

\* A write without an answer ends the work, with the copy read anew or as it was.
Unanswered(r) ==
    /\ Finished(r, record'[r]) \/ Finished(r, seen[r])
    /\ faults' = faults \/ Fault(1) \/ Fault(2)

LEMMA UnansweredIsTyped ==
    ASSUME RuntimeTyped, RecordsTyped', NEW r \in Room, Unanswered(r)
    PROVE  /\ seen' \in [Room -> RoomState] /\ task' \in [Room -> TaskState] /\ retry' \subseteq Room
           /\ faults' \in Nat
<1>1. record'[r] \in RoomState /\ seen[r] \in RoomState
  BY DEF RecordsTyped, RuntimeTyped
<1>2. faults' \in Nat
  BY FaultIsTyped DEF Unanswered, RuntimeTyped
<1>3. CASE Finished(r, seen[r])
  BY <1>1, <1>2, <1>3, FinishedIsTyped
<1>4. CASE Finished(r, record'[r])
  <2>1. PICK copy \in RoomState : copy = record'[r]
    BY <1>1
  <2>2. Finished(r, copy)
    BY <1>4, <2>1 DEF Finished
  <2> QED BY <1>2, <2>2, FinishedIsTyped
<1> QED BY <1>3, <1>4 DEF Unanswered

LEMMA WorkIsTyped ==
    ASSUME RecordsTyped, RuntimeTyped, Database, Process, RecordsTyped', NEW r \in Room, Work(r)
    PROVE  RuntimeTyped'
<1>0. /\ TaskIsSound(r) /\ task[r] \in TaskState /\ record[r] \in RoomState /\ seen[r] \in RoomState
      /\ up \in BOOLEAN /\ seen \in [Room -> RoomState] /\ installed \subseteq Key
      /\ reserved \subseteq Player /\ retry \subseteq Room /\ faults \in Nat
      /\ task \in [Room -> TaskState]
  BY DEF Process, RecordsTyped, RuntimeTyped
<1>1. CASE AcceptStart(r)
  <2> DEFINE new == [seen[r] EXCEPT !.status = "starting", !.key = task[r].key]
  <2>1. up' = up /\ installed' = installed /\ reserved' = reserved
    BY <1>1 DEF AcceptStart
  <2>2. \/ Unanswered(r)
        \/ seen' = [seen EXCEPT ![r] = new] /\ faults' = faults /\ Go(r, "begin") /\ retry' = retry
    BY <1>1 DEF AcceptStart, Write, Unanswered
  <2>3. new \in RoomState /\ "begin" \in Stage
    BY <1>0 DEF RoomState, TaskState, Stage
  <2> HIDE DEF new
  <2>4. /\ seen' \in [Room -> RoomState] /\ task' \in [Room -> TaskState]
        /\ retry' \subseteq Room /\ faults' \in Nat
    BY <1>0, <2>2, <2>3, UnansweredIsTyped, GoIsTyped
  <2> QED BY <1>0, <2>1, <2>4 DEF RuntimeTyped
<1>2. CASE BeginCreation(r)
  <2>1. task[r].stage = "begin" /\ task[r].tries <= 1
    BY <1>0, <1>2 DEF BeginCreation, At, TaskIsSound
  <2>2. task' \in [Room -> TaskState] /\ reserved' \subseteq Player
    <3>1. task[r].who \subseteq Player /\ "create" \in Stage
      BY <1>0 DEF TaskState, Stage
    <3> QED BY <1>0, <1>2, <2>1, <3>1, TryIsTyped, GoIsTyped DEF BeginCreation
  <2>3. up' = up /\ seen' = seen /\ installed' = installed /\ retry' = retry /\ faults' = faults
    BY <1>2 DEF BeginCreation
  <2> QED BY <1>0, <2>2, <2>3 DEF RuntimeTyped
<1>3. CASE CreateGameRun(r)
  <2>1. task[r].stage = "create" /\ task[r].tries <= 1
    BY <1>0, <1>3 DEF CreateGameRun, At, TaskIsSound, Creating
  <2>2. \/ UNCHANGED <<runtimeVars, faults>>
        \/ Thrown(r) /\ (Fault(1) \/ faults' = faults)
        \/ Go(r, "check") /\ UNCHANGED <<up, seen, installed, reserved, retry, faults>>
    BY <1>3 DEF CreateGameRun
  <2>3. CASE UNCHANGED <<runtimeVars, faults>>
    BY <1>0, <2>3 DEF RuntimeTyped, runtimeVars
  <2>4. CASE Thrown(r) /\ (Fault(1) \/ faults' = faults)
    <3>1. faults' \in Nat
      BY <1>0, <2>4, FaultIsTyped
    <3> QED BY <1>0, <2>1, <2>4, <3>1, ThrownIsTyped DEF RuntimeTyped
  <2>5. CASE Go(r, "check") /\ UNCHANGED <<up, seen, installed, reserved, retry, faults>>
    <3>1. task' \in [Room -> TaskState]
      BY <2>5, GoIsTyped DEF Stage
    <3> QED BY <1>0, <2>5, <3>1 DEF RuntimeTyped
  <2> QED BY <2>2, <2>3, <2>4, <2>5
<1>4. CASE CheckSessions(r)
  <2>1. /\ Go(r, "open") \/ Go(r, "abort")
        /\ UNCHANGED <<up, seen, installed, reserved, retry, faults>>
    BY <1>4 DEF CheckSessions
  <2>2. task' \in [Room -> TaskState]
    BY <2>1, GoIsTyped DEF Stage
  <2> QED BY <1>0, <2>1, <2>2 DEF RuntimeTyped
<1>5. CASE OpenReveal(r)
  <2>1. task[r].stage = "open" /\ task[r].tries <= 1
    BY <1>0, <1>5 DEF OpenReveal, At, TaskIsSound, Creating
  <2>2. \/ Thrown(r) /\ Fault(1)
        \/ Go(r, "install") /\ UNCHANGED <<up, seen, installed, reserved, retry, faults>>
    BY <1>5 DEF OpenReveal
  <2>3. CASE Thrown(r) /\ Fault(1)
    <3>1. faults' \in Nat
      BY <2>3, FaultIsTyped
    <3> QED BY <1>0, <2>1, <2>3, <3>1, ThrownIsTyped DEF RuntimeTyped
  <2>4. CASE Go(r, "install") /\ UNCHANGED <<up, seen, installed, reserved, retry, faults>>
    <3>1. task' \in [Room -> TaskState]
      BY <2>4, GoIsTyped DEF Stage
    <3> QED BY <1>0, <2>4, <3>1 DEF RuntimeTyped
  <2> QED BY <2>2, <2>3, <2>4
<1>6. CASE InstallGame(r)
  <2>1. task[r].stage = "install" /\ task[r].key \in Key
    BY <1>0, <1>6 DEF InstallGame, At, TaskIsSound, DepartureIsSound, Undoing, StartIsSound, TaskState
  <2>2. /\ Go(r, "done") \/ Go(r, "abort")
        /\ installed' = installed \cup {k \in {task[r].key} : run[k].board # "over"} \/ installed' = installed
        /\ reserved' = reserved \ task[r].who \/ reserved' = reserved
        /\ UNCHANGED <<up, seen, retry, faults>>
    BY <1>6 DEF InstallGame
  <2>3. task' \in [Room -> TaskState]
    BY <2>2, GoIsTyped DEF Stage
  <2> QED BY <1>0, <2>1, <2>2, <2>3 DEF RuntimeTyped
<1>7. CASE AbortCreation(r)
  <2>1. task[r].stage = "abort" /\ task[r].tries <= 1
    BY <1>0, <1>7 DEF AbortCreation, At, TaskIsSound, Creating
  <2>2. Thrown(r) /\ (Fault(1) \/ faults' = faults)
    BY <1>7 DEF AbortCreation
  <2>3. faults' \in Nat
    BY <1>0, <2>2, FaultIsTyped
  <2> QED BY <1>0, <2>1, <2>2, <2>3, ThrownIsTyped DEF RuntimeTyped
<1>8. CASE RereadRoom(r)
  <2>1. /\ up' = up /\ installed' = installed /\ reserved' = reserved
        /\ faults' = faults \/ Fault(1)
        /\ \/ Finished(r, record[r]) \/ Finished(r, seen[r])
           \/ (Go(r, "begin") \/ Go(r, "cancel")) /\ seen' = [seen EXCEPT ![r] = record[r]] /\ retry' = retry
    BY <1>8 DEF RereadRoom
  <2> QED BY <1>0, <2>1, FinishedIsTyped, GoIsTyped, FaultIsTyped DEF RuntimeTyped, Stage
<1>9. CASE ReadStarted(r)
  <2>1. task[r].stage = "done" /\ task[r].tries <= 1
    BY <1>0, <1>9 DEF ReadStarted, At, TaskIsSound
  <2>2. /\ up' = up /\ installed' = installed /\ reserved' = reserved
        /\ faults' = faults \/ Fault(1)
        /\ \/ Finished(r, record[r])
           \/ /\ task' = [task EXCEPT ![r].stage = "reread", ![r].tries = @ + 1]
              /\ seen' = seen /\ retry' = retry
    BY <1>9 DEF ReadStarted
  <2> QED BY <1>0, <2>1, <2>2, FinishedIsTyped, TryIsTyped, FaultIsTyped DEF RuntimeTyped
<1>10. CASE CancelStart(r)
  <2>1. /\ up' = up /\ installed' = installed /\ reserved' = reserved
        /\ faults' = faults \/ Fault(1)
        /\ \/ Finished(r, seen[r])
           \/ task' = [task EXCEPT ![r].tries = 3] /\ seen' = seen /\ retry' = retry
           \/ Go(r, "cancelled") /\ seen' = seen /\ retry' = retry
    BY <1>10 DEF CancelStart
  <2>2. ASSUME task' = [task EXCEPT ![r].tries = 3] PROVE task' \in [Room -> TaskState]
    <3>1. 3 \in 0..3
      OBVIOUS
    <3> QED BY <2>2, <3>1, TriesAreTyped
  <2> QED BY <1>0, <2>1, <2>2, FinishedIsTyped, GoIsTyped, FaultIsTyped DEF RuntimeTyped, Stage
<1>11. CASE ReadCancelled(r)
  <2>1. /\ up' = up /\ installed' = installed /\ reserved' = reserved
        /\ faults' = faults \/ Fault(1)
        /\ \/ Finished(r, record[r]) \/ Finished(r, seen[r])
           \/ (Go(r, "reset") \/ Go(r, "depart")) /\ seen' = [seen EXCEPT ![r] = record[r]] /\ retry' = retry
    BY <1>11 DEF ReadCancelled
  <2> QED BY <1>0, <2>1, FinishedIsTyped, GoIsTyped, FaultIsTyped DEF RuntimeTyped, Stage
<1>12. CASE ResetRoom(r)
  <2> DEFINE new == [seen[r] EXCEPT !.status = "waiting", !.key = NoKey]
  <2>1. up' = up /\ installed' = installed /\ reserved' = reserved
    BY <1>12 DEF ResetRoom
  <2>2. \/ Unanswered(r)
        \/ /\ seen' = [seen EXCEPT ![r] = new] /\ faults' = faults /\ retry' = retry
           /\ Go(r, "depart") \/ task' = [task EXCEPT ![r] = Idle]
    BY <1>12 DEF ResetRoom, Write, Unanswered
  <2>3. new \in RoomState /\ "depart" \in Stage
    BY <1>0 DEF RoomState, Stage
  <2> HIDE DEF new
  <2>4. /\ seen' \in [Room -> RoomState] /\ task' \in [Room -> TaskState]
        /\ retry' \subseteq Room /\ faults' \in Nat
    BY <1>0, <2>2, <2>3, UnansweredIsTyped, GoIsTyped, IdleIsTask
  <2> QED BY <1>0, <2>1, <2>4 DEF RuntimeTyped
<1>13. CASE ReadBeforeLeaving(r)
  <2>1. /\ up' = up /\ installed' = installed /\ reserved' = reserved
        /\ faults' = faults \/ Fault(1)
        /\ \/ Finished(r, record[r]) \/ Finished(r, seen[r])
           \/ /\ task' = [task EXCEPT ![r].stage = IF record[r].key # NoKey THEN "cancel" ELSE "depart",
                                      ![r].tries = 2]
              /\ seen' = [seen EXCEPT ![r] = record[r]] /\ retry' = retry
    BY <1>13 DEF ReadBeforeLeaving
  <2>2. ASSUME task' = [task EXCEPT ![r].stage = IF record[r].key # NoKey THEN "cancel" ELSE "depart",
                                    ![r].tries = 2]
        PROVE  task' \in [Room -> TaskState]
    <3>1. PICK s \in Stage : s = IF record[r].key # NoKey THEN "cancel" ELSE "depart"
      BY DEF Stage
    <3>2. [task[r] EXCEPT !.stage = s] \in TaskState /\ 2 \in 0..3
      BY <1>0 DEF TaskState
    <3>3. [[task[r] EXCEPT !.stage = s] EXCEPT !.tries = 2] \in TaskState
      BY <3>2 DEF TaskState
    <3> QED BY <1>0, <2>2, <3>1, <3>3
  <2> QED BY <1>0, <2>1, <2>2, FinishedIsTyped, FaultIsTyped DEF RuntimeTyped
<1>14. CASE Depart(r)
  <2> DEFINE left == Without(seen[r], task[r].who)
  <2>1. up' = up /\ installed' = installed /\ reserved' = reserved
    BY <1>14 DEF Depart
  <2>2. left \in RoomState
    BY <1>0 DEF Without, Closed, Absent, RoomState
  <2>3. Unanswered(r) \/ (Finished(r, left) /\ faults' = faults)
    BY <1>14 DEF Depart, Write, Unanswered
  <2> HIDE DEF left
  <2>4. /\ seen' \in [Room -> RoomState] /\ task' \in [Room -> TaskState]
        /\ retry' \subseteq Room /\ faults' \in Nat
    BY <1>0, <2>2, <2>3, UnansweredIsTyped, FinishedIsTyped
  <2> QED BY <1>0, <2>1, <2>4 DEF RuntimeTyped
<1> QED BY <1>1, <1>2, <1>3, <1>4, <1>5, <1>6, <1>7, <1>8, <1>9, <1>10, <1>11, <1>12, <1>13,
           <1>14 DEF Work

LEMMA BegunIsTyped ==
    ASSUME RuntimeTyped, NEW r \in Room, NEW stage \in Stage, NEW leaving \in BOOLEAN,
           NEW who \in SUBSET Player, NEW key \in Key \cup {NoKey}, Begun(r, stage, leaving, who, key)
    PROVE  task' \in [Room -> TaskState]
<1>1. [stage |-> stage, leaving |-> leaving, who |-> who, key |-> key, tries |-> 0] \in TaskState
  BY DEF TaskState
<1> QED BY <1>1 DEF RuntimeTyped, Begun

LEMMA ResumeIsTyped ==
    ASSUME RuntimeTyped, NEW r \in Room, Resume(r)
    PROVE  /\ task' \in [Room -> TaskState]
           /\ up' = up /\ seen' = seen /\ installed' = installed /\ reserved' = reserved /\ faults' = faults
<1>1. seen[r].players \in SUBSET Player /\ seen[r].key \in Key \cup {NoKey}
  BY DEF RuntimeTyped, RoomState
<1>2. task' = task \/ Begun(r, "begin", FALSE, seen[r].players, seen[r].key)
  BY DEF Resume
<1>3. task' \in [Room -> TaskState]
  <2>1. CASE task' = task
    BY <2>1 DEF RuntimeTyped
  <2>2. CASE Begun(r, "begin", FALSE, seen[r].players, seen[r].key)
    <3>1. "begin" \in Stage /\ FALSE \in BOOLEAN
      BY DEF Stage
    <3> QED BY <1>1, <2>2, <3>1, BegunIsTyped
  <2> QED BY <1>2, <2>1, <2>2
<1> QED BY <1>3 DEF Resume

LEMMA RetryIsTyped ==
    ASSUME RuntimeTyped, NEW r \in Room, RetryFires(r)
    PROVE  RuntimeTyped'
<1>1. retry' \subseteq Room
  BY DEF RetryFires, RuntimeTyped
<1>2. CASE Resume(r)
  BY <1>1, <1>2, ResumeIsTyped DEF RuntimeTyped
<1>3. CASE UNCHANGED <<durableVars, up, seen, installed, reserved, task, faults>>
  BY <1>1, <1>3 DEF RuntimeTyped
<1> QED BY <1>2, <1>3 DEF RetryFires

\* The steps that begin no work and no task.
LEMMA ReadyIsTyped ==
    ASSUME RecordsTyped, RuntimeTyped, NEW r \in Room, ReadyToStart(r)
    PROVE  RuntimeTyped'
<1>1. PICK n \in 1..MaxAttempts : Begun(r, "accept", FALSE, record[r].players, <<r, n>>)
  BY DEF ReadyToStart
<1>2. <<r, n>> \in Key \cup {NoKey} /\ record[r].players \in SUBSET Player
  BY DEF Key, RecordsTyped, RoomState
<1>3. "accept" \in Stage /\ FALSE \in BOOLEAN
  BY DEF Stage
<1>4. task' \in [Room -> TaskState]
  BY <1>1, <1>2, <1>3, BegunIsTyped
<1> QED BY <1>4 DEF ReadyToStart, RuntimeTyped

LEMMA StepIsTyped ==
    ASSUME RecordsTyped, RuntimeTyped, Database, Process, RecordsTyped', [Next]_vars
    PROVE  RuntimeTyped'
<1>0. /\ up \in BOOLEAN /\ seen \in [Room -> RoomState] /\ installed \subseteq Key
      /\ reserved \subseteq Player /\ retry \subseteq Room /\ faults \in Nat
      /\ task \in [Room -> TaskState] /\ record \in [Room -> RoomState]
  BY DEF RuntimeTyped, RecordsTyped
<1>1. ASSUME NEW r \in Room, Work(r) PROVE RuntimeTyped'
  BY <1>1, WorkIsTyped
<1>2. ASSUME NEW r \in Room, ReadyToStart(r) PROVE RuntimeTyped'
  BY <1>2, ReadyIsTyped
<1>3. ASSUME NEW r \in Room, RetryFires(r) PROVE RuntimeTyped'
  BY <1>3, RetryIsTyped
<1>4. ASSUME NEW r \in Room, Reconnect(r) PROVE RuntimeTyped'
  BY <1>0, <1>4, ResumeIsTyped DEF Reconnect, RuntimeTyped
<1>5. ASSUME NEW r \in Room, Refresh(r) PROVE RuntimeTyped'
  BY <1>0, <1>5 DEF Refresh, RuntimeTyped
<1>6. ASSUME NEW r \in Room, AbandonLeaving(r) PROVE RuntimeTyped'
  <2>1. /\ Finished(r, seen[r]) /\ seen[r] \in RoomState
        /\ up' = up /\ installed' = installed /\ reserved' = reserved /\ faults' = faults
    BY <1>0, <1>6 DEF AbandonLeaving
  <2>2. seen' \in [Room -> RoomState] /\ task' \in [Room -> TaskState] /\ retry' \subseteq Room
    BY <2>1, FinishedIsTyped
  <2> QED BY <1>0, <2>1, <2>2 DEF RuntimeTyped
<1>7. ASSUME NEW r \in Room, NEW p \in Player, OpenRoom(p, r) PROVE RuntimeTyped'
  <2>1. /\ seen' = [seen EXCEPT ![r] = record'[r]] /\ record'[r] \in RoomState
        /\ UNCHANGED <<up, installed, reserved, task, retry, faults>>
    BY <1>7 DEF OpenRoom, RecordsTyped
  <2> QED BY <1>0, <2>1 DEF RuntimeTyped
<1>8. ASSUME NEW r \in Room, NEW p \in Player, JoinRoom(p, r) PROVE RuntimeTyped'
  <2>1. /\ \/ seen' = [seen EXCEPT ![r] = record'[r]] /\ faults' = faults
           \/ seen' = seen /\ Fault(3)
        /\ record'[r] \in RoomState
        /\ UNCHANGED <<up, installed, reserved, task, retry>>
    BY <1>8 DEF JoinRoom, RecordsTyped
  <2>2. faults' \in Nat
    BY <1>0, <2>1 DEF Fault
  <2> QED BY <1>0, <2>1, <2>2 DEF RuntimeTyped
<1>9. ASSUME NEW r \in Room, NEW p \in Player, LeaveRoom(p, r) PROVE RuntimeTyped'
  <2>1. /\ Begun(r, "leave", TRUE, {p}, NoKey) /\ UNCHANGED <<up, seen, installed, reserved, retry, faults>>
    BY <1>9 DEF LeaveRoom
  <2>2. "leave" \in Stage /\ TRUE \in BOOLEAN /\ {p} \in SUBSET Player /\ NoKey \in Key \cup {NoKey}
    BY DEF Stage
  <2>3. task' \in [Room -> TaskState]
    BY <2>1, <2>2, BegunIsTyped
  <2> QED BY <1>0, <2>1, <2>3 DEF RuntimeTyped
<1>10. ASSUME NEW k \in Key, Play(k) \/ Settle(k) \/ BootAbort(k) PROVE RuntimeTyped'
  BY <1>0, <1>10 DEF Play, Settle, BootAbort, runtimeVars, RuntimeTyped
<1>11. ASSUME NEW r \in Room, BootReset(r) PROVE RuntimeTyped'
  BY <1>0, <1>11 DEF BootReset, runtimeVars, RuntimeTyped
<1>12. ASSUME NEW k \in Key, EndGame(k) PROVE RuntimeTyped'
  <2>1. /\ seen' = [seen EXCEPT ![RoomOf(k)] = Closed] /\ installed' = installed \ {k}
        /\ retry' = retry \ {RoomOf(k)} /\ UNCHANGED <<up, reserved, task, faults>>
    BY <1>12 DEF EndGame
  <2>2. Closed \in RoomState
    BY DEF Closed, Absent, RoomState
  <2> QED BY <1>0, <2>1, <2>2 DEF RuntimeTyped
<1>13. ASSUME NEW p \in Player, DismissResult(p) \/ ClaimPendingPayout(p) PROVE RuntimeTyped'
  BY <1>0, <1>13 DEF DismissResult, ClaimPendingPayout, runtimeVars, RuntimeTyped
<1>14. CASE Crash
  <2>1. Absent \in RoomState /\ faults' \in Nat
    BY <1>0, <1>14 DEF Crash, Fault, Absent, RoomState
  <2> QED BY <1>14, <2>1, IdleIsTask DEF Crash, RuntimeTyped
<1>15. CASE BootUp
  <2>1. LiveGames \subseteq Key
    BY DEF LiveGames
  <2> QED BY <1>0, <1>15, <2>1 DEF BootUp, RuntimeTyped
<1>16. CASE UNCHANGED vars
  BY <1>0, <1>16 DEF vars, runtimeVars, RuntimeTyped
<1> QED BY <1>1, <1>2, <1>3, <1>4, <1>5, <1>6, <1>7, <1>8, <1>9, <1>10, <1>11, <1>12, <1>13,
           <1>14, <1>15, <1>16 DEF Next

------------------------------------------------------------------------------
(* Nobody, the vault least, pays what it does not have *)

LEMMA Amounts ==
    /\ Stake \in Nat /\ Fund \in Nat /\ WinReward \in Nat /\ Consolation \in Nat /\ Bounty \in Nat
    /\ Stake > 0
BY AmountsAssumption

\* The winner's pot is never less than the tax taken of it.
LEMMA TaxIsAffordable == Tax \in Nat /\ Tax <= 2 * Stake
<1> DEFINE taxed == 2 * Stake * TaxPercent
           rounded == (taxed + 50) \div 100
<1>1. TaxPercent \in Nat /\ TaxPercent <= 100 /\ Stake \in Nat /\ Stake >= 1
  BY AmountsAssumption
<1>2. taxed \in Nat /\ taxed <= 200 * Stake
  <2>1. Stake * TaxPercent \in Nat /\ Stake * TaxPercent <= Stake * 100
    BY <1>1, SMTT(30)
  <2>2. taxed = 2 * (Stake * TaxPercent)
    BY <1>1, SMTT(30)
  <2> QED BY <1>1, <2>1, <2>2
<1> HIDE DEF taxed
<1>3. rounded \in Int /\ rounded <= 2 * Stake
  BY <1>1, <1>2, SMTT(30)
<1>4. Tax = IF rounded > 1 THEN rounded ELSE 1
  BY DEF Tax, taxed
<1> HIDE DEF rounded
<1> QED BY <1>1, <1>3, <1>4

LEMMA CreditIsPaid == \A o \in Outcome, p \in Player : Credit(o, p) \in Nat
<1> SUFFICES ASSUME NEW o \in Outcome, NEW p \in Player PROVE Credit(o, p) \in Nat
  OBVIOUS
<1>1. 2 * Stake - Tax \in Nat
  BY Amounts, TaxIsAffordable
<1>2. o.kind \in {"win", "short", "draw", "abandoned"}
  BY DEF Outcome
<1>3. CASE o.kind = "abandoned" BY <1>3, Amounts DEF Credit
<1>4. CASE o.kind = "draw" BY <1>4, Amounts DEF Credit
<1>5. CASE o.kind = "short" BY <1>5, Amounts DEF Credit
<1>6. CASE o.kind = "win" BY <1>1, <1>6, Amounts, TaxIsAffordable DEF Credit
<1> QED BY <1>2, <1>3, <1>4, <1>5, <1>6

LEMMA SettlementPays ==
    ASSUME RecordsTyped, MoneyTyped, NEW k \in Key, Settle(k)
    PROVE  MoneyTyped'
<1> DEFINE o == job[k]
           taxed == vault + (IF o.kind = "win" THEN Tax ELSE 0)
           first == {p \in run[k].players : o.kind \in {"win", "short"} /\ p = o.winner /\ bounty[p] = "none"}
           paid == Payable(taxed, first)
           credit == [p \in Player |-> IF p \in run[k].players THEN Credit(o, p) ELSE 0]
           won == [p \in Player |-> IF p \in paid THEN Bounty ELSE 0]
<1>1. o \in Outcome
  BY DEF Settle, Unsettled, RecordsTyped
<1>2. taxed \in Nat
  BY TaxIsAffordable DEF MoneyTyped
<1>3. \A p \in Player : credit[p] \in Nat /\ won[p] \in Nat
  BY <1>1, CreditIsPaid, Amounts
<1>4. Cardinality(paid) = 0 \/ (Cardinality(paid) = 1 /\ taxed >= Bounty)
  <2>1. paid = {} \/ (paid = {o.winner} /\ taxed >= Bounty)
    BY DEF Payable
  <2> QED BY <2>1, FS_EmptySet, FS_Singleton
<1>5. /\ coins' = [p \in Player |-> coins[p] + credit[p] + won[p]]
      /\ vault' = taxed - Bounty * Cardinality(paid)
      /\ bounty' = [p \in Player |-> IF p \in paid THEN "paid" ELSE IF p \in first THEN "owed" ELSE bounty[p]]
  BY DEF Settle
<1> HIDE DEF taxed, first, paid, credit, won
<1>6. coins' \in [Player -> Nat]
  BY <1>3, <1>5 DEF MoneyTyped
<1>7. vault' \in Nat
  BY <1>2, <1>4, <1>5, Amounts
<1>8. bounty' \in [Player -> {"none", "owed", "paid"}]
  BY <1>5 DEF MoneyTyped
<1> QED BY <1>6, <1>7, <1>8 DEF MoneyTyped

LEMMA AbortPaysBack ==
    ASSUME MoneyTyped, NEW k \in Key, Abort(k)
    PROVE  MoneyTyped'
BY Amounts DEF MoneyTyped, Abort

LEMMA WorkPays ==
    ASSUME RecordsTyped, RuntimeTyped, MoneyTyped, Process, NEW r \in Room, Work(r)
    PROVE  MoneyTyped'
<1>0. /\ TaskIsSound(r) /\ task[r] \in TaskState /\ seen[r] \in RoomState
  BY DEF Process, RecordsTyped, RuntimeTyped
<1>1. CASE UNCHANGED moneyVars
  BY <1>1 DEF moneyVars, MoneyTyped
<1>2. CASE CreateGameRun(r)
  <2>1. task[r].key \in Key /\ task[r].who \subseteq Player
    <3>1. task[r].stage = "create"
      BY <1>2 DEF CreateGameRun, At
    <3> QED BY <1>0, <3>1 DEF TaskIsSound, DepartureIsSound, Undoing, StartIsSound, TaskState
  <2>2. CASE UNCHANGED durableVars
    BY <1>1, <2>2 DEF durableVars
  <2>3. ASSUME NEW old \in Stale(r), Abort(old) PROVE MoneyTyped'
    <3>1. old \in Key
      BY <2>1 DEF Stale, RecordsTyped
    <3> QED BY <2>3, <3>1, AbortPaysBack
  <2>4. CASE MayCreate(task[r].key) /\ Create(task[r].key)
    <3> DEFINE players == record[RoomOf(task[r].key)].players
    <3>1. \A p \in players : coins[p] >= Stake
      BY <2>4 DEF MayCreate
    <3>2. coins' = [p \in Player |-> IF p \in players THEN coins[p] - Stake ELSE coins[p]]
      BY <2>4 DEF Create, Debit
    <3>3. vault' = vault /\ bounty' = bounty
      BY <2>4 DEF Create
    <3> HIDE DEF players
    <3>4. coins' \in [Player -> Nat]
      BY <3>1, <3>2, Amounts DEF MoneyTyped
    <3> QED BY <3>3, <3>4 DEF MoneyTyped
  <2> QED BY <1>2, <2>2, <2>3, <2>4 DEF CreateGameRun
<1>3. CASE AbortCreation(r)
  <2>1. task[r].stage = "abort"
    BY <1>3 DEF AbortCreation, At
  <2>2. task[r].key \in Key
    BY <1>0, <2>1 DEF TaskIsSound, DepartureIsSound, Undoing, StartIsSound, TaskState
  <2>3. UNCHANGED durableVars \/ Abort(task[r].key)
    BY <1>3 DEF AbortCreation
  <2> QED BY <1>1, <2>2, <2>3, AbortPaysBack DEF durableVars
<1>4. CASE CancelStart(r)
  <2>1. UNCHANGED durableVars \/ (seen[r].key # NoKey /\ Abort(seen[r].key))
    BY <1>4 DEF CancelStart
  <2>2. seen[r].key # NoKey => seen[r].key \in Key
    BY <1>0 DEF RoomState
  <2> QED BY <1>1, <2>1, <2>2, AbortPaysBack DEF durableVars
<1>5. CASE \/ AcceptStart(r) \/ OpenReveal(r) \/ ResetRoom(r) \/ Depart(r) \/ BeginCreation(r)
           \/ CheckSessions(r) \/ InstallGame(r) \/ RereadRoom(r) \/ ReadStarted(r)
           \/ ReadCancelled(r) \/ ReadBeforeLeaving(r)
  <2>1. UNCHANGED moneyVars
    BY <1>5 DEF AcceptStart, OpenReveal, ResetRoom, Depart, BeginCreation, CheckSessions,
                InstallGame, RereadRoom, ReadStarted, ReadCancelled, ReadBeforeLeaving, durableVars
  <2> QED BY <1>1, <2>1
<1> QED BY <1>2, <1>3, <1>4, <1>5 DEF Work

LEMMA StepPays ==
    ASSUME RecordsTyped, RuntimeTyped, MoneyTyped, Process, [Next]_vars
    PROVE  MoneyTyped'
<1>1. CASE UNCHANGED moneyVars
  BY <1>1 DEF moneyVars, MoneyTyped
<1>2. ASSUME NEW r \in Room, Work(r) PROVE MoneyTyped'
  BY <1>2, WorkPays
<1>3. ASSUME NEW r \in Room,
             \/ ReadyToStart(r) \/ RetryFires(r) \/ Reconnect(r) \/ Refresh(r) \/ AbandonLeaving(r)
             \/ BootReset(r)
      PROVE  MoneyTyped'
  <2>1. UNCHANGED moneyVars
    BY <1>3 DEF ReadyToStart, RetryFires, Reconnect, Resume, Refresh, AbandonLeaving, BootReset, durableVars
  <2> QED BY <1>1, <2>1
<1>4. ASSUME NEW r \in Room, NEW p \in Player, OpenRoom(p, r) \/ JoinRoom(p, r) \/ LeaveRoom(p, r)
      PROVE  MoneyTyped'
  <2>1. UNCHANGED moneyVars
    BY <1>4 DEF OpenRoom, JoinRoom, LeaveRoom, durableVars
  <2> QED BY <1>1, <2>1
<1>5. ASSUME NEW k \in Key, Play(k) \/ EndGame(k) PROVE MoneyTyped'
  BY <1>1, <1>5 DEF Play, EndGame
<1>6. ASSUME NEW k \in Key, Settle(k) PROVE MoneyTyped'
  BY <1>6, SettlementPays
<1>7. ASSUME NEW k \in Key, BootAbort(k) PROVE MoneyTyped'
  BY <1>7, AbortPaysBack DEF BootAbort
<1>8. ASSUME NEW p \in Player, DismissResult(p) PROVE MoneyTyped'
  BY <1>1, <1>8 DEF DismissResult
<1>9. ASSUME NEW p \in Player, ClaimPendingPayout(p) PROVE MoneyTyped'
  <2>1. /\ vault' = vault - Bounty /\ vault >= Bounty
        /\ coins' = [coins EXCEPT ![p] = @ + Bounty] /\ bounty' = [bounty EXCEPT ![p] = "paid"]
    BY <1>9 DEF ClaimPendingPayout
  <2> QED BY <2>1, Amounts DEF MoneyTyped
<1>10. CASE Crash \/ BootUp
  BY <1>1, <1>10 DEF Crash, BootUp, durableVars
<1>11. CASE UNCHANGED vars
  BY <1>1, <1>11 DEF vars, durableVars
<1> QED BY <1>2, <1>3, <1>4, <1>5, <1>6, <1>7, <1>8, <1>9, <1>10, <1>11 DEF Next

------------------------------------------------------------------------------
(* What a step of one room leaves to the others *)

\* Nothing this room's work and copy rest on is taken from it.
Steady(s) ==
    /\ up' = up /\ record'[s] = record[s] /\ seen'[s] = seen[s] /\ task'[s] = task[s]
    /\ \A k \in Key : RoomOf(k) = s =>
          /\ run'[k].players = run[k].players
          /\ run'[k].status = run[k].status \/ (run[k].status = "open" /\ run'[k].status = "settled")
          /\ k \in installed' => k \in installed
    /\ Busy(s) => task[s].who \cap reserved \subseteq reserved'

LEMMA KeysOfRooms ==
    ASSUME RecordsTyped, RuntimeTyped, Database, Process, NEW s \in Room
    PROVE  /\ record[s].key \in Key \cup {NoKey} /\ (record[s].key # NoKey => RoomOf(record[s].key) = s)
           /\ seen[s].key \in Key \cup {NoKey} /\ (seen[s].key # NoKey => RoomOf(seen[s].key) = s)
           /\ task[s] \in TaskState /\ record[s] \in RoomState /\ seen[s] \in RoomState
           /\ TaskIsSound(s) /\ CopyLags(s)
<1>1. /\ record[s] \in RoomState /\ seen[s] \in RoomState /\ task[s] \in TaskState
  BY DEF RecordsTyped, RuntimeTyped
<1>2. Keyed(record[s], s) /\ Keyed(seen[s], s) /\ TaskIsSound(s) /\ CopyLags(s)
  BY DEF Database, RoomsAreKeyed, Process, CopyLags
<1>3. record[s].key \in Key \cup {NoKey} /\ seen[s].key \in Key \cup {NoKey}
  BY <1>1 DEF RoomState
<1> QED BY <1>1, <1>2, <1>3 DEF Keyed

LEMMA SteadyCopies ==
    ASSUME RecordsTyped, RuntimeTyped, Database, Process, NEW s \in Room, Steady(s)
    PROVE  CopyLags(s)'
<1>1. /\ seen[s].key \in Key \cup {NoKey} /\ (seen[s].key # NoKey => RoomOf(seen[s].key) = s)
      /\ CopyLags(s)
  BY KeysOfRooms
<1>2. record'[s] = record[s] /\ seen'[s] = seen[s]
  BY DEF Steady
<1>3. ASSUME seen[s].key # NoKey, run'[seen[s].key].status # "none"
      PROVE  run'[seen[s].key].players = seen[s].players
  <2>1. run'[seen[s].key].players = run[seen[s].key].players /\ run[seen[s].key].status # "none"
    BY <1>1, <1>3 DEF Steady
  <2> QED BY <1>1, <1>3, <2>1 DEF CopyLags
<1> QED BY <1>1, <1>2, <1>3 DEF CopyLags, Keyed

LEMMA SteadyTasks ==
    ASSUME RecordsTyped, RuntimeTyped, Database, Process, RuntimeTyped', NEW s \in Room, Steady(s)
    PROVE  TaskIsSound(s)'
<1>1. /\ record[s].key \in Key \cup {NoKey} /\ (record[s].key # NoKey => RoomOf(record[s].key) = s)
      /\ seen[s].key \in Key \cup {NoKey} /\ (seen[s].key # NoKey => RoomOf(seen[s].key) = s)
      /\ TaskIsSound(s) /\ task[s] \in TaskState
  BY KeysOfRooms
<1>2. up' = up /\ record'[s] = record[s] /\ seen'[s] = seen[s] /\ task'[s] = task[s]
  BY DEF Steady
<1>3. NoKey \notin installed'
  BY KeyFacts DEF RuntimeTyped
<1>4. \A k \in Key : RoomOf(k) = s =>
         /\ run'[k].players = run[k].players
         /\ run'[k].status = "none" <=> run[k].status = "none"
         /\ run[k].status \in {"open", "settled"} => run'[k].status \in {"open", "settled"}
         /\ k \in installed' => k \in installed
  BY DEF Steady
<1>5. ASSUME StartIsSound(s, task[s]) PROVE StartIsSound(s, task[s])'
  <2>1. task[s].key \in Key /\ RoomOf(task[s].key) = s
    BY <1>1, <1>5 DEF StartIsSound, TaskState
  <2>2. task[s].stage \in Creating => task[s].who \subseteq reserved'
    BY <1>5 DEF StartIsSound, Steady, Busy
  <2> QED BY <1>2, <1>4, <1>5, <2>1, <2>2 DEF StartIsSound
<1>6. ASSUME DepartureIsSound(s, task[s]) PROVE DepartureIsSound(s, task[s])'
  BY <1>1, <1>2, <1>3, <1>4, <1>6 DEF DepartureIsSound
<1>7. task[s].stage = "cancel" => seen'[s].key \notin installed'
  BY <1>1, <1>2, <1>3, <1>4 DEF TaskIsSound
<1> QED BY <1>1, <1>2, <1>5, <1>6, <1>7 DEF TaskIsSound

\* What one room's step may touch: its own record, copy, task and runs, and what its
\* task has reserved.
Local(r) ==
    /\ up /\ up' = up
    /\ \A s \in Room : s # r => record'[s] = record[s] /\ seen'[s] = seen[s] /\ task'[s] = task[s]
    /\ \A k \in Key : RoomOf(k) # r => run'[k] = run[k] /\ (k \in installed' => k \in installed)
    /\ reserved \subseteq reserved' \/ (Busy(r) /\ reserved' = reserved \ task[r].who)

\* Who creates a game after the step did so before it, or is not yet reserved.
Exclusive(r) ==
    Busy(r)' => task'[r].who = task[r].who /\ (Busy(r) \/ task[r].who \cap reserved = {})

LEMMA BusyRooms ==
    ASSUME RecordsTyped, RuntimeTyped, Database, Process, NEW s \in Room, Busy(s)
    PROVE  task[s].who \subseteq reserved /\ task[s].who # {}
BY KeysOfRooms DEF Busy, TaskIsSound, StartIsSound, DepartureIsSound, Creating, Undoing

LEMMA LocalSteps ==
    ASSUME RecordsTyped, RuntimeTyped, Database, Process, RuntimeTyped', NEW r \in Room,
           Local(r), Exclusive(r), GamesAreOpen', CopyLags(r)', TaskIsSound(r)'
    PROVE  Process'
<1>1. ASSUME NEW s \in Room, s # r PROVE Steady(s)
  <2>1. Busy(s) => task[s].who \cap reserved \subseteq reserved'
    <3>1. CASE reserved \subseteq reserved'
      BY <3>1
    <3>2. CASE Busy(r) /\ reserved' = reserved \ task[r].who
      BY <1>1, <3>2 DEF Process, Reservations
    <3> QED BY <3>1, <3>2 DEF Local
  <2> QED BY <1>1, <2>1 DEF Local, Steady
<1>2. ASSUME NEW s \in Room PROVE CopyLags(s)' /\ TaskIsSound(s)'
  BY <1>1, SteadyCopies, SteadyTasks
<1>3. Reservations'
  <2>1. ASSUME NEW s \in Room, s # r, Busy(r)', Busy(s)'
        PROVE  task'[r].who \cap task'[s].who = {}
    <3>1. task'[s] = task[s] /\ Busy(s)
      BY <2>1 DEF Local, Busy
    <3>2. task[s].who \subseteq reserved
      BY <3>1, BusyRooms
    <3> QED BY <2>1, <3>1, <3>2 DEF Exclusive, Process, Reservations
  <2>2. ASSUME NEW s \in Room, NEW q \in Room, s # r, q # r, s # q, Busy(s)', Busy(q)'
        PROVE  task'[s].who \cap task'[q].who = {}
    BY <2>2 DEF Local, Busy, Process, Reservations
  <2> QED BY <2>1, <2>2 DEF Reservations
<1>4. DownIsEmpty'
  BY DEF Local, DownIsEmpty
<1> QED BY <1>2, <1>3, <1>4 DEF Process

\* Games that are in memory stay unfinished where runs and jobs stay.
LEMMA SameGames ==
    ASSUME Process, installed' = installed, job' = job, run' = run
    PROVE  GamesAreOpen'
BY DEF Process, GamesAreOpen, Unfinished

LEMMA FreshCopies ==
    ASSUME RecordsTyped', Database', NEW r \in Room, seen'[r] = record'[r]
    PROVE  CopyLags(r)'
<1>1. record'[r] \in RoomState
  BY DEF RecordsTyped
<1>2. Keyed(record[r], r)'
  BY DEF Database, RoomsAreKeyed
<1>3. ASSUME record'[r].key # NoKey, run'[record'[r].key].status # "none"
      PROVE  run'[record'[r].key].players = record'[r].players
  <2>1. record'[r].key \in Key /\ RoomOf(record'[r].key) = r
    BY <1>1, <1>2, <1>3 DEF Keyed, RoomState
  <2>2. record'[r].status = "playing"
    BY <1>2, <1>3 DEF Keyed, Database, RoomsAreKeyed
  <2> QED BY <2>1, <2>2 DEF Database, RunsAreRecorded
<1> QED BY <1>2, <1>3 DEF CopyLags, Keyed

LEMMA KeptCopies ==
    ASSUME NEW r \in Room, CopyLags(r), seen'[r] = seen[r],
           record'[r].key # NoKey /\ seen[r].key # NoKey =>
               record'[r].key = record[r].key /\ record'[r].players = record[r].players,
           seen[r].key # NoKey /\ run'[seen[r].key].status # "none" =>
               run'[seen[r].key].players = seen[r].players
    PROVE  CopyLags(r)'
BY DEF CopyLags, Keyed

LEMMA IdleTasks ==
    ASSUME NEW r \in Room, task'[r] = Idle
    PROVE  TaskIsSound(r)' /\ Exclusive(r)
BY DEF TaskIsSound, Idle, Exclusive, Busy, Creating

------------------------------------------------------------------------------
(* How a task moves *)

\* What the task of one room becomes, the others staying as they are.
Moves(r, stage) ==
    /\ task'[r].stage = stage /\ task'[r].leaving = task[r].leaving /\ task'[r].who = task[r].who
    /\ task'[r].key = task[r].key
    /\ \A s \in Room : s # r => task'[s] = task[s]

LEMMA GoMoves ==
    ASSUME RuntimeTyped, NEW r \in Room, NEW stage \in Stage, Go(r, stage)
    PROVE  Moves(r, stage) /\ task'[r].tries = task[r].tries
<1>1. task \in [Room -> TaskState] /\ task[r] \in TaskState
  BY DEF RuntimeTyped
<1>2. task'[r] = [task[r] EXCEPT !.stage = stage] /\ \A s \in Room : s # r => task'[s] = task[s]
  BY <1>1 DEF Go
<1> QED BY <1>1, <1>2 DEF Moves, TaskState

LEMMA TryMoves ==
    ASSUME RuntimeTyped, NEW r \in Room,
           task' = [task EXCEPT ![r].stage = "reread", ![r].tries = @ + 1]
    PROVE  Moves(r, "reread")
<1>1. task \in [Room -> TaskState] /\ task[r] \in TaskState
  BY DEF RuntimeTyped
<1>2. /\ task'[r] = [[task[r] EXCEPT !.stage = "reread"] EXCEPT !.tries = task[r].tries + 1]
      /\ \A s \in Room : s # r => task'[s] = task[s]
  BY <1>1
<1>3. /\ task'[r].stage = "reread" /\ task'[r].leaving = task[r].leaving /\ task'[r].who = task[r].who
      /\ task'[r].key = task[r].key
  BY <1>1, <1>2 DEF TaskState
<1> QED BY <1>2, <1>3 DEF Moves

LEMMA TriesMove ==
    ASSUME RuntimeTyped, NEW r \in Room, NEW n, task' = [task EXCEPT ![r].tries = n]
    PROVE  Moves(r, task[r].stage)
<1>1. task \in [Room -> TaskState] /\ task[r] \in TaskState
  BY DEF RuntimeTyped
<1>2. /\ task'[r] = [task[r] EXCEPT !.tries = n]
      /\ \A s \in Room : s # r => task'[s] = task[s]
  BY <1>1
<1> QED BY <1>1, <1>2 DEF Moves, TaskState

LEMMA FinishedMoves ==
    ASSUME RuntimeTyped, NEW r \in Room, NEW copy, Finished(r, copy)
    PROVE  /\ task'[r] = Idle /\ seen'[r] = copy
           /\ \A s \in Room : s # r => task'[s] = task[s] /\ seen'[s] = seen[s]
BY DEF RuntimeTyped, Finished

LEMMA BegunMoves ==
    ASSUME RuntimeTyped, NEW r \in Room, NEW stage, NEW leaving, NEW who, NEW key,
           Begun(r, stage, leaving, who, key)
    PROVE  /\ task'[r].stage = stage /\ task'[r].leaving = leaving /\ task'[r].who = who
           /\ task'[r].key = key /\ task'[r].tries = 0
           /\ \A s \in Room : s # r => task'[s] = task[s]
BY DEF RuntimeTyped, Begun

\* The end of work that changed nothing but the room's copy.
LEMMA FinishingIsSound ==
    ASSUME RecordsTyped, RuntimeTyped, Database, Process, RecordsTyped', RuntimeTyped', Database',
           NEW r \in Room, up, up' = up, record' = record, run' = run, job' = job,
           installed' = installed, reserved' = reserved,
           Finished(r, record[r]) \/ Finished(r, seen[r])
    PROVE  Process'
<1>1. /\ task'[r] = Idle /\ (seen'[r] = record[r] \/ seen'[r] = seen[r])
      /\ \A s \in Room : s # r => task'[s] = task[s] /\ seen'[s] = seen[s]
  BY FinishedMoves
<1>2. CopyLags(r)'
  <2>1. CASE seen'[r] = record[r]
    BY <2>1, FreshCopies
  <2>2. CASE seen'[r] = seen[r]
    <3>1. CopyLags(r)
      BY KeysOfRooms
    <3>2. seen[r].key # NoKey /\ run'[seen[r].key].status # "none" => run'[seen[r].key].players = seen[r].players
      BY <3>1 DEF CopyLags
    <3> QED BY <2>2, <3>1, <3>2, KeptCopies
  <2> QED BY <1>1, <2>1, <2>2
<1>3. TaskIsSound(r)' /\ Exclusive(r)
  BY <1>1, IdleTasks
<1>4. Local(r)
  BY <1>1 DEF Local
<1>5. GamesAreOpen'
  BY SameGames
<1> QED BY <1>2, <1>3, <1>4, <1>5, LocalSteps

\* A task goes on to a stage in which nothing more is asked of it than before, and the
\* copy stays or is read anew.
LEMMA MovingIsSound ==
    ASSUME RecordsTyped, RuntimeTyped, Database, Process, RecordsTyped', RuntimeTyped', Database',
           NEW r \in Room, up, up' = up, record' = record, run' = run, job' = job,
           installed' = installed,
           reserved \subseteq reserved' \/ (Busy(r) /\ reserved' = reserved \ task[r].who),
           \A s \in Room : s # r => task'[s] = task[s] /\ seen'[s] = seen[s],
           seen'[r] = record[r] \/ seen'[r] = seen[r],
           Exclusive(r), TaskIsSound(r)'
    PROVE  Process'
<1>1. CopyLags(r)'
  <2>1. CASE seen'[r] = record[r]
    BY <2>1, FreshCopies
  <2>2. CASE seen'[r] = seen[r]
    <3>1. CopyLags(r)
      BY KeysOfRooms
    <3>2. seen[r].key # NoKey /\ run'[seen[r].key].status # "none" => run'[seen[r].key].players = seen[r].players
      BY <3>1 DEF CopyLags
    <3> QED BY <2>2, <3>1, <3>2, KeptCopies
  <2> QED BY <2>1, <2>2
<1>2. Local(r)
  BY DEF Local
<1>3. GamesAreOpen'
  BY SameGames
<1> QED BY <1>1, <1>2, <1>3, LocalSteps

------------------------------------------------------------------------------
(* The work that only reads *)

\* At which stages a task starts a game, and at which it takes somebody out.
LEMMA StagesOfTasks ==
    ASSUME RecordsTyped, RuntimeTyped, Database, Process, NEW r \in Room, task[r].stage # "none"
    PROVE  /\ up /\ task[r].leaving \in BOOLEAN
           /\ task[r].stage \in Creating \cup {"accept", "begin", "reread", "done"} =>
                 ~task[r].leaving /\ StartIsSound(r, task[r]) /\ task[r].key \in Key
           /\ task[r].stage = "leave" => task[r].leaving /\ DepartureIsSound(r, task[r])
           /\ task[r].stage = "depart" => task[r].leaving /\ DepartureIsSound(r, task[r])
<1>1. TaskIsSound(r) /\ task[r] \in TaskState
  BY KeysOfRooms
<1>2. task[r].leaving \in BOOLEAN /\ task[r].key \in Key \cup {NoKey}
  BY <1>1 DEF TaskState
<1>3. up
  BY <1>1 DEF TaskIsSound
<1>4. ASSUME task[r].stage \in Creating \cup {"accept", "begin", "reread", "done"}
      PROVE  ~task[r].leaving /\ StartIsSound(r, task[r]) /\ task[r].key \in Key
  <2>1. ~task[r].leaving
    BY <1>1, <1>4 DEF TaskIsSound, DepartureIsSound, Undoing, Creating
  <2> QED BY <1>1, <1>2, <2>1 DEF TaskIsSound, StartIsSound
<1>5. ASSUME task[r].stage \in {"leave", "depart"} PROVE task[r].leaving /\ DepartureIsSound(r, task[r])
  <2>1. task[r].leaving
    BY <1>1, <1>5 DEF TaskIsSound, StartIsSound
  <2> QED BY <1>1, <2>1 DEF TaskIsSound
<1> QED BY <1>2, <1>3, <1>4, <1>5

LEMMA BeginCreationIsSound ==
    ASSUME RecordsTyped, RuntimeTyped, Database, Process, RecordsTyped', RuntimeTyped', Database',
           NEW r \in Room, BeginCreation(r)
    PROVE  Process'
<1>1. /\ task[r].stage = "begin" /\ UNCHANGED <<durableVars, up, seen, installed, retry, faults>>
  BY DEF BeginCreation, At
<1>2. up /\ ~task[r].leaving /\ StartIsSound(r, task[r]) /\ task[r].key \in Key /\ TaskIsSound(r)
  BY <1>1, StagesOfTasks, KeysOfRooms
<1>3. record' = record /\ run' = run /\ job' = job /\ up' = up /\ seen' = seen /\ installed' = installed
  BY <1>1 DEF durableVars
<1>4. CASE /\ task' = [task EXCEPT ![r].stage = "reread", ![r].tries = @ + 1]
           /\ reserved' = reserved
  <2>1. Moves(r, "reread")
    BY <1>4, TryMoves
  <2>2. StartIsSound(r, task[r])'
    BY <1>1, <1>2, <1>3, <2>1 DEF StartIsSound, Moves, Creating, Created
  <2>3. TaskIsSound(r)' /\ Exclusive(r)
    BY <1>2, <1>3, <2>1, <2>2 DEF TaskIsSound, Exclusive, Busy, Moves, Creating
  <2>4. \A s \in Room : s # r => task'[s] = task[s]
    BY <2>1 DEF Moves
  <2> QED BY <1>2, <1>3, <1>4, <2>3, <2>4, MovingIsSound
<1>5. CASE /\ ~\E p \in task[r].who : Occupied(p)
           /\ Go(r, "create") /\ reserved' = reserved \cup task[r].who
  <2>1. Moves(r, "create") /\ task'[r].tries = task[r].tries
    BY <1>5, GoMoves DEF Stage
  <2>2. task[r].key \notin installed
    <3>1. SUFFICES ASSUME task[r].key \in installed PROVE FALSE
      OBVIOUS
    <3>2. run[task[r].key].status = "open"
      BY <3>1 DEF Process, GamesAreOpen, Unfinished
    <3>3. run[task[r].key].players = task[r].who /\ task[r].who # {}
      BY <1>1, <1>2, <3>2 DEF StartIsSound
    <3> QED BY <1>5, <3>1, <3>3 DEF Occupied
  <2>3. StartIsSound(r, task[r])'
    BY <1>1, <1>2, <1>3, <1>5, <2>1, <2>2 DEF StartIsSound, Moves, Creating, Created
  <2>4. TaskIsSound(r)'
    BY <1>1, <1>2, <1>3, <2>1, <2>3 DEF TaskIsSound, Moves, Creating
  <2>5. Exclusive(r)
    BY <1>5, <2>1 DEF Exclusive, Moves, Occupied
  <2>6. \A s \in Room : s # r => task'[s] = task[s]
    BY <2>1 DEF Moves
  <2> QED BY <1>2, <1>3, <1>5, <2>4, <2>5, <2>6, MovingIsSound
<1> QED BY <1>4, <1>5 DEF BeginCreation

LEMMA CheckSessionsIsSound ==
    ASSUME RecordsTyped, RuntimeTyped, Database, Process, RecordsTyped', RuntimeTyped', Database',
           NEW r \in Room, CheckSessions(r)
    PROVE  Process'
<1>1. /\ task[r].stage = "check" /\ UNCHANGED <<durableVars, up, seen, installed, reserved, retry, faults>>
      /\ Go(r, "open") \/ Go(r, "abort")
  BY DEF CheckSessions, At
<1>2. up /\ ~task[r].leaving /\ StartIsSound(r, task[r]) /\ task[r].key \in Key /\ TaskIsSound(r)
  BY <1>1, StagesOfTasks, KeysOfRooms DEF Creating
<1>3. /\ record' = record /\ run' = run /\ job' = job /\ up' = up /\ seen' = seen
      /\ installed' = installed /\ reserved' = reserved
  BY <1>1 DEF durableVars
<1>4. (Moves(r, "open") \/ Moves(r, "abort")) /\ task'[r].tries = task[r].tries
  BY <1>1, GoMoves DEF Stage
<1>5. StartIsSound(r, task[r])'
  BY <1>1, <1>2, <1>3, <1>4 DEF StartIsSound, Moves, Creating, Created
<1>6. TaskIsSound(r)' /\ Exclusive(r)
  BY <1>1, <1>2, <1>3, <1>4, <1>5 DEF TaskIsSound, Exclusive, Busy, Moves, Creating
<1>7. \A s \in Room : s # r => task'[s] = task[s]
  BY <1>4 DEF Moves
<1> QED BY <1>2, <1>3, <1>6, <1>7, MovingIsSound

LEMMA RereadRoomIsSound ==
    ASSUME RecordsTyped, RuntimeTyped, Database, Process, RecordsTyped', RuntimeTyped', Database',
           NEW r \in Room, RereadRoom(r)
    PROVE  Process'
<1>1. /\ task[r].stage = "reread" /\ UNCHANGED <<durableVars, up, installed, reserved>>
  BY DEF RereadRoom, At
<1>2. up /\ ~task[r].leaving /\ StartIsSound(r, task[r]) /\ task[r].key \in Key /\ TaskIsSound(r)
  BY <1>1, StagesOfTasks, KeysOfRooms
<1>3. /\ record' = record /\ run' = run /\ job' = job /\ up' = up
      /\ installed' = installed /\ reserved' = reserved
  BY <1>1 DEF durableVars
<1>4. CASE Finished(r, record[r]) \/ Finished(r, seen[r])
  BY <1>2, <1>3, <1>4, FinishingIsSound
<1>5. CASE /\ Unresolved(record[r]) /\ record[r].status \notin {"waiting", "closed"}
           /\ Go(r, IF task[r].tries < 2 THEN "begin" ELSE "cancel")
           /\ seen' = [seen EXCEPT ![r] = record[r]] /\ retry' = retry
  <2>1. /\ seen'[r] = record[r] /\ \A s \in Room : s # r => seen'[s] = seen[s]
    BY <1>5 DEF RuntimeTyped
  <2>2. /\ task'[r].tries = task[r].tries
        /\ (Moves(r, "begin") /\ task[r].tries < 2) \/ Moves(r, "cancel")
    BY <1>5, GoMoves DEF Stage
  <2>3. record[r].key \notin installed
    <3>1. CASE record[r].status = "playing"
      BY <1>5, <3>1 DEF Unresolved
    <3>2. CASE record[r].status = "starting"
      BY <3>2 DEF Database, RoomsAreKeyed, Process, GamesAreOpen, Unfinished
    <3> QED BY <1>5, <3>1, <3>2 DEF Unresolved
  <2>4. StartIsSound(r, task[r])'
    BY <1>1, <1>2, <1>3, <2>2 DEF StartIsSound, Moves, Creating, Created
  <2>5. task[r] \in TaskState
    BY DEF RuntimeTyped
  <2>6. task[r].tries < 2 => task[r].tries <= 1
    BY <2>5 DEF TaskState
  <2>7. TaskIsSound(r)' /\ Exclusive(r)
    BY <1>1, <1>2, <1>3, <2>1, <2>2, <2>3, <2>4, <2>6 DEF TaskIsSound, Exclusive, Busy, Moves, Creating
  <2>8. \A s \in Room : s # r => task'[s] = task[s]
    BY <2>2 DEF Moves
  <2> QED BY <1>2, <1>3, <2>1, <2>7, <2>8, MovingIsSound
<1> QED BY <1>4, <1>5 DEF RereadRoom

LEMMA ReadStartedIsSound ==
    ASSUME RecordsTyped, RuntimeTyped, Database, Process, RecordsTyped', RuntimeTyped', Database',
           NEW r \in Room, ReadStarted(r)
    PROVE  Process'
<1>1. /\ task[r].stage = "done" /\ UNCHANGED <<durableVars, up, installed, reserved>>
  BY DEF ReadStarted, At
<1>2. up /\ ~task[r].leaving /\ StartIsSound(r, task[r]) /\ task[r].key \in Key /\ TaskIsSound(r)
  BY <1>1, StagesOfTasks, KeysOfRooms
<1>3. /\ record' = record /\ run' = run /\ job' = job /\ up' = up
      /\ installed' = installed /\ reserved' = reserved
  BY <1>1 DEF durableVars
<1>4. CASE Finished(r, record[r])
  BY <1>2, <1>3, <1>4, FinishingIsSound
<1>5. CASE /\ task' = [task EXCEPT ![r].stage = "reread", ![r].tries = @ + 1]
           /\ UNCHANGED <<seen, retry>>
  <2>1. Moves(r, "reread")
    BY <1>5, TryMoves
  <2>2. StartIsSound(r, task[r])'
    BY <1>1, <1>2, <1>3, <1>5, <2>1 DEF StartIsSound, Moves, Creating, Created
  <2>3. TaskIsSound(r)' /\ Exclusive(r)
    BY <1>2, <1>3, <2>1, <2>2 DEF TaskIsSound, Exclusive, Busy, Moves, Creating
  <2>4. \A s \in Room : s # r => task'[s] = task[s]
    BY <2>1 DEF Moves
  <2> QED BY <1>2, <1>3, <1>5, <2>3, <2>4, MovingIsSound
<1> QED BY <1>4, <1>5 DEF ReadStarted

\* A room that somebody is in, that has no game and no start, waits.
LEMMA InhabitedRooms ==
    ASSUME RecordsTyped, Database, NEW r \in Room, record[r].players # {},
           record[r].status \notin {"starting", "playing"}
    PROVE  record[r].status = "waiting" /\ record[r].key = NoKey
<1>1. Keyed(record[r], r) /\ record[r] \in RoomState
  BY DEF Database, RoomsAreKeyed, RecordsTyped
<1> QED BY <1>1 DEF Keyed, RoomState

LEMMA ReadCancelledIsSound ==
    ASSUME RecordsTyped, RuntimeTyped, Database, Process, RecordsTyped', RuntimeTyped', Database',
           NEW r \in Room, ReadCancelled(r)
    PROVE  Process'
<1>1. /\ task[r].stage = "cancelled" /\ UNCHANGED <<durableVars, up, installed, reserved>>
  BY DEF ReadCancelled, At
<1>2. up /\ task[r].leaving \in BOOLEAN /\ TaskIsSound(r)
  BY <1>1, StagesOfTasks, KeysOfRooms
<1>3. /\ record' = record /\ run' = run /\ job' = job /\ up' = up
      /\ installed' = installed /\ reserved' = reserved
  BY <1>1 DEF durableVars
<1>4. CASE Finished(r, record[r]) \/ Finished(r, seen[r])
  BY <1>2, <1>3, <1>4, FinishingIsSound
<1>5. CASE /\ seen' = [seen EXCEPT ![r] = record[r]]
           /\ \/ record[r].status = "starting" /\ Go(r, "reset")
              \/ record[r].status # "starting" /\ task[r].leaving /\ Go(r, "depart")
  <2>1. /\ seen'[r] = record[r] /\ \A s \in Room : s # r => seen'[s] = seen[s]
    BY <1>5 DEF RuntimeTyped
  <2>2. \/ record[r].status = "starting" /\ Moves(r, "reset")
        \/ record[r].status # "starting" /\ task[r].leaving /\ Moves(r, "depart")
    BY <1>5, GoMoves DEF Stage
  <2>3. CASE ~task[r].leaving
    <3>1. StartIsSound(r, task[r]) /\ record[r].status = "starting" /\ Moves(r, "reset")
      BY <1>1, <1>2, <2>2, <2>3 DEF TaskIsSound
    <3>2. StartIsSound(r, task[r])'
      BY <1>1, <1>3, <3>1 DEF StartIsSound, Moves, Creating, Created
    <3>3. TaskIsSound(r)' /\ Exclusive(r)
      BY <1>2, <1>3, <2>1, <2>3, <3>1, <3>2 DEF TaskIsSound, Exclusive, Busy, Moves, Creating
    <3> QED BY <1>2, <1>3, <2>1, <3>1, <3>3, MovingIsSound DEF Moves
  <2>4. CASE task[r].leaving
    <3>1. DepartureIsSound(r, task[r]) /\ record[r].status # "playing"
      BY <1>1, <1>2, <2>4 DEF TaskIsSound
    <3>2. task[r].who \subseteq record[r].players /\ record[r].key \notin installed /\ task[r].who # {}
      BY <1>1, <3>1 DEF DepartureIsSound, Undoing
    <3>3. record[r].status # "starting" => record[r].status = "waiting"
      BY <3>1, <3>2, InhabitedRooms
    <3>4. DepartureIsSound(r, task[r])'
      BY <1>3, <2>2, <3>2, <3>3 DEF DepartureIsSound, Undoing, Moves
    <3>5. TaskIsSound(r)' /\ Exclusive(r)
      BY <1>2, <1>3, <2>1, <2>2, <2>4, <3>4 DEF TaskIsSound, Exclusive, Busy, Moves, Creating
    <3>6. \A s \in Room : s # r => task'[s] = task[s]
      BY <2>2 DEF Moves
    <3> QED BY <1>2, <1>3, <2>1, <3>5, <3>6, MovingIsSound
  <2> QED BY <1>2, <2>3, <2>4
<1> QED BY <1>4, <1>5 DEF ReadCancelled

LEMMA ReadBeforeLeavingIsSound ==
    ASSUME RecordsTyped, RuntimeTyped, Database, Process, RecordsTyped', RuntimeTyped', Database',
           NEW r \in Room, ReadBeforeLeaving(r)
    PROVE  Process'
<1>1. /\ task[r].stage = "leave" /\ UNCHANGED <<durableVars, up, installed, reserved>>
  BY DEF ReadBeforeLeaving, At
<1>2. up /\ task[r].leaving /\ DepartureIsSound(r, task[r]) /\ TaskIsSound(r)
  BY <1>1, StagesOfTasks, KeysOfRooms
<1>3. /\ record' = record /\ run' = run /\ job' = job /\ up' = up
      /\ installed' = installed /\ reserved' = reserved
  BY <1>1 DEF durableVars
<1>4. CASE Finished(r, record[r]) \/ Finished(r, seen[r])
  BY <1>2, <1>3, <1>4, FinishingIsSound
<1>5. CASE /\ task[r].who \subseteq record[r].players /\ record[r].key \notin installed
           /\ task' = [task EXCEPT ![r].stage = IF record[r].key # NoKey THEN "cancel" ELSE "depart",
                                   ![r].tries = 2]
           /\ seen' = [seen EXCEPT ![r] = record[r]]
  <2>1. /\ seen'[r] = record[r] /\ \A s \in Room : s # r => seen'[s] = seen[s]
    BY <1>5 DEF RuntimeTyped
  <2>2. task[r] \in TaskState /\ task \in [Room -> TaskState]
    BY DEF RuntimeTyped
  <2>3. PICK stage \in {"cancel", "depart"} : stage = IF record[r].key # NoKey THEN "cancel" ELSE "depart"
    OBVIOUS
  <2>4. /\ task'[r] = [[task[r] EXCEPT !.stage = stage] EXCEPT !.tries = 2]
        /\ \A s \in Room : s # r => task'[s] = task[s]
    BY <1>5, <2>2, <2>3
  <2>5. /\ task'[r].stage = stage /\ task'[r].leaving = task[r].leaving /\ task'[r].who = task[r].who
    BY <2>2, <2>4 DEF TaskState
  <2>6. stage = "depart" => record[r].status = "waiting"
    <3>1. stage = "depart" => record[r].key = NoKey
      BY <2>3
    <3>2. task[r].who # {}
      BY <1>2 DEF DepartureIsSound
    <3>3. record[r].key = NoKey => record[r].status \notin {"starting", "playing"}
      BY DEF Database, RoomsAreKeyed, Keyed
    <3> QED BY <1>5, <3>1, <3>2, <3>3, InhabitedRooms
  <2>7. DepartureIsSound(r, task[r])'
    BY <1>2, <1>3, <1>5, <2>3, <2>5, <2>6 DEF DepartureIsSound, Undoing
  <2>8. TaskIsSound(r)' /\ Exclusive(r)
    <3>1. task'[r].stage \in {"cancel", "depart"} /\ task'[r].leaving
      BY <1>2, <2>5
    <3>2. seen'[r].key \notin installed' /\ up'
      BY <1>2, <1>3, <1>5, <2>1
    <3>3. TaskIsSound(r)'
      BY <2>7, <3>1, <3>2 DEF TaskIsSound, Creating
    <3> QED BY <3>1, <3>3 DEF Exclusive, Busy, Creating
  <2> QED BY <1>2, <1>3, <2>1, <2>4, <2>8, MovingIsSound
<1> QED BY <1>4, <1>5 DEF ReadBeforeLeaving

------------------------------------------------------------------------------
(* The steps that begin work *)

LEMMA ReadyToStartIsSound ==
    ASSUME RecordsTyped, RuntimeTyped, Database, Process, RecordsTyped', RuntimeTyped', Database',
           NEW r \in Room, ReadyToStart(r)
    PROVE  Process'
<1>1. /\ Free(r) /\ seen[r] = record[r] /\ record[r].status = "waiting"
      /\ Cardinality(record[r].players) = 2
      /\ UNCHANGED <<durableVars, up, seen, installed, reserved, retry, faults>>
  BY DEF ReadyToStart
<1>2. PICK n \in 1..MaxAttempts : /\ run[<<r, n>>].status = "none"
                                  /\ Begun(r, "accept", FALSE, record[r].players, <<r, n>>)
  BY DEF ReadyToStart
<1>3. /\ record' = record /\ run' = run /\ job' = job /\ up' = up /\ up /\ seen' = seen
      /\ installed' = installed /\ reserved' = reserved
  BY <1>1 DEF durableVars, Free
<1>4. record[r].players # {}
  BY <1>1, FS_EmptySet
<1>5. /\ task'[r].stage = "accept" /\ task'[r].leaving = FALSE /\ task'[r].who = record[r].players
      /\ task'[r].key = <<r, n>> /\ task'[r].tries = 0
      /\ \A s \in Room : s # r => task'[s] = task[s]
  BY <1>2, BegunMoves
<1>6. <<r, n>> # NoKey /\ RoomOf(<<r, n>>) = r
  BY KeyFacts DEF RoomOf, Key
<1>7. StartIsSound(r, task[r])'
  BY <1>1, <1>2, <1>3, <1>4, <1>5, <1>6 DEF StartIsSound, Creating, Created
<1>8. TaskIsSound(r)'
  BY <1>3, <1>5, <1>7 DEF TaskIsSound
<1>9. Exclusive(r)
  BY <1>5 DEF Exclusive, Busy, Creating
<1> QED BY <1>3, <1>5, <1>8, <1>9, MovingIsSound

LEMMA ResumeIsSound ==
    ASSUME RecordsTyped, RuntimeTyped, Database, Process, RecordsTyped', RuntimeTyped', Database',
           NEW r \in Room, Resume(r)
    PROVE  Process'
<1>1. /\ Free(r) /\ UNCHANGED <<durableVars, up, seen, installed, reserved, faults>>
  BY DEF Resume
<1>2. /\ record' = record /\ run' = run /\ job' = job /\ up' = up /\ up /\ seen' = seen
      /\ installed' = installed /\ reserved' = reserved /\ task[r] = Idle
  BY <1>1 DEF durableVars, Free
<1>3. CASE task' = task
  BY <1>2, <1>3, IdleTasks, MovingIsSound
<1>4. CASE Unresolved(seen[r]) /\ Begun(r, "begin", FALSE, seen[r].players, seen[r].key)
  <2>1. CopyLags(r) /\ Keyed(seen[r], r)
    BY KeysOfRooms DEF CopyLags
  <2>2. seen[r].key # NoKey /\ RoomOf(seen[r].key) = r /\ seen[r].players # {}
    BY <1>4, <2>1 DEF Keyed, Unresolved
  <2>3. /\ task'[r].stage = "begin" /\ task'[r].leaving = FALSE /\ task'[r].who = seen[r].players
        /\ task'[r].key = seen[r].key /\ task'[r].tries = 0
        /\ \A s \in Room : s # r => task'[s] = task[s]
    BY <1>4, BegunMoves
  <2>4. StartIsSound(r, task[r])'
    BY <1>2, <2>1, <2>2, <2>3 DEF StartIsSound, Creating, Created, CopyLags
  <2>5. TaskIsSound(r)'
    BY <1>2, <2>3, <2>4 DEF TaskIsSound
  <2>6. Exclusive(r)
    BY <2>3 DEF Exclusive, Busy, Creating
  <2> QED BY <1>2, <2>3, <2>5, <2>6, MovingIsSound
<1> QED BY <1>3, <1>4 DEF Resume

LEMMA LeaveRoomIsSound ==
    ASSUME RecordsTyped, RuntimeTyped, Database, Process, RecordsTyped', RuntimeTyped', Database',
           NEW r \in Room, NEW p \in Player, LeaveRoom(p, r)
    PROVE  Process'
<1>1. /\ Free(r) /\ UNCHANGED <<durableVars, up, seen, installed, reserved, retry, faults>>
      /\ Begun(r, "leave", TRUE, {p}, NoKey)
  BY DEF LeaveRoom
<1>2. /\ record' = record /\ run' = run /\ job' = job /\ up' = up /\ up /\ seen' = seen
      /\ installed' = installed /\ reserved' = reserved
  BY <1>1 DEF durableVars, Free
<1>3. /\ task'[r].stage = "leave" /\ task'[r].leaving = TRUE /\ task'[r].who = {p} /\ task'[r].tries = 0
      /\ \A s \in Room : s # r => task'[s] = task[s]
  BY <1>1 DEF Begun, RuntimeTyped
<1>4. DepartureIsSound(r, task[r])'
  BY <1>2, <1>3 DEF DepartureIsSound, Undoing
<1>5. TaskIsSound(r)'
  BY <1>2, <1>3, <1>4 DEF TaskIsSound
<1>6. Exclusive(r)
  BY <1>3 DEF Exclusive, Busy, Creating
<1> QED BY <1>2, <1>3, <1>5, <1>6, MovingIsSound

LEMMA RefreshIsSound ==
    ASSUME RecordsTyped, RuntimeTyped, Database, Process, RecordsTyped', RuntimeTyped', Database',
           NEW r \in Room, Refresh(r)
    PROVE  Process'
<1>1. /\ record' = record /\ run' = run /\ job' = job /\ up' = up /\ up
      /\ installed' = installed /\ reserved' = reserved /\ task' = task /\ task[r] = Idle
      /\ seen'[r] = record[r] /\ \A s \in Room : s # r => seen'[s] = seen[s]
  BY DEF Refresh, durableVars, Free, RuntimeTyped
<1> QED BY <1>1, IdleTasks, MovingIsSound

LEMMA AbandonLeavingIsSound ==
    ASSUME RecordsTyped, RuntimeTyped, Database, Process, RecordsTyped', RuntimeTyped', Database',
           NEW r \in Room, AbandonLeaving(r)
    PROVE  Process'
<1>1. up /\ Finished(r, seen[r]) /\ UNCHANGED <<durableVars, up, installed, reserved, faults>>
  BY DEF AbandonLeaving, At
<1>2. /\ record' = record /\ run' = run /\ job' = job /\ up' = up
      /\ installed' = installed /\ reserved' = reserved
  BY <1>1 DEF durableVars
<1> QED BY <1>1, <1>2, FinishingIsSound

\* A step that leaves all of it as it was, but for settled runs.
LEMMA QuietSteps ==
    ASSUME RecordsTyped, RuntimeTyped, Database, Process, RuntimeTyped',
           record' = record, up' = up, seen' = seen, installed' = installed, reserved' = reserved,
           task' = task, GamesAreOpen',
           \A k \in Key : /\ run'[k].players = run[k].players
                          /\ \/ run'[k].status = run[k].status
                             \/ run[k].status = "open" /\ run'[k].status = "settled"
    PROVE  Process'
<1>1. ASSUME NEW s \in Room PROVE CopyLags(s)' /\ TaskIsSound(s)'
  <2>1. Steady(s)
    BY DEF Steady
  <2> QED BY <2>1, SteadyCopies, SteadyTasks
<1>2. DownIsEmpty' /\ Reservations'
  BY DEF Process, DownIsEmpty, Reservations, Busy
<1> QED BY <1>1, <1>2 DEF Process

LEMMA RetryFiresIsSound ==
    ASSUME RecordsTyped, RuntimeTyped, Database, Process, RecordsTyped', RuntimeTyped', Database',
           NEW r \in Room, RetryFires(r)
    PROVE  Process'
<1>1. CASE Resume(r)
  BY <1>1, ResumeIsSound
<1>2. CASE UNCHANGED <<durableVars, up, seen, installed, reserved, task, faults>>
  <2>1. /\ record' = record /\ run' = run /\ job' = job /\ up' = up /\ seen' = seen
        /\ installed' = installed /\ reserved' = reserved /\ task' = task
    BY <1>2 DEF durableVars
  <2> QED BY <2>1, SameGames, QuietSteps
<1> QED BY <1>1, <1>2 DEF RetryFires

------------------------------------------------------------------------------
(* The games and their settlement *)

LEMMA PlayIsSound ==
    ASSUME RecordsTyped, RuntimeTyped, Database, Process, RuntimeTyped', NEW k \in Key, Play(k)
    PROVE  Process'
<1>1. /\ run' = [run EXCEPT ![k].board = "started"]
      /\ record' = record /\ job' = job /\ up' = up /\ seen' = seen
      /\ installed' = installed /\ reserved' = reserved /\ task' = task
  BY DEF Play, runtimeVars
<1>2. \A x \in Key : run'[x].status = run[x].status /\ run'[x].players = run[x].players
  BY <1>1 DEF RecordsTyped, RunState
<1>3. GamesAreOpen'
  BY <1>1, <1>2 DEF Process, GamesAreOpen, Unfinished, RuntimeTyped
<1> QED BY <1>1, <1>2, <1>3, QuietSteps

LEMMA SettleIsSound ==
    ASSUME RecordsTyped, RuntimeTyped, Database, Process, RuntimeTyped', NEW k \in Key, Settle(k)
    PROVE  Process'
<1>1. /\ Unsettled(k) /\ run' = [run EXCEPT ![k].status = "settled"]
      /\ record' = record /\ job' = job /\ up' = up /\ seen' = seen
      /\ installed' = installed /\ reserved' = reserved /\ task' = task
  BY DEF Settle, runtimeVars
<1>2. /\ run[k].status = "open" /\ run'[k].status = "settled"
      /\ \A x \in Key : run'[x].players = run[x].players /\ (x # k => run'[x].status = run[x].status)
  BY <1>1 DEF RecordsTyped, RunState, Unsettled
<1>3. GamesAreOpen'
  <2>1. k \notin installed
    BY <1>1 DEF Process, GamesAreOpen, Unfinished, Unsettled
  <2> QED BY <1>1, <1>2, <2>1 DEF Process, GamesAreOpen, Unfinished, RuntimeTyped
<1> QED BY <1>1, <1>2, <1>3, QuietSteps

LEMMA EndGameIsSound ==
    ASSUME RecordsTyped, RuntimeTyped, Database, Process, RecordsTyped', RuntimeTyped', Database',
           NEW k \in Key, EndGame(k)
    PROVE  Process'
<1> DEFINE r == RoomOf(k)
<1>1. r \in Room /\ Unfinished(k) /\ record[r].status = "playing" /\ record[r].key = k
  BY KeyFacts DEF EndGame, Process, GamesAreOpen, Database, RunsAreRecorded
<1>2. PICK o : job' = [job EXCEPT ![k] = o]
  BY DEF EndGame
<1>3. /\ up /\ up' = up /\ k \in installed
      /\ run' = [run EXCEPT ![k].board = "over"] /\ record' = [record EXCEPT ![r] = Closed]
      /\ seen' = [seen EXCEPT ![r] = Closed] /\ installed' = installed \ {k}
      /\ task' = task /\ reserved' = reserved
  BY DEF EndGame
<1>4. Closed.status = "closed" /\ Closed.key = NoKey
  BY DEF Closed, Absent
<1>5. /\ record'[r] = Closed /\ seen'[r] = Closed
      /\ \A s \in Room : s # r => record'[s] = record[s] /\ seen'[s] = seen[s]
  BY <1>1, <1>3 DEF RecordsTyped, RuntimeTyped
<1>6. /\ \A x \in Key : run'[x].status = run[x].status /\ run'[x].players = run[x].players
      /\ \A x \in Key : x # k => run'[x] = run[x] /\ job'[x] = job[x]
  BY <1>2, <1>3 DEF RecordsTyped, RunState
<1>7. GamesAreOpen'
  BY <1>3, <1>6 DEF Process, GamesAreOpen, Unfinished, RuntimeTyped
<1>8. CopyLags(r)'
  BY <1>1, <1>5, FreshCopies
<1>9. RoomOf(k) = r
  OBVIOUS
<1> HIDE DEF r
<1>10. TaskIsSound(r) /\ task[r] \in TaskState /\ NoKey \notin installed
  BY <1>1, KeysOfRooms, KeyFacts DEF RuntimeTyped
<1>11. ASSUME ~task[r].leaving, task[r].stage # "none" PROVE StartIsSound(r, task[r])'
  <2>1. StartIsSound(r, task[r]) /\ task[r].stage # "accept"
    BY <1>1, <1>10, <1>11 DEF TaskIsSound, StartIsSound
  <2>2. task[r].key \in Key
    BY <1>10, <2>1 DEF StartIsSound, TaskState
  <2> QED BY <1>3, <1>4, <1>5, <1>6, <2>1, <2>2 DEF StartIsSound
<1>12. ASSUME task[r].leaving, task[r].stage # "none" PROVE DepartureIsSound(r, task[r])'
  <2>1. DepartureIsSound(r, task[r])
    BY <1>10, <1>12 DEF TaskIsSound
  <2>2. task[r].stage \notin Undoing
    BY <1>1, <1>3, <2>1 DEF DepartureIsSound
  <2> QED BY <1>3, <2>1, <2>2 DEF DepartureIsSound, Undoing
<1>13. task[r].stage # "reset"
  BY <1>1, <1>10 DEF TaskIsSound
<1>14. TaskIsSound(r)' /\ Exclusive(r)
  <2>1. TaskIsSound(r)'
    BY <1>3, <1>4, <1>5, <1>10, <1>11, <1>12, <1>13 DEF TaskIsSound
  <2> QED BY <1>3, <2>1 DEF Exclusive, Busy
<1>15. Local(r)
  BY <1>3, <1>5, <1>6, <1>9 DEF Local
<1> QED BY <1>1, <1>7, <1>8, <1>14, <1>15, LocalSteps

------------------------------------------------------------------------------
(* The work that writes *)

LEMMA AcceptStartIsSound ==
    ASSUME RecordsTyped, RuntimeTyped, Database, Process, RecordsTyped', RuntimeTyped', Database',
           NEW r \in Room, AcceptStart(r)
    PROVE  Process'
<1> DEFINE new == [seen[r] EXCEPT !.status = "starting", !.key = task[r].key]
<1>1. /\ task[r].stage = "accept"
      /\ UNCHANGED <<run, job, claimVars, moneyVars, up, installed, reserved>>
  BY DEF AcceptStart, At
<1>2. up /\ ~task[r].leaving /\ StartIsSound(r, task[r]) /\ task[r].key \in Key /\ TaskIsSound(r)
  BY <1>1, StagesOfTasks, KeysOfRooms
<1>3. /\ run' = run /\ job' = job /\ up' = up /\ installed' = installed /\ reserved' = reserved
  BY <1>1
<1>4. /\ seen[r] = record[r] /\ record[r].status = "waiting" /\ record[r].players = task[r].who
      /\ run[task[r].key].status = "none" /\ record[r] \in RoomState
  BY <1>1, <1>2, KeysOfRooms DEF StartIsSound
<1>5. record[r].key = NoKey /\ CopyLags(r)
  BY <1>4, KeysOfRooms DEF CopyLags, Keyed
<1>6. new.status = "starting" /\ new.key = task[r].key /\ new.players = record[r].players
  BY <1>4 DEF RoomState
<1>7. \/ /\ record' = [record EXCEPT ![r] = new] /\ seen' = [seen EXCEPT ![r] = new] /\ Go(r, "begin")
      \/ /\ record' = [record EXCEPT ![r] = new] \/ record' = record
         /\ Finished(r, record'[r]) \/ Finished(r, seen[r])
  BY <1>4 DEF AcceptStart, Write, RecordsTyped
<1> HIDE DEF new
<1>8. GamesAreOpen'
  BY <1>3, SameGames
<1>9. \A s \in Room : s # r => record'[s] = record[s]
  BY <1>7 DEF RecordsTyped
<1>10. CASE /\ record' = [record EXCEPT ![r] = new] /\ seen' = [seen EXCEPT ![r] = new]
            /\ Go(r, "begin")
  <2>1. /\ record'[r] = new /\ seen'[r] = new /\ \A s \in Room : s # r => seen'[s] = seen[s]
    BY <1>10 DEF RecordsTyped, RuntimeTyped
  <2>2. Moves(r, "begin") /\ task'[r].tries = task[r].tries
    BY <1>10, GoMoves DEF Stage
  <2>3. StartIsSound(r, task[r])'
    BY <1>1, <1>2, <1>3, <1>4, <1>6, <2>1, <2>2 DEF StartIsSound, Moves, Creating, Created
  <2>4. TaskIsSound(r)' /\ Exclusive(r)
    BY <1>1, <1>2, <1>3, <2>2, <2>3 DEF TaskIsSound, Exclusive, Busy, Moves, Creating
  <2>5. CopyLags(r)'
    BY <2>1, FreshCopies
  <2>6. Local(r)
    BY <1>2, <1>3, <1>9, <2>1, <2>2 DEF Local, Moves
  <2> QED BY <1>8, <2>4, <2>5, <2>6, LocalSteps
<1>11. CASE Finished(r, record'[r]) \/ Finished(r, seen[r])
  <2>1. /\ task'[r] = Idle /\ (seen'[r] = record'[r] \/ seen'[r] = seen[r])
        /\ \A s \in Room : s # r => task'[s] = task[s] /\ seen'[s] = seen[s]
    BY <1>11 DEF Finished, RuntimeTyped
  <2>2. CopyLags(r)'
    BY <1>4, <1>5, <2>1, FreshCopies, KeptCopies
  <2>3. TaskIsSound(r)' /\ Exclusive(r)
    BY <2>1, IdleTasks
  <2>4. Local(r)
    BY <1>2, <1>3, <1>9, <2>1 DEF Local
  <2> QED BY <1>8, <2>2, <2>3, <2>4, LocalSteps
<1> QED BY <1>7, <1>10, <1>11

\* What the cancellation of a run changes.
LEMMA AbortShape ==
    ASSUME RecordsTyped, Database, NEW k \in Key, Unfinished(k), Abort(k)
    PROVE  /\ RoomOf(k) \in Room
           /\ record[RoomOf(k)].status = "playing" /\ record[RoomOf(k)].key = k
           /\ record'[RoomOf(k)].status = "waiting" /\ record'[RoomOf(k)].key = NoKey
           /\ record'[RoomOf(k)].players = record[RoomOf(k)].players
           /\ \A s \in Room : s # RoomOf(k) => record'[s] = record[s]
           /\ run'[k].status = "aborted" /\ \A x \in Key : x # k => run'[x] = run[x]
           /\ \A x \in Key : run'[x].players = run[x].players
           /\ job' = job
<1>1. RoomOf(k) \in Room /\ record[RoomOf(k)].status = "playing" /\ record[RoomOf(k)].key = k
  BY KeyFacts DEF Database, RunsAreRecorded
<1>2. /\ run' = [run EXCEPT ![k].status = "aborted"] /\ job' = job
      /\ record' = [record EXCEPT ![RoomOf(k)].status = "waiting", ![RoomOf(k)].key = NoKey]
  BY DEF Abort, Reopened
<1>3. run[k] \in RunState /\ record[RoomOf(k)] \in RoomState
  BY <1>1 DEF RecordsTyped
<1>4. /\ run'[k].status = "aborted" /\ run'[k].players = run[k].players
      /\ \A x \in Key : x # k => run'[x] = run[x]
  BY <1>2, <1>3 DEF RecordsTyped, RunState
<1>5. /\ record'[RoomOf(k)].status = "waiting" /\ record'[RoomOf(k)].key = NoKey
      /\ record'[RoomOf(k)].players = record[RoomOf(k)].players
      /\ \A s \in Room : s # RoomOf(k) => record'[s] = record[s]
  BY <1>1, <1>2, <1>3 DEF RecordsTyped, RoomState
<1> QED BY <1>1, <1>2, <1>4, <1>5

LEMMA AbortedGames ==
    ASSUME RecordsTyped, RuntimeTyped, Database, Process, NEW k \in Key, Unfinished(k), Abort(k),
           k \notin installed, installed' = installed
    PROVE  GamesAreOpen'
<1>1. job' = job /\ \A x \in Key : x # k => run'[x] = run[x]
  BY AbortShape
<1> QED BY <1>1 DEF Process, GamesAreOpen, Unfinished, RuntimeTyped

LEMMA AbortedCopies ==
    ASSUME RecordsTyped, RuntimeTyped, Database, Process, NEW k \in Key, Unfinished(k), Abort(k),
           NEW s \in Room, RoomOf(k) = s, seen'[s] = seen[s]
    PROVE  CopyLags(s)'
<1>1. /\ record'[s].key = NoKey /\ run'[k].status = "aborted" /\ run[k].status = "open"
      /\ \A x \in Key : run'[x].players = run[x].players /\ (x # k => run'[x] = run[x])
  BY AbortShape DEF Unfinished
<1>2. CopyLags(s) /\ seen[s].key \in Key \cup {NoKey}
  BY KeysOfRooms
<1>3. ASSUME seen[s].key # NoKey, run'[seen[s].key].status # "none"
      PROVE  run'[seen[s].key].players = seen[s].players
  <2>1. run[seen[s].key].status # "none"
    BY <1>1, <1>2, <1>3
  <2> QED BY <1>1, <1>2, <1>3, <2>1 DEF CopyLags
<1> QED BY <1>1, <1>2, <1>3, KeptCopies

\* The task of a room whose run is cancelled by other work, unless it is that run it
\* has created.
LEMMA AbortedTasks ==
    ASSUME RecordsTyped, RuntimeTyped, Database, Process, NEW k \in Key, Unfinished(k), Abort(k),
           NEW s \in Room, RoomOf(k) = s, up' = up, seen'[s] = seen[s], task'[s] = task[s],
           installed' = installed, reserved' = reserved,
           task[s].stage \in Created /\ ~task[s].leaving => task[s].key # k
    PROVE  TaskIsSound(s)'
<1>1. /\ record[s].status = "playing" /\ record[s].key = k
      /\ record'[s].status = "waiting" /\ record'[s].key = NoKey /\ record'[s].players = record[s].players
      /\ run'[k].status = "aborted" /\ run[k].status = "open"
      /\ \A x \in Key : run'[x].players = run[x].players /\ (x # k => run'[x] = run[x])
  BY AbortShape DEF Unfinished
<1>2. TaskIsSound(s) /\ task[s] \in TaskState /\ NoKey \notin installed
  BY KeysOfRooms, KeyFacts DEF RuntimeTyped
<1>3. ASSUME ~task[s].leaving, task[s].stage # "none" PROVE StartIsSound(s, task[s])'
  <2>1. StartIsSound(s, task[s]) /\ task[s].stage # "accept"
    BY <1>1, <1>2, <1>3 DEF TaskIsSound, StartIsSound
  <2>2. task[s].key \in Key
    BY <1>2, <2>1 DEF StartIsSound, TaskState
  <2>3. run'[task[s].key].status # "none" => run'[task[s].key].players = task[s].who
    BY <1>1, <2>1, <2>2 DEF StartIsSound
  <2>4. task[s].stage \in Created => run'[task[s].key].status \in {"open", "settled"}
    BY <1>1, <1>3, <2>1, <2>2 DEF StartIsSound
  <2> QED BY <1>1, <2>1, <2>3, <2>4 DEF StartIsSound
<1>4. ASSUME task[s].leaving, task[s].stage # "none" PROVE DepartureIsSound(s, task[s])'
  <2>1. DepartureIsSound(s, task[s])
    BY <1>2, <1>4 DEF TaskIsSound
  <2> QED BY <1>1, <1>2, <2>1 DEF DepartureIsSound
<1>5. task[s].stage # "reset"
  BY <1>1, <1>2 DEF TaskIsSound
<1> QED BY <1>1, <1>2, <1>3, <1>4, <1>5 DEF TaskIsSound

\* A run left behind elsewhere is cancelled for a person who starts a game here.
LEMMA StaleAbortIsSound ==
    ASSUME RecordsTyped, RuntimeTyped, Database, Process, RuntimeTyped', NEW r \in Room,
           task[r].stage = "create", NEW old \in Stale(r), MayAbort(old), Abort(old),
           UNCHANGED <<runtimeVars, faults>>
    PROVE  Process'
<1> DEFINE s == RoomOf(old)
<1>1. up /\ ~task[r].leaving /\ StartIsSound(r, task[r]) /\ task[r].key \in Key /\ TaskIsSound(r)
  BY StagesOfTasks, KeysOfRooms DEF Creating
<1>2. PICK p \in task[r].who : old = seat[p]
  BY DEF Stale
<1>3. p \in Player /\ old \in Key /\ old # task[r].key /\ old \notin installed /\ Unfinished(old)
  BY <1>2, KeysOfRooms DEF Stale, RecordsTyped, TaskState, MayAbort
<1>4. p \in run[old].players
  BY <1>2, <1>3 DEF Database, SeatsAreTaken
<1>5. /\ up' = up /\ seen' = seen /\ installed' = installed /\ reserved' = reserved /\ task' = task
  BY DEF runtimeVars
<1>6. /\ s \in Room /\ record[s].status = "playing" /\ record[s].key = old
      /\ \A q \in Room : q # s => record'[q] = record[q]
      /\ \A x \in Key : x # old => run'[x] = run[x]
  BY <1>3, AbortShape
<1>7. s # r
  BY <1>1, <1>3, <1>6, KeyFacts DEF StartIsSound
<1>8. RoomOf(old) = s
  OBVIOUS
<1> HIDE DEF s
<1>9. ASSUME task[s].stage \in Created, ~task[s].leaving PROVE task[s].key # old
  <2>1. Busy(s) /\ Busy(r)
    BY <1>9 DEF Busy, Created, Creating
  <2>2. StartIsSound(s, task[s])
    BY <1>6, <1>9, KeysOfRooms DEF TaskIsSound, Created
  <2>3. task[s].key = old => run[old].players = task[s].who
    BY <1>3, <2>2 DEF StartIsSound, Created, Unfinished
  <2> QED BY <1>2, <1>4, <1>6, <1>7, <2>1, <2>3 DEF Process, Reservations
<1>10. CopyLags(s)' /\ TaskIsSound(s)'
  BY <1>3, <1>5, <1>6, <1>8, <1>9, AbortedCopies, AbortedTasks
<1>11. ASSUME NEW q \in Room, q # s PROVE CopyLags(q)' /\ TaskIsSound(q)'
  <2>1. Steady(q)
    BY <1>5, <1>6, <1>8, <1>11 DEF Steady
  <2> QED BY <2>1, SteadyCopies, SteadyTasks
<1>12. GamesAreOpen'
  BY <1>3, <1>5, AbortedGames
<1>13. DownIsEmpty' /\ Reservations'
  BY <1>5 DEF Process, DownIsEmpty, Reservations, Busy
<1> QED BY <1>10, <1>11, <1>12, <1>13 DEF Process

\* An attempt fails, with what it has written and given up.
LEMMA ThrowingIsSound ==
    ASSUME RecordsTyped, RuntimeTyped, Database, Process, RuntimeTyped', NEW r \in Room, Busy(r),
           Thrown(r), GamesAreOpen', CopyLags(r)',
           \A s \in Room : s # r => record'[s] = record[s],
           \A x \in Key : RoomOf(x) # r => run'[x] = run[x],
           run'[task[r].key].status # "none" => run'[task[r].key].players = task[r].who,
           record'[r].key # NoKey => record'[r].key = task[r].key /\ record'[r].players = task[r].who
    PROVE  Process'
<1>1. up /\ ~task[r].leaving /\ StartIsSound(r, task[r]) /\ TaskIsSound(r)
  BY StagesOfTasks, KeysOfRooms DEF Busy, Creating
<1>2. /\ reserved' = reserved \ task[r].who /\ up' = up /\ seen' = seen /\ installed' = installed
      /\ Moves(r, "reread")
  BY TryMoves DEF Thrown
<1>3. StartIsSound(r, task[r])'
  BY <1>1, <1>2 DEF StartIsSound, Moves, Creating, Created
<1>4. TaskIsSound(r)' /\ Exclusive(r)
  BY <1>1, <1>2, <1>3 DEF TaskIsSound, Exclusive, Busy, Moves, Creating
<1>5. Local(r)
  BY <1>1, <1>2 DEF Local, Moves
<1> QED BY <1>4, <1>5, LocalSteps

\* A failed attempt that wrote nothing.
LEMMA FailingIsSound ==
    ASSUME RecordsTyped, RuntimeTyped, Database, Process, RuntimeTyped', NEW r \in Room, Busy(r),
           Thrown(r), record' = record, run' = run, job' = job
    PROVE  Process'
<1>1. StartIsSound(r, task[r]) /\ CopyLags(r) /\ task[r].stage # "accept"
  BY StagesOfTasks, KeysOfRooms DEF Busy, Creating
<1>2. seen' = seen /\ installed' = installed
  BY DEF Thrown
<1>3. CopyLags(r)'
  BY <1>1, <1>2 DEF CopyLags, Keyed
<1>4. GamesAreOpen'
  BY <1>2, SameGames
<1> QED BY <1>1, <1>3, <1>4, ThrowingIsSound DEF StartIsSound

LEMMA CreateShape ==
    ASSUME RecordsTyped, Database, NEW k \in Key, run[k].status = "none", MayCreate(k), Create(k)
    PROVE  /\ record[RoomOf(k)].key = k /\ record'[RoomOf(k)].key = k
           /\ record'[RoomOf(k)].players = record[RoomOf(k)].players
           /\ run'[k].status = "open" /\ run'[k].players = record[RoomOf(k)].players
           /\ \A s \in Room : s # RoomOf(k) => record'[s] = record[s]
           /\ \A x \in Key : x # k => run'[x] = run[x]
           /\ job' = job
<1>1. RoomOf(k) \in Room /\ record[RoomOf(k)].key = k
  BY KeyFacts DEF MayCreate
<1>2. /\ run' = [run EXCEPT ![k] = [status |-> "open", players |-> record[RoomOf(k)].players, board |-> "none"]]
      /\ record' = [record EXCEPT ![RoomOf(k)].status = "playing"] /\ job' = job
  BY DEF Create
<1> QED BY <1>1, <1>2 DEF RecordsTyped, RunState, RoomState

LEMMA CreatingIsSound ==
    ASSUME RecordsTyped, RuntimeTyped, Database, Process, RuntimeTyped', NEW r \in Room,
           task[r].stage = "create", NEW k \in Key, k = task[r].key,
           run[k].status = "none", MayCreate(k), Create(k),
           \/ Go(r, "check") /\ UNCHANGED <<up, seen, installed, reserved, retry, faults>>
           \/ Thrown(r)
    PROVE  Process'
<1>1. up /\ ~task[r].leaving /\ StartIsSound(r, task[r]) /\ TaskIsSound(r) /\ CopyLags(r) /\ Busy(r)
  BY StagesOfTasks, KeysOfRooms DEF Creating, Busy
<1>2. RoomOf(k) = r
  BY <1>1 DEF StartIsSound
<1>3. /\ record[r].key = k /\ record'[r].key = k /\ record'[r].players = record[r].players
      /\ run'[k].status = "open" /\ run'[k].players = record[r].players
      /\ \A s \in Room : s # r => record'[s] = record[s]
      /\ \A x \in Key : x # k => run'[x] = run[x]
      /\ job' = job
  BY <1>2, CreateShape
<1>4. record[r].players = task[r].who
  BY <1>1, <1>3, KeyFacts DEF StartIsSound
<1>5. seen' = seen /\ installed' = installed /\ up' = up
  BY DEF Thrown
<1>6. GamesAreOpen'
  <2>1. k \notin installed
    BY DEF Process, GamesAreOpen, Unfinished
  <2> QED BY <1>3, <1>5, <2>1 DEF Process, GamesAreOpen, Unfinished, RuntimeTyped
<1>7. CopyLags(r)'
  <2>1. ASSUME seen[r].key # NoKey, run'[seen[r].key].status # "none"
        PROVE  run'[seen[r].key].players = seen[r].players
    <3>1. CASE seen[r].key = k
      BY <1>1, <1>3, <2>1, <3>1, KeyFacts DEF CopyLags
    <3>2. CASE seen[r].key # k
      <4>1. run'[seen[r].key] = run[seen[r].key]
        BY <1>3, <2>1, <3>2, KeysOfRooms
      <4> QED BY <1>1, <2>1, <4>1 DEF CopyLags
    <3> QED BY <3>1, <3>2
  <2> QED BY <1>1, <1>3, <1>5, <2>1, KeptCopies
<1>8. CASE Thrown(r)
  BY <1>1, <1>2, <1>3, <1>4, <1>6, <1>7, <1>8, ThrowingIsSound
<1>9. CASE Go(r, "check") /\ UNCHANGED <<up, seen, installed, reserved, retry, faults>>
  <2>1. Moves(r, "check") /\ task'[r].tries = task[r].tries
    BY <1>9, GoMoves DEF Stage
  <2>2. StartIsSound(r, task[r])'
    BY <1>1, <1>3, <1>4, <1>9, <2>1 DEF StartIsSound, Moves, Creating, Created
  <2>3. TaskIsSound(r)' /\ Exclusive(r)
    BY <1>1, <1>5, <2>1, <2>2 DEF TaskIsSound, Exclusive, Moves, Creating
  <2>4. Local(r)
    BY <1>1, <1>2, <1>3, <1>9, <2>1 DEF Local, Moves
  <2> QED BY <1>6, <1>7, <2>3, <2>4, LocalSteps
<1> QED BY <1>8, <1>9

LEMMA CreateGameRunIsSound ==
    ASSUME RecordsTyped, RuntimeTyped, Database, Process, RecordsTyped', RuntimeTyped', Database',
           NEW r \in Room, CreateGameRun(r)
    PROVE  Process'
<1>1. task[r].stage = "create"
  BY DEF CreateGameRun, At
<1>2. /\ up /\ ~task[r].leaving /\ StartIsSound(r, task[r]) /\ task[r].key \in Key /\ TaskIsSound(r)
      /\ Busy(r)
  BY <1>1, StagesOfTasks, KeysOfRooms DEF Creating, Busy
<1>3. CASE UNCHANGED durableVars /\ Thrown(r)
  BY <1>2, <1>3, FailingIsSound DEF durableVars
<1>4. ASSUME NEW old \in Stale(r), MayAbort(old), Abort(old), UNCHANGED <<runtimeVars, faults>>
      PROVE  Process'
  BY <1>1, <1>4, StaleAbortIsSound
<1>5. CASE /\ run[task[r].key].status = "none" /\ MayCreate(task[r].key) /\ Create(task[r].key)
           /\ \/ Go(r, "check") /\ UNCHANGED <<up, seen, installed, reserved, retry, faults>>
              \/ Thrown(r)
  BY <1>1, <1>2, <1>5, CreatingIsSound
<1>6. CASE /\ run[task[r].key].status = "open" /\ UNCHANGED durableVars
           /\ Go(r, "check") /\ UNCHANGED <<up, seen, installed, reserved, retry, faults>>
  <2>1. Moves(r, "check") /\ task'[r].tries = task[r].tries
    BY <1>6, GoMoves DEF Stage
  <2>2. /\ record' = record /\ run' = run /\ job' = job /\ up' = up /\ seen' = seen
        /\ installed' = installed /\ reserved' = reserved
    BY <1>6 DEF durableVars
  <2>3. StartIsSound(r, task[r])'
    BY <1>1, <1>2, <1>6, <2>1, <2>2 DEF StartIsSound, Moves, Creating, Created
  <2>4. TaskIsSound(r)' /\ Exclusive(r)
    BY <1>1, <1>2, <2>1, <2>2, <2>3 DEF TaskIsSound, Exclusive, Moves, Creating
  <2>5. \A s \in Room : s # r => task'[s] = task[s]
    BY <2>1 DEF Moves
  <2> QED BY <1>2, <2>2, <2>4, <2>5, MovingIsSound
<1> QED BY <1>3, <1>4, <1>5, <1>6 DEF CreateGameRun

LEMMA OpenRevealIsSound ==
    ASSUME RecordsTyped, RuntimeTyped, Database, Process, RecordsTyped', RuntimeTyped', Database',
           NEW r \in Room, OpenReveal(r)
    PROVE  Process'
<1>1. task[r].stage = "open" /\ UNCHANGED <<record, job, claimVars, moneyVars>>
  BY DEF OpenReveal, At
<1>2. /\ up /\ ~task[r].leaving /\ StartIsSound(r, task[r]) /\ task[r].key \in Key /\ TaskIsSound(r)
      /\ Busy(r) /\ RoomOf(task[r].key) = r /\ CopyLags(r)
  BY <1>1, StagesOfTasks, KeysOfRooms DEF Creating, Busy, StartIsSound
<1>3. /\ \/ run' = run \/ run' = [run EXCEPT ![task[r].key].board = "opening"]
      /\ \/ Go(r, "install") /\ UNCHANGED <<up, seen, installed, reserved>>
         \/ Thrown(r)
  BY DEF OpenReveal
<1>4. /\ \A x \in Key : run'[x].status = run[x].status /\ run'[x].players = run[x].players
      /\ \A x \in Key : RoomOf(x) # r => run'[x] = run[x]
  BY <1>2, <1>3 DEF RecordsTyped, RunState
<1>5. /\ record' = record /\ job' = job /\ seen' = seen /\ installed' = installed /\ up' = up
  BY <1>1, <1>3 DEF Thrown
<1>6. GamesAreOpen'
  BY <1>4, <1>5 DEF Process, GamesAreOpen, Unfinished, RuntimeTyped
<1>7. CopyLags(r)'
  <2>1. ASSUME seen[r].key # NoKey, run'[seen[r].key].status # "none"
        PROVE  run'[seen[r].key].players = seen[r].players
    <3>1. seen[r].key \in Key
      BY <2>1, KeysOfRooms
    <3> QED BY <1>2, <1>4, <2>1, <3>1 DEF CopyLags
  <2> QED BY <1>2, <1>5, <2>1, KeptCopies
<1>8. CASE Thrown(r)
  BY <1>1, <1>2, <1>4, <1>5, <1>6, <1>7, <1>8, ThrowingIsSound DEF StartIsSound
<1>9. CASE Go(r, "install") /\ UNCHANGED <<up, seen, installed, reserved>>
  <2>1. Moves(r, "install") /\ task'[r].tries = task[r].tries
    BY <1>9, GoMoves DEF Stage
  <2>2. StartIsSound(r, task[r])'
    BY <1>1, <1>2, <1>4, <1>5, <1>9, <2>1 DEF StartIsSound, Moves, Creating, Created
  <2>3. TaskIsSound(r)' /\ Exclusive(r)
    BY <1>1, <1>2, <1>5, <2>1, <2>2 DEF TaskIsSound, Exclusive, Moves, Creating
  <2>4. Local(r)
    BY <1>2, <1>4, <1>5, <1>9, <2>1 DEF Local, Moves
  <2> QED BY <1>6, <1>7, <2>3, <2>4, LocalSteps
<1> QED BY <1>3, <1>8, <1>9

LEMMA InstallGameIsSound ==
    ASSUME RecordsTyped, RuntimeTyped, Database, Process, RecordsTyped', RuntimeTyped', Database',
           NEW r \in Room, InstallGame(r)
    PROVE  Process'
<1> DEFINE k == task[r].key
<1>1. task[r].stage = "install" /\ UNCHANGED <<durableVars, up, seen, retry, faults>>
  BY DEF InstallGame, At
<1>2. /\ up /\ ~task[r].leaving /\ StartIsSound(r, task[r]) /\ k \in Key /\ TaskIsSound(r)
      /\ Busy(r) /\ RoomOf(k) = r /\ CopyLags(r)
  BY <1>1, StagesOfTasks, KeysOfRooms DEF Creating, Busy, StartIsSound
<1>3. /\ record' = record /\ run' = run /\ job' = job /\ up' = up /\ seen' = seen
  BY <1>1 DEF durableVars
<1>4. CASE Go(r, "abort") /\ UNCHANGED <<installed, reserved>>
  <2>1. Moves(r, "abort") /\ task'[r].tries = task[r].tries
    BY <1>4, GoMoves DEF Stage
  <2>2. StartIsSound(r, task[r])'
    BY <1>1, <1>2, <1>3, <1>4, <2>1 DEF StartIsSound, Moves, Creating, Created
  <2>3. TaskIsSound(r)' /\ Exclusive(r)
    BY <1>1, <1>2, <1>3, <2>1, <2>2 DEF TaskIsSound, Exclusive, Moves, Creating
  <2>4. \A s \in Room : s # r => task'[s] = task[s]
    BY <2>1 DEF Moves
  <2> QED BY <1>2, <1>3, <1>4, <2>3, <2>4, MovingIsSound
<1>5. CASE /\ installed' = installed \cup {x \in {k} : run[x].board # "over"}
           /\ reserved' = reserved \ task[r].who
           /\ Go(r, "done")
  <2>1. Moves(r, "done") /\ task'[r].tries = task[r].tries
    BY <1>5, GoMoves DEF Stage
  <2>2. GamesAreOpen'
    <3>1. run[k].status \in {"open", "settled"}
      BY <1>1, <1>2 DEF StartIsSound, Created
    <3>2. run[k].board # "over" => Unfinished(k)
      BY <1>2, <3>1 DEF Database, RunsAreRecorded, Unfinished
    <3> QED BY <1>3, <1>5, <3>2 DEF Process, GamesAreOpen, Unfinished
  <2>3. StartIsSound(r, task[r])'
    BY <1>1, <1>2, <1>3, <2>1 DEF StartIsSound, Moves, Creating, Created
  <2>4. TaskIsSound(r)' /\ Exclusive(r)
    BY <1>1, <1>2, <1>3, <2>1, <2>3 DEF TaskIsSound, Exclusive, Busy, Moves, Creating
  <2>5. Local(r)
    BY <1>2, <1>3, <1>5, <2>1 DEF Local, Moves
  <2>6. CopyLags(r)'
    BY <1>2, <1>3 DEF CopyLags, Keyed
  <2> QED BY <2>2, <2>4, <2>5, <2>6, LocalSteps
<1> QED BY <1>4, <1>5 DEF InstallGame

\* What is left to a task when its own room's run is cancelled.
LEMMA AbortedRoom ==
    ASSUME RecordsTyped, RuntimeTyped, Database, Process, NEW r \in Room, NEW k \in Key, RoomOf(k) = r,
           Unfinished(k), Abort(k), k \notin installed, installed' = installed, seen'[r] = seen[r]
    PROVE  /\ GamesAreOpen' /\ CopyLags(r)'
           /\ record'[r].status = "waiting" /\ record'[r].key = NoKey /\ record'[r].players = record[r].players
           /\ \A s \in Room : s # r => record'[s] = record[s]
           /\ \A x \in Key : RoomOf(x) # r => run'[x] = run[x]
           /\ \A x \in Key : /\ run'[x].players = run[x].players
                             /\ run'[x].status # "none" => run[x].status # "none"
<1>1. GamesAreOpen'
  BY AbortedGames
<1>2. CopyLags(r)'
  BY AbortedCopies
<1>3. run[k].status = "open"
  BY DEF Unfinished
<1> QED BY <1>1, <1>2, <1>3, AbortShape

LEMMA AbortCreationIsSound ==
    ASSUME RecordsTyped, RuntimeTyped, Database, Process, RecordsTyped', RuntimeTyped', Database',
           NEW r \in Room, AbortCreation(r)
    PROVE  Process'
<1> DEFINE k == task[r].key
<1>1. task[r].stage = "abort" /\ Thrown(r)
  BY DEF AbortCreation, At
<1>2. /\ StartIsSound(r, task[r]) /\ k \in Key /\ TaskIsSound(r)
      /\ Busy(r) /\ RoomOf(k) = r /\ k \notin installed
  BY <1>1, StagesOfTasks, KeysOfRooms DEF Creating, Busy, StartIsSound
<1>3. CASE UNCHANGED durableVars
  BY <1>1, <1>2, <1>3, FailingIsSound DEF durableVars
<1>4. CASE MayAbort(k) /\ Abort(k)
  <2>1. Unfinished(k) /\ installed' = installed /\ seen' = seen
    BY <1>1, <1>4 DEF MayAbort, Thrown
  <2>2. /\ GamesAreOpen' /\ CopyLags(r)' /\ record'[r].key = NoKey
        /\ \A s \in Room : s # r => record'[s] = record[s]
        /\ \A x \in Key : RoomOf(x) # r => run'[x] = run[x]
        /\ run'[k].players = run[k].players /\ (run'[k].status # "none" => run[k].status # "none")
    BY <1>2, <1>4, <2>1, AbortedRoom
  <2>3. run'[k].status # "none" => run'[k].players = task[r].who
    BY <1>1, <1>2, <2>2 DEF StartIsSound
  <2> QED BY <1>1, <1>2, <2>2, <2>3, ThrowingIsSound
<1> QED BY <1>3, <1>4 DEF AbortCreation

\* What a cancelled start asks of the task that cancels it, whatever becomes of it.
LEMMA CancellingIsSound ==
    ASSUME RecordsTyped, RuntimeTyped, Database, Process, RecordsTyped', RuntimeTyped', Database',
           NEW r \in Room, task[r].stage = "cancel", up' = up, installed' = installed, reserved' = reserved,
           \A s \in Room : s # r => record'[s] = record[s],
           \A x \in Key : RoomOf(x) # r => run'[x] = run[x],
           \A x \in Key : /\ run'[x].players = run[x].players
                          /\ run'[x].status # "none" => run[x].status # "none",
           record'[r].players = record[r].players,
           record'[r].key \in {NoKey, record[r].key},
           GamesAreOpen', seen'[r] = seen[r] => CopyLags(r)',
           \/ Finished(r, seen[r])
           \/ task' = [task EXCEPT ![r].tries = 3] /\ UNCHANGED <<seen, retry>>
           \/ record'[r].status # "playing" /\ Go(r, "cancelled") /\ UNCHANGED <<seen, retry>>
    PROVE  Process'
<1>1. up /\ task[r].leaving \in BOOLEAN /\ TaskIsSound(r) /\ task[r] \in TaskState
  BY StagesOfTasks, KeysOfRooms
<1>2. CASE Finished(r, seen[r])
  <2>1. /\ task'[r] = Idle /\ seen'[r] = seen[r]
        /\ \A s \in Room : s # r => task'[s] = task[s] /\ seen'[s] = seen[s]
    BY <1>2, FinishedMoves
  <2>2. TaskIsSound(r)' /\ Exclusive(r)
    BY <2>1, IdleTasks
  <2>3. Local(r)
    BY <1>1, <2>1 DEF Local
  <2> QED BY <2>1, <2>2, <2>3, LocalSteps
<1>3. CASE /\ UNCHANGED <<seen, retry>>
           /\ \/ task' = [task EXCEPT ![r].tries = 3]
              \/ record'[r].status # "playing" /\ Go(r, "cancelled")
  <2>1. Moves(r, "cancel") \/ (Moves(r, "cancelled") /\ record'[r].status # "playing")
    BY <1>3, TriesMove, GoMoves DEF Stage
  <2>2. seen' = seen /\ NoKey \notin installed
    BY <1>3, KeyFacts DEF RuntimeTyped
  <2>3. ASSUME ~task[r].leaving PROVE StartIsSound(r, task[r])'
    <3>1. StartIsSound(r, task[r])
      BY <1>1, <2>3 DEF TaskIsSound
    <3>2. task[r].key \in Key
      BY <1>1, <3>1 DEF StartIsSound, TaskState
    <3>3. /\ run'[task[r].key].status # "none" => run'[task[r].key].players = task[r].who
          /\ record'[r].key # NoKey => record'[r].key = task[r].key /\ record'[r].players = task[r].who
      BY <3>1, <3>2 DEF StartIsSound
    <3> QED BY <2>1, <3>1, <3>3 DEF StartIsSound, Moves, Creating, Created
  <2>4. ASSUME task[r].leaving PROVE DepartureIsSound(r, task[r])'
    <3>1. DepartureIsSound(r, task[r])
      BY <1>1, <2>4 DEF TaskIsSound
    <3> QED BY <2>1, <2>2, <3>1 DEF DepartureIsSound, Moves, Undoing
  <2>5. TaskIsSound(r)' /\ Exclusive(r)
    <3>1. /\ task'[r].stage \in {"cancel", "cancelled"} /\ task'[r].leaving = task[r].leaving
          /\ task'[r].stage = "cancelled" => record'[r].status # "playing"
      BY <2>1 DEF Moves
    <3>2. seen'[r].key \notin installed' /\ up'
      BY <1>1, <2>2 DEF TaskIsSound
    <3>3. TaskIsSound(r)'
      BY <1>1, <2>3, <2>4, <3>1, <3>2 DEF TaskIsSound, Creating
    <3> QED BY <3>1, <3>3 DEF Exclusive, Busy, Creating
  <2>6. Local(r)
    BY <1>1, <2>1, <2>2 DEF Local, Moves
  <2> QED BY <2>2, <2>5, <2>6, LocalSteps
<1> QED BY <1>2, <1>3

LEMMA CancelStartIsSound ==
    ASSUME RecordsTyped, RuntimeTyped, Database, Process, RecordsTyped', RuntimeTyped', Database',
           NEW r \in Room, CancelStart(r)
    PROVE  Process'
<1> DEFINE k == seen[r].key
           gone == run[k].status \in {"none", "aborted"}
           next == \/ Finished(r, seen[r])
                   \/ task' = [task EXCEPT ![r].tries = 3] /\ UNCHANGED <<seen, retry>>
                   \/ Go(r, "cancelled") /\ UNCHANGED <<seen, retry>>
<1>1. task[r].stage = "cancel" /\ up' = up /\ installed' = installed /\ reserved' = reserved
  BY DEF CancelStart, At
<1>2. /\ TaskIsSound(r) /\ CopyLags(r) /\ k \in Key \cup {NoKey} /\ (k # NoKey => RoomOf(k) = r)
      /\ k \notin installed /\ record[r].key \in Key \cup {NoKey} /\ record[r] \in RoomState
  BY <1>1, KeysOfRooms DEF TaskIsSound
<1>3. CASE /\ UNCHANGED durableVars
           /\ \/ Finished(r, seen[r])
              \/ task' = [task EXCEPT ![r].tries = 3] /\ UNCHANGED <<seen, retry>>
              \/ k # NoKey /\ gone /\ Go(r, "cancelled") /\ UNCHANGED <<seen, retry>>
  <2>1. record' = record /\ run' = run /\ job' = job
    BY <1>3 DEF durableVars
  <2>2. GamesAreOpen'
    BY <1>1, <2>1, SameGames
  <2>3. seen'[r] = seen[r] => CopyLags(r)'
    BY <1>2, <2>1 DEF CopyLags, Keyed
  <2>4. k # NoKey /\ gone => record[r].status # "playing"
    <3>1. SUFFICES ASSUME k # NoKey, gone, record[r].status = "playing" PROVE FALSE
      OBVIOUS
    <3>2. record[r].key = k
      BY <1>2, <3>1 DEF CopyLags, Database, RoomsAreKeyed, Keyed
    <3>3. Unfinished(k)
      BY <1>2, <3>1, <3>2 DEF Database, RunsAreRecorded
    <3> QED BY <3>1, <3>3 DEF Unfinished
  <2> HIDE DEF k, gone
  <2> QED BY <1>1, <1>3, <2>1, <2>2, <2>3, <2>4, CancellingIsSound
<1>4. CASE k # NoKey /\ MayAbort(k) /\ Abort(k) /\ next
  <2>1. Unfinished(k) /\ k \in Key /\ RoomOf(k) = r
    BY <1>2, <1>4 DEF MayAbort
  <2>2. /\ record'[r].status = "waiting" /\ record'[r].key = NoKey /\ record'[r].players = record[r].players
        /\ \A s \in Room : s # r => record'[s] = record[s]
        /\ \A x \in Key : RoomOf(x) # r => run'[x] = run[x]
        /\ \A x \in Key : /\ run'[x].players = run[x].players
                          /\ run'[x].status # "none" => run[x].status # "none"
    BY <1>4, <2>1, AbortShape DEF Unfinished
  <2>3. GamesAreOpen'
    BY <1>1, <1>2, <1>4, <2>1, AbortedGames
  <2>4. seen'[r] = seen[r] => CopyLags(r)'
    BY <1>4, <2>1, AbortedCopies
  <2> HIDE DEF k
  <2> QED BY <1>1, <1>4, <2>2, <2>3, <2>4, CancellingIsSound
<1> QED BY <1>3, <1>4 DEF CancelStart

LEMMA ResetRoomIsSound ==
    ASSUME RecordsTyped, RuntimeTyped, Database, Process, RecordsTyped', RuntimeTyped', Database',
           NEW r \in Room, ResetRoom(r)
    PROVE  Process'
<1> DEFINE new == [seen[r] EXCEPT !.status = "waiting", !.key = NoKey]
<1>1. /\ task[r].stage = "reset"
      /\ UNCHANGED <<run, job, claimVars, moneyVars, up, installed, reserved>>
  BY DEF ResetRoom, At
<1>2. up /\ task[r].leaving \in BOOLEAN /\ TaskIsSound(r) /\ CopyLags(r) /\ record[r] \in RoomState
  BY <1>1, StagesOfTasks, KeysOfRooms
<1>3. run' = run /\ job' = job /\ up' = up /\ installed' = installed /\ reserved' = reserved
  BY <1>1
<1>4. record[r].status = "starting" /\ seen[r] = record[r]
  BY <1>1, <1>2 DEF TaskIsSound
<1>5. new.status = "waiting" /\ new.key = NoKey /\ new.players = record[r].players
  BY <1>2, <1>4 DEF RoomState
<1>6. \/ /\ record' = [record EXCEPT ![r] = new] /\ seen' = [seen EXCEPT ![r] = new]
         /\ (task[r].leaving /\ Go(r, "depart")) \/ (~task[r].leaving /\ task' = [task EXCEPT ![r] = Idle])
      \/ /\ record' = [record EXCEPT ![r] = new] \/ record' = record
         /\ Finished(r, record'[r]) \/ Finished(r, seen[r])
  BY <1>4 DEF ResetRoom, Write, RecordsTyped
<1> HIDE DEF new
<1>7. GamesAreOpen'
  BY <1>3, SameGames
<1>8. \A s \in Room : s # r => record'[s] = record[s]
  BY <1>6 DEF RecordsTyped
<1>9. CASE /\ record' = [record EXCEPT ![r] = new] /\ seen' = [seen EXCEPT ![r] = new]
           /\ (task[r].leaving /\ Go(r, "depart")) \/ (~task[r].leaving /\ task' = [task EXCEPT ![r] = Idle])
  <2>1. /\ record'[r] = new /\ seen'[r] = new /\ \A s \in Room : s # r => seen'[s] = seen[s]
    BY <1>9 DEF RecordsTyped, RuntimeTyped
  <2>2. CopyLags(r)'
    BY <2>1, FreshCopies
  <2>3. CASE task[r].leaving
    <3>1. Moves(r, "depart")
      BY <1>9, <2>3, GoMoves DEF Stage
    <3>2. DepartureIsSound(r, task[r])
      BY <1>1, <1>2, <2>3 DEF TaskIsSound
    <3>3. NoKey \notin installed
      BY KeyFacts DEF RuntimeTyped
    <3>4. DepartureIsSound(r, task[r])'
      BY <1>1, <1>3, <1>5, <2>1, <3>1, <3>2, <3>3 DEF DepartureIsSound, Moves, Undoing
    <3>5. TaskIsSound(r)' /\ Exclusive(r)
      BY <1>2, <1>3, <2>3, <3>1, <3>4 DEF TaskIsSound, Exclusive, Busy, Moves, Creating
    <3>6. Local(r)
      BY <1>2, <1>3, <1>8, <2>1, <3>1 DEF Local, Moves
    <3> QED BY <1>7, <2>2, <3>5, <3>6, LocalSteps
  <2>4. CASE ~task[r].leaving
    <3>1. task'[r] = Idle /\ \A s \in Room : s # r => task'[s] = task[s]
      BY <1>9, <2>4 DEF RuntimeTyped
    <3>2. TaskIsSound(r)' /\ Exclusive(r)
      BY <3>1, IdleTasks
    <3>3. Local(r)
      BY <1>2, <1>3, <1>8, <2>1, <3>1 DEF Local
    <3> QED BY <1>7, <2>2, <3>2, <3>3, LocalSteps
  <2> QED BY <2>3, <2>4
<1>10. CASE /\ record' = [record EXCEPT ![r] = new] \/ record' = record
            /\ Finished(r, record'[r]) \/ Finished(r, seen[r])
  <2>1. /\ task'[r] = Idle /\ (seen'[r] = record'[r] \/ seen'[r] = seen[r])
        /\ \A s \in Room : s # r => task'[s] = task[s] /\ seen'[s] = seen[s]
    BY <1>10 DEF Finished, RuntimeTyped
  <2>2. CopyLags(r)'
    <3>1. CASE seen'[r] = record'[r]
      BY <3>1, FreshCopies
    <3>2. CASE seen'[r] = seen[r]
      <4>1. record'[r] = record[r] \/ record'[r].key = NoKey
        BY <1>5, <1>10 DEF RecordsTyped
      <4>2. seen[r].key # NoKey /\ run'[seen[r].key].status # "none" =>
               run'[seen[r].key].players = seen[r].players
        BY <1>2, <1>3 DEF CopyLags
      <4> QED BY <1>2, <3>2, <4>1, <4>2, KeptCopies
    <3> QED BY <2>1, <3>1, <3>2
  <2>3. TaskIsSound(r)' /\ Exclusive(r)
    BY <2>1, IdleTasks
  <2>4. Local(r)
    BY <1>2, <1>3, <1>8, <2>1 DEF Local
  <2> QED BY <1>7, <2>2, <2>3, <2>4, LocalSteps
<1> QED BY <1>6, <1>9, <1>10

LEMMA DepartIsSound ==
    ASSUME RecordsTyped, RuntimeTyped, Database, Process, RecordsTyped', RuntimeTyped', Database',
           NEW r \in Room, Depart(r)
    PROVE  Process'
<1> DEFINE left == Without(seen[r], task[r].who)
<1>1. /\ task[r].stage = "depart"
      /\ UNCHANGED <<run, job, seat, viewer, moneyVars, up, installed, reserved>>
  BY DEF Depart, At
<1>2. up /\ task[r].leaving /\ DepartureIsSound(r, task[r]) /\ CopyLags(r) /\ record[r] \in RoomState
  BY <1>1, StagesOfTasks, KeysOfRooms
<1>3. run' = run /\ job' = job /\ up' = up /\ installed' = installed /\ reserved' = reserved
  BY <1>1
<1>4. record[r].status = "waiting" /\ record[r].key = NoKey
  BY <1>1, <1>2 DEF DepartureIsSound, Database, RoomsAreKeyed, Keyed
<1>5. record' = record \/ (seen[r] = record[r] /\ record' = [record EXCEPT ![r] = left])
  BY <1>2 DEF Depart, Write, RecordsTyped
<1>6. Finished(r, record'[r]) \/ Finished(r, seen[r])
  BY <1>2 DEF Depart, Write, RecordsTyped
<1>7. left.key = seen[r].key \/ left.key = NoKey
  BY KeysOfRooms DEF Without, Closed, Absent, RoomState
<1> HIDE DEF left
<1>8. record'[r].key = NoKey /\ \A s \in Room : s # r => record'[s] = record[s]
  BY <1>4, <1>5, <1>7 DEF RecordsTyped
<1>9. GamesAreOpen'
  BY <1>3, SameGames
<1>10. /\ task'[r] = Idle /\ (seen'[r] = record'[r] \/ seen'[r] = seen[r])
       /\ \A s \in Room : s # r => task'[s] = task[s] /\ seen'[s] = seen[s]
  BY <1>6 DEF Finished, RuntimeTyped
<1>11. CopyLags(r)'
  <2>1. seen[r].key # NoKey /\ run'[seen[r].key].status # "none" =>
            run'[seen[r].key].players = seen[r].players
    BY <1>2, <1>3 DEF CopyLags
  <2> QED BY <1>2, <1>8, <1>10, <2>1, FreshCopies, KeptCopies
<1>12. TaskIsSound(r)' /\ Exclusive(r)
  BY <1>10, IdleTasks
<1>13. Local(r)
  BY <1>2, <1>3, <1>8, <1>10 DEF Local
<1> QED BY <1>9, <1>11, <1>12, <1>13, LocalSteps

------------------------------------------------------------------------------
(* Entries, crashes and restarts *)

\* A free room changes, and its copy with it or not.
LEMMA EntryIsSound ==
    ASSUME RecordsTyped, RuntimeTyped, Database, Process, RecordsTyped', RuntimeTyped', Database',
           NEW r \in Room, Free(r), \A s \in Room : s # r => record'[s] = record[s] /\ seen'[s] = seen[s],
           record'[r].key = NoKey, seen'[r] \in {record'[r], seen[r]},
           UNCHANGED <<run, job, up, installed, reserved, task>>
    PROVE  Process'
<1>1. /\ up /\ up' = up /\ task[r] = Idle /\ task' = task /\ run' = run /\ job' = job
      /\ installed' = installed /\ reserved' = reserved
  BY DEF Free
<1>2. CopyLags(r)
  BY KeysOfRooms
<1>3. seen[r].key # NoKey /\ run'[seen[r].key].status # "none" => run'[seen[r].key].players = seen[r].players
  BY <1>1, <1>2 DEF CopyLags
<1>4. CopyLags(r)'
  BY <1>2, <1>3, FreshCopies, KeptCopies
<1>5. TaskIsSound(r)' /\ Exclusive(r)
  BY <1>1, IdleTasks
<1>6. Local(r)
  BY <1>1 DEF Local
<1>7. GamesAreOpen'
  BY <1>1, SameGames
<1> QED BY <1>4, <1>5, <1>6, <1>7, LocalSteps

LEMMA EnteringIsSound ==
    ASSUME RecordsTyped, RuntimeTyped, Database, Process, RecordsTyped', RuntimeTyped', Database',
           NEW r \in Room, NEW p \in Player, OpenRoom(p, r) \/ JoinRoom(p, r)
    PROVE  Process'
<1>1. CASE OpenRoom(p, r)
  <2> DEFINE new == [Absent EXCEPT !.status = "waiting", !.players = {p}]
  <2>1. /\ Free(r) /\ record' = [record EXCEPT ![r] = new] /\ seen' = [seen EXCEPT ![r] = record'[r]]
        /\ UNCHANGED <<run, job, up, installed, reserved, task>>
    BY <1>1 DEF OpenRoom
  <2>2. new.key = NoKey
    BY DEF Absent
  <2> HIDE DEF new
  <2>3. /\ record'[r].key = NoKey /\ seen'[r] = record'[r]
        /\ \A s \in Room : s # r => record'[s] = record[s] /\ seen'[s] = seen[s]
    BY <2>1, <2>2 DEF RecordsTyped, RuntimeTyped
  <2> QED BY <2>1, <2>3, EntryIsSound
<1>2. CASE JoinRoom(p, r)
  <2>1. /\ Free(r) /\ record[r].status = "waiting" /\ record' = [record EXCEPT ![r].players = @ \cup {p}]
        /\ seen' = [seen EXCEPT ![r] = record'[r]] \/ seen' = seen
        /\ UNCHANGED <<run, job, up, installed, reserved, task>>
    BY <1>2 DEF JoinRoom
  <2>2. record[r].key = NoKey /\ record[r] \in RoomState
    BY <2>1 DEF RecordsTyped, Database, RoomsAreKeyed, Keyed
  <2>3. record'[r].key = NoKey /\ \A s \in Room : s # r => record'[s] = record[s]
    BY <2>1, <2>2 DEF RecordsTyped, RoomState
  <2>4. seen'[r] \in {record'[r], seen[r]} /\ \A s \in Room : s # r => seen'[s] = seen[s]
    BY <2>1 DEF RuntimeTyped
  <2> QED BY <2>1, <2>3, <2>4, EntryIsSound
<1> QED BY <1>1, <1>2

\* While nothing runs, there is nothing but the copies to look after.
LEMMA RestingIsSound ==
    ASSUME \A r \in Room : task'[r] = Idle, DownIsEmpty', GamesAreOpen', \A r \in Room : CopyLags(r)'
    PROVE  Process'
<1>1. \A r \in Room : TaskIsSound(r)'
  BY IdleTasks
<1>2. Reservations'
  BY DEF Reservations, Busy, Idle, Creating
<1> QED BY <1>1, <1>2 DEF Process

LEMMA CrashIsSound ==
    ASSUME RuntimeTyped, Process, Crash
    PROVE  Process'
<1>1. /\ up' = FALSE /\ installed' = {} /\ reserved' = {}
      /\ \A r \in Room : seen'[r] = Absent /\ task'[r] = Idle
  BY DEF Crash
<1>2. \A r \in Room : CopyLags(r)'
  BY <1>1 DEF CopyLags, Keyed, Absent
<1>3. DownIsEmpty' /\ GamesAreOpen'
  BY <1>1 DEF DownIsEmpty, GamesAreOpen
<1> QED BY <1>1, <1>2, <1>3, RestingIsSound

LEMMA BootAbortIsSound ==
    ASSUME RecordsTyped, RuntimeTyped, Database, Process, RuntimeTyped', NEW k \in Key, BootAbort(k)
    PROVE  Process'
<1>1. /\ ~up /\ Unfinished(k) /\ Abort(k)
      /\ up' = up /\ seen' = seen /\ installed' = installed /\ reserved' = reserved /\ task' = task
  BY DEF BootAbort, Uninstalled, runtimeVars
<1>2. installed = {} /\ \A r \in Room : task[r] = Idle
  BY <1>1 DEF Process, DownIsEmpty
<1>3. ASSUME NEW s \in Room PROVE CopyLags(s)'
  <2>1. CASE RoomOf(k) = s
    BY <1>1, <2>1, AbortedCopies
  <2>2. CASE RoomOf(k) # s
    <3>1. record'[s] = record[s] /\ \A x \in Key : x # k => run'[x] = run[x]
      BY <1>1, <2>2, AbortShape
    <3>2. Steady(s)
      BY <1>1, <2>2, <3>1 DEF Steady
    <3> QED BY <3>2, SteadyCopies
  <2> QED BY <2>1, <2>2
<1>4. DownIsEmpty' /\ GamesAreOpen'
  BY <1>1, <1>2 DEF Process, DownIsEmpty, GamesAreOpen
<1> QED BY <1>1, <1>2, <1>3, <1>4, RestingIsSound

LEMMA BootResetIsSound ==
    ASSUME RecordsTyped, RuntimeTyped, Database, Process, NEW r \in Room, BootReset(r)
    PROVE  Process'
<1>1. /\ ~up /\ record' = [record EXCEPT ![r].status = "waiting", ![r].key = NoKey]
      /\ run' = run /\ job' = job
      /\ up' = up /\ seen' = seen /\ installed' = installed /\ reserved' = reserved /\ task' = task
  BY DEF BootReset, runtimeVars
<1>2. installed = {} /\ \A s \in Room : task[s] = Idle
  BY <1>1 DEF Process, DownIsEmpty
<1>3. record[r] \in RoomState
  BY DEF RecordsTyped
<1>4. record'[r].key = NoKey /\ \A s \in Room : s # r => record'[s] = record[s]
  BY <1>1, <1>3 DEF RecordsTyped, RoomState
<1>5. ASSUME NEW s \in Room PROVE CopyLags(s)'
  <2>1. CopyLags(s)
    BY DEF Process
  <2>2. seen[s].key # NoKey /\ run'[seen[s].key].status # "none" => run'[seen[s].key].players = seen[s].players
    BY <1>1, <2>1 DEF CopyLags
  <2> QED BY <1>1, <1>4, <2>1, <2>2, KeptCopies
<1>6. DownIsEmpty' /\ GamesAreOpen'
  BY <1>1, <1>2 DEF Process, DownIsEmpty, GamesAreOpen
<1> QED BY <1>1, <1>2, <1>5, <1>6, RestingIsSound

LEMMA BootUpIsSound ==
    ASSUME RecordsTyped, RuntimeTyped, Database, Process, RecordsTyped', Database', BootUp
    PROVE  Process'
<1>1. /\ ~up /\ up' = TRUE /\ installed' = LiveGames /\ seen' = record
      /\ record' = record /\ run' = run /\ job' = job /\ task' = task
  BY DEF BootUp
<1>2. \A s \in Room : task[s] = Idle
  BY <1>1 DEF Process, DownIsEmpty
<1>3. \A s \in Room : CopyLags(s)'
  BY <1>1, FreshCopies
<1>4. DownIsEmpty' /\ GamesAreOpen'
  BY <1>1 DEF DownIsEmpty, GamesAreOpen, LiveGames, Unfinished
<1> QED BY <1>1, <1>2, <1>3, <1>4, RestingIsSound

LEMMA StepKeepsProcess ==
    ASSUME RecordsTyped, RuntimeTyped, Database, Process, RecordsTyped', RuntimeTyped', Database',
           [Next]_vars
    PROVE  Process'
<1>1. ASSUME NEW r \in Room, Work(r) PROVE Process'
  BY <1>1, AcceptStartIsSound, BeginCreationIsSound, CreateGameRunIsSound, CheckSessionsIsSound,
     OpenRevealIsSound, InstallGameIsSound, AbortCreationIsSound, RereadRoomIsSound,
     ReadStartedIsSound, CancelStartIsSound, ReadCancelledIsSound, ResetRoomIsSound,
     ReadBeforeLeavingIsSound, DepartIsSound DEF Work
<1>2. ASSUME NEW r \in Room,
             \/ ReadyToStart(r) \/ RetryFires(r) \/ Reconnect(r) \/ Refresh(r) \/ BootReset(r)
             \/ AbandonLeaving(r)
      PROVE  Process'
  BY <1>2, ReadyToStartIsSound, RetryFiresIsSound, ResumeIsSound, RefreshIsSound, BootResetIsSound,
     AbandonLeavingIsSound DEF Reconnect
<1>3. ASSUME NEW r \in Room, NEW p \in Player, OpenRoom(p, r) \/ JoinRoom(p, r) \/ LeaveRoom(p, r)
      PROVE  Process'
  BY <1>3, EnteringIsSound, LeaveRoomIsSound
<1>4. ASSUME NEW k \in Key, Play(k) \/ EndGame(k) \/ Settle(k) \/ BootAbort(k) PROVE Process'
  BY <1>4, PlayIsSound, EndGameIsSound, SettleIsSound, BootAbortIsSound
<1>5. CASE Crash \/ BootUp
  BY <1>5, CrashIsSound, BootUpIsSound
<1>6. CASE \/ \E p \in Player : DismissResult(p) \/ ClaimPendingPayout(p)
           \/ UNCHANGED vars
  <2>1. /\ record' = record /\ run' = run /\ job' = job /\ up' = up /\ seen' = seen
        /\ installed' = installed /\ reserved' = reserved /\ task' = task
    BY <1>6 DEF DismissResult, ClaimPendingPayout, runtimeVars, vars, durableVars
  <2> QED BY <2>1, SameGames, QuietSteps
<1> QED BY <1>1, <1>2, <1>3, <1>4, <1>5, <1>6 DEF Next

------------------------------------------------------------------------------
(* The theorems *)

LEMMA InitIsSound == Init => IInv
<1> SUFFICES ASSUME Init PROVE IInv
  OBVIOUS
<1>1. /\ record \in [Room -> {Absent, Closed}] /\ seen = record
      /\ run = [k \in Key |-> NoRun] /\ job = [k \in Key |-> NoJob]
      /\ member = [p \in Player |-> NoRoom] /\ seat = [p \in Player |-> NoKey] /\ viewer = seat
      /\ coins = [p \in Player |-> Fund] /\ vault = 0 /\ bounty = [p \in Player |-> "none"]
      /\ up = TRUE /\ installed = {} /\ reserved = {} /\ retry = {}
      /\ task = [r \in Room |-> Idle] /\ faults \in 0..MaxFaults
  BY DEF Init
<1>2. /\ Absent \in RoomState /\ Closed \in RoomState
      /\ \A r \in Room : /\ record[r].status \in {"none", "closed"} /\ record[r].key = NoKey
                         /\ record[r].players = {}
  BY <1>1 DEF Absent, Closed, RoomState
<1>3. /\ NoRun \in RunState /\ NoRun.status = "none" /\ NoRun.board = "none"
  BY DEF NoRun, RunState
<1>4. RecordsTyped
  BY <1>1, <1>2, <1>3 DEF RecordsTyped
<1>5. MoneyTyped
  BY <1>1, Amounts DEF MoneyTyped
<1>6. RuntimeTyped
  <2>1. \A r \in Room : seen[r] \in RoomState
    BY <1>1, <1>2
  <2>2. faults \in Nat
    BY <1>1, BoundsAssumption
  <2> QED BY <1>1, <2>1, <2>2, IdleIsTask DEF RuntimeTyped
<1>7. Database
  <2>1. RoomsAreKeyed /\ MembersAreIn /\ OneClaim
    BY <1>1, <1>2, RoomAssumption DEF RoomsAreKeyed, Keyed, MembersAreIn, OneClaim
  <2>2. \A k \in Key : run[k].status = "none" /\ run[k].board = "none" /\ job[k] = NoJob /\ ~Unfinished(k)
    BY <1>1, <1>3 DEF Unfinished
  <2>3. RunsAreRecorded
    BY <1>2, <2>2, KeyFacts DEF RunsAreRecorded
  <2>4. SeatsAreTaken
    BY <1>1, <2>2, KeyFacts DEF SeatsAreTaken
  <2> QED BY <2>1, <2>3, <2>4 DEF Database
<1>8. Process
  <2>1. \A r \in Room : CopyLags(r)
    BY <1>1, <1>2 DEF CopyLags, Keyed
  <2>2. \A r \in Room : TaskIsSound(r)
    BY <1>1 DEF TaskIsSound, Idle
  <2>3. GamesAreOpen /\ DownIsEmpty /\ Reservations
    BY <1>1 DEF GamesAreOpen, DownIsEmpty, Reservations, Busy, Idle, Creating
  <2> QED BY <2>1, <2>2, <2>3 DEF Process
<1> QED BY <1>4, <1>5, <1>6, <1>7, <1>8, TypeOKParts DEF IInv

LEMMA StepIsSound == IInv /\ [Next]_vars => IInv'
<1> SUFFICES ASSUME IInv, [Next]_vars PROVE IInv'
  OBVIOUS
<1>1. RecordsTyped /\ MoneyTyped /\ RuntimeTyped /\ Database /\ Process
  BY TypeOKParts DEF IInv
<1>2. RecordsTyped' /\ Database'
  BY <1>1, StepKeepsDatabase
<1>3. RuntimeTyped'
  BY <1>1, <1>2, StepIsTyped
<1>4. MoneyTyped'
  BY <1>1, StepPays
<1>5. Process'
  BY <1>1, <1>2, <1>3, StepKeepsProcess
<1>6. TypeOK'
  BY <1>2, <1>3, <1>4 DEF TypeOK, RecordsTyped, MoneyTyped, RuntimeTyped, RunState, TaskState, Stage
<1> QED BY <1>2, <1>5, <1>6 DEF IInv

LEMMA AlwaysSound == Spec => []IInv
BY InitIsSound, StepIsSound, PTL DEF Spec

\* Every variable keeps its shape.  That the coins and the vault stay natural numbers
\* says that no transaction of the repository takes what is not there: stakes are
\* checked where they are taken, and bounties are paid out of the vault or owed.
THEOREM StartTypes == Spec => []TypeOK
<1>1. IInv => TypeOK
  BY DEF IInv
<1> QED BY <1>1, AlwaysSound, PTL

LEMMA ClaimsFollow == TypeOK /\ Database => ClaimsAgree
<1> SUFFICES ASSUME TypeOK, Database PROVE ClaimsAgree
  OBVIOUS
<1>0. RecordsTyped
  BY TypeOKParts
<1>1. ASSUME NEW p \in Player
      PROVE  Cardinality({t \in {member[p], seat[p], viewer[p]} : t \notin {NoRoom, NoKey}}) <= 1
  <2> DEFINE claims == {t \in {member[p], seat[p], viewer[p]} : t \notin {NoRoom, NoKey}}
  <2>1. /\ member[p] # NoRoom => seat[p] = NoKey /\ viewer[p] = NoKey
        /\ seat[p] # NoKey => viewer[p] = NoKey
    BY DEF Database, OneClaim
  <2>2. \A t \in claims, u \in claims : t = u
    BY <2>1
  <2>3. claims = {} \/ \E t \in claims : claims = {t}
    BY <2>2
  <2>4. CASE claims = {}
    BY <2>4, FS_EmptySet
  <2>5. CASE \E t \in claims : claims = {t}
    <3>1. PICK t \in claims : claims = {t}
      BY <2>5
    <3>2. Cardinality({t}) = 1
      BY FS_Singleton
    <3> QED BY <3>1, <3>2
  <2> QED BY <2>3, <2>4, <2>5
<1>2. \A p \in Player, r \in Room :
         member[p] = r <=> p \in record[r].players /\ record[r].status \in {"waiting", "starting"}
  BY DEF Database, MembersAreIn
<1>3. \A p \in Player, k \in Key : seat[p] = k <=> Unfinished(k) /\ p \in run[k].players
  BY DEF Database, SeatsAreTaken
<1>4. \A k \in Key : Unfinished(k) <=> record[RoomOf(k)].status = "playing" /\ record[RoomOf(k)].key = k
  BY DEF Database, RunsAreRecorded
<1> QED BY <1>1, <1>2, <1>3, <1>4 DEF ClaimsAgree

\* A person is never claimed twice, by a room, a game and a result, and each claim
\* agrees with the room or run it names, whatever is lost between the transactions.
THEOREM PeopleAreClaimedOnce == Spec => []ClaimsAgree
<1>1. IInv => ClaimsAgree
  BY ClaimsFollow DEF IInv
<1> QED BY <1>1, AlwaysSound, PTL

\* The transaction that cancels a run finds it unfinished and not begun.
LEMMA CancelledRuns ==
    ASSUME RecordsTyped, RuntimeTyped, Database, Process, [Next]_vars, NEW k \in Key,
           run[k].status # "aborted", run'[k].status = "aborted"
    PROVE  k \notin installed /\ run[k].board \notin {"started", "over"}
<1>1. ASSUME NEW x \in Key, Abort(x) PROVE x = k
  BY <1>1 DEF Abort, RecordsTyped
<1>2. ASSUME NEW x \in Key, Create(x) PROVE FALSE
  BY <1>2 DEF Create, RecordsTyped, RunState
<1>3. ASSUME UNCHANGED durableVars PROVE FALSE
  BY <1>3 DEF durableVars
<1>4. ASSUME NEW r \in Room, Work(r) PROVE k \notin installed /\ run[k].board \notin {"started", "over"}
  <2>1. CASE CreateGameRun(r)
    <3>1. task[r].stage = "create"
      BY <2>1 DEF CreateGameRun, At
    <3>2. task[r].key \in Key /\ task[r].who \subseteq Player
      <4>1. task[r] \in TaskState
        BY KeysOfRooms
      <4> QED BY <3>1, <4>1, StagesOfTasks DEF Creating, TaskState
    <3>3. PICK old \in Stale(r) : MayAbort(old) /\ Abort(old)
      BY <1>2, <1>3, <2>1, <3>2 DEF CreateGameRun
    <3>4. old \in Key /\ old \notin installed
      BY <3>2 DEF Stale, RecordsTyped
    <3> QED BY <1>1, <3>3, <3>4 DEF MayAbort
  <2>2. CASE AbortCreation(r)
    <3>1. task[r].stage = "abort"
      BY <2>2 DEF AbortCreation, At
    <3>2. task[r].key \in Key /\ task[r].key \notin installed
      BY <3>1, StagesOfTasks DEF StartIsSound, Creating
    <3>3. MayAbort(task[r].key) /\ Abort(task[r].key)
      BY <1>3, <2>2 DEF AbortCreation
    <3> QED BY <1>1, <3>2, <3>3 DEF MayAbort
  <2>3. CASE CancelStart(r)
    <3>1. task[r].stage = "cancel"
      BY <2>3 DEF CancelStart, At
    <3>2. seen[r].key \notin installed /\ seen[r].key \in Key \cup {NoKey}
      BY <3>1, KeysOfRooms DEF TaskIsSound
    <3>3. seen[r].key # NoKey /\ MayAbort(seen[r].key) /\ Abort(seen[r].key)
      BY <1>3, <2>3 DEF CancelStart
    <3> QED BY <1>1, <3>2, <3>3 DEF MayAbort
  <2>4. CASE OpenReveal(r)
    <3>1. \A x \in Key : run'[x].status = run[x].status
      BY <2>4 DEF OpenReveal, RecordsTyped, RunState
    <3> QED BY <3>1
  <2>5. CASE \/ AcceptStart(r) \/ BeginCreation(r) \/ CheckSessions(r) \/ InstallGame(r) \/ RereadRoom(r)
             \/ ReadStarted(r) \/ ReadCancelled(r) \/ ResetRoom(r) \/ ReadBeforeLeaving(r) \/ Depart(r)
    <3>1. run' = run
      BY <2>5 DEF AcceptStart, BeginCreation, CheckSessions, InstallGame, RereadRoom, ReadStarted,
                  ReadCancelled, ResetRoom, ReadBeforeLeaving, Depart, durableVars
    <3> QED BY <3>1
  <2> QED BY <1>4, <2>1, <2>2, <2>3, <2>4, <2>5 DEF Work
<1>5. ASSUME NEW x \in Key, BootAbort(x) PROVE k \notin installed /\ run[k].board \notin {"started", "over"}
  <2>1. installed = {} /\ Abort(x) /\ run[x].board = "none"
    BY <1>5 DEF BootAbort, Uninstalled, Process, DownIsEmpty
  <2> QED BY <1>1, <2>1
<1>6. ASSUME NEW x \in Key, Play(x) \/ EndGame(x) \/ Settle(x) PROVE FALSE
  <2>1. \/ run' = [run EXCEPT ![x].board = "started"] \/ run' = [run EXCEPT ![x].board = "over"]
        \/ run' = [run EXCEPT ![x].status = "settled"]
    BY <1>6 DEF Play, EndGame, Settle
  <2> QED BY <2>1 DEF RecordsTyped, RunState
<1>7. CASE \/ \E r \in Room : \/ ReadyToStart(r) \/ RetryFires(r) \/ Reconnect(r) \/ Refresh(r)
                              \/ BootReset(r) \/ AbandonLeaving(r)
           \/ \E r \in Room, p \in Player : OpenRoom(p, r) \/ JoinRoom(p, r) \/ LeaveRoom(p, r)
           \/ \E p \in Player : DismissResult(p) \/ ClaimPendingPayout(p)
           \/ Crash \/ BootUp \/ UNCHANGED vars
  <2>1. run' = run
    BY <1>7 DEF ReadyToStart, RetryFires, Reconnect, Resume, Refresh, BootReset, AbandonLeaving,
                OpenRoom, JoinRoom, LeaveRoom, DismissResult, ClaimPendingPayout, Crash, BootUp,
                vars, durableVars
  <2> QED BY <2>1
<1> QED BY <1>4, <1>5, <1>6, <1>7 DEF Next

\* Every game in memory has an open run, in every reachable state, and no start,
\* departure or restart ever cancels one that is installed or has begun.
THEOREM StartsCancelNoGame == Spec => GamesAreNotCancelled
<1>1. IInv /\ [Next]_vars =>
        \A k \in Key : /\ k \in installed' => run'[k].status = "open"
                       /\ run[k].status # "aborted" /\ run'[k].status = "aborted" =>
                             k \notin installed /\ run[k].board \notin {"started", "over"}
  <2> SUFFICES ASSUME IInv, [Next]_vars, NEW k \in Key
               PROVE  /\ k \in installed' => run'[k].status = "open"
                      /\ run[k].status # "aborted" /\ run'[k].status = "aborted" =>
                            k \notin installed /\ run[k].board \notin {"started", "over"}
    OBVIOUS
  <2>1. RecordsTyped /\ RuntimeTyped /\ Database /\ Process
    BY TypeOKParts DEF IInv
  <2>2. IInv'
    BY StepIsSound
  <2>3. k \in installed' => run'[k].status = "open"
    BY <2>2 DEF IInv, Process, GamesAreOpen, Unfinished
  <2> QED BY <2>1, <2>3, CancelledRuns
<1> QED BY <1>1, AlwaysSound, PTL DEF Spec, GamesAreNotCancelled

------------------------------------------------------------------------------
(* Sums: what the folds of the model add up to, whatever order they choose *)

AnyOf(s) == CHOOSE x \in s : TRUE
Sums(F, S, v) == F = [s \in SUBSET S |-> IF s = {} THEN 0 ELSE v[AnyOf(s)] + F[s \ {AnyOf(s)}]]
Sum(v, S) == CHOOSE F : Sums(F, S, v)
Total(v, S) == Sum(v, S)[S]

\* Induction over a finite set: among its subsets of any kind there is a least one.
LEMMA LeastSubset ==
    ASSUME NEW S, IsFiniteSet(S), NEW T \in SUBSET SUBSET S, T # {}
    PROVE  \E s \in T : \A t \in T : t \subseteq s => t = s
<1>1. IsWellFoundedOn(StrictSubsetOrdering(S), FiniteSubsetsOf(S))
  BY FS_StrictSubsetOrderingWellFounded
<1>2. FiniteSubsetsOf(S) = SUBSET S
  BY FS_FiniteSubsetsOfFinite
<1>3. \E s \in T : \A t \in T : <<t, s>> \notin StrictSubsetOrdering(S)
  BY <1>1, <1>2, WFMin
<1>. QED  BY <1>3 DEF StrictSubsetOrdering

LEMMA AnyIsOf == ASSUME NEW s, s # {} PROVE AnyOf(s) \in s
BY DEF AnyOf

LEMMA SumsAre ==
    ASSUME NEW F, NEW S, NEW v, Sums(F, S, v)
    PROVE  /\ F[{}] = 0
           /\ \A s \in SUBSET S : s # {} => AnyOf(s) \in s /\ F[s] = v[AnyOf(s)] + F[s \ {AnyOf(s)}]
<1>. DEFINE rest(s) == IF s = {} THEN 0 ELSE v[AnyOf(s)] + F[s \ {AnyOf(s)}]
<1>1. F = [s \in SUBSET S |-> rest(s)]
  BY DEF Sums
<1>2. \A s \in SUBSET S : F[s] = rest(s)
  <2>. HIDE DEF rest
  <2>. QED  BY <1>1
<1>3. {} \in SUBSET S
  OBVIOUS
<1>. QED  BY <1>2, <1>3, AnyIsOf

LEMMA SumsAgree ==
    ASSUME NEW S, IsFiniteSet(S), NEW T \in SUBSET S, NEW v, NEW w, \A x \in T : v[x] = w[x],
           NEW F, NEW G, Sums(F, S, v), Sums(G, T, w)
    PROVE  \A s \in SUBSET T : F[s] = G[s]
<1>. DEFINE bad == {s \in SUBSET T : F[s] # G[s]}
<1>. SUFFICES ASSUME bad # {} PROVE FALSE
  OBVIOUS
<1>1. PICK s \in bad : \A t \in bad : t \subseteq s => t = s
  <2>1. bad \in SUBSET SUBSET S
    OBVIOUS
  <2>. HIDE DEF bad
  <2>. QED  BY <2>1, LeastSubset
<1>2. s # {}
  BY SumsAre
<1>. DEFINE x == AnyOf(s)
            u == s \ {x}
<1>3. x \in s /\ F[s] = v[x] + F[u]
  <2>1. \A t \in SUBSET S : t # {} => AnyOf(t) \in t /\ F[t] = v[AnyOf(t)] + F[t \ {AnyOf(t)}]
    BY SumsAre
  <2>. QED  BY <1>2, <2>1
<1>4. G[s] = w[x] + G[u]
  <2>1. \A t \in SUBSET T : t # {} => AnyOf(t) \in t /\ G[t] = w[AnyOf(t)] + G[t \ {AnyOf(t)}]
    BY SumsAre
  <2>. QED  BY <1>2, <2>1
<1>5. u \in SUBSET T /\ u # s /\ u \subseteq s
  BY <1>3
<1>. QED  BY <1>1, <1>3, <1>4, <1>5

LEMMA OneSum ==
    ASSUME NEW S, IsFiniteSet(S), NEW v, NEW F, NEW G, Sums(F, S, v), Sums(G, S, v)
    PROVE  F[S] = G[S]
<1>1. S \in SUBSET S /\ \A x \in S : v[x] = v[x]
  OBVIOUS
<1>2. \A s \in SUBSET S : F[s] = G[s]
  BY <1>1, SumsAgree
<1>. QED  BY <1>1, <1>2

\* The recursion defines a function: it is put together from those of the smaller sets.
LEMMA SumExists ==
    ASSUME NEW S, IsFiniteSet(S), NEW v
    PROVE  Sums(Sum(v, S), S, v)
<1>. DEFINE bad == {s \in SUBSET S : ~Sums(Sum(v, s), s, v)}
<1>1. CASE bad = {}
  BY <1>1
<1>2. CASE bad # {}
  <2>1. PICK s \in bad : \A t \in bad : t \subseteq s => t = s
    <3>1. bad \in SUBSET SUBSET S
      OBVIOUS
    <3>. HIDE DEF bad
    <3>. QED  BY <1>2, <3>1, LeastSubset
  <2>2. \A t \in SUBSET s : t # s => Sums(Sum(v, t), t, v)
    BY <2>1
  <2>3. \A t \in SUBSET s : IsFiniteSet(t)
    BY <2>1, FS_Subset
  <2>. DEFINE rest(t) == t \ {AnyOf(t)}
              value(t) == IF t = {} THEN 0 ELSE v[AnyOf(t)] + Total(v, rest(t))
              F == [t \in SUBSET s |-> value(t)]
  <2>4. ASSUME NEW t \in SUBSET s, t # s PROVE F[t] = Total(v, t)
    <3>1. Sums(Sum(v, t), t, v)
      BY <2>2, <2>4
    <3>2. CASE t = {}
      BY <3>1, <3>2, SumsAre DEF Total
    <3>3. CASE t # {}
      <4>1. AnyOf(t) \in t /\ Sum(v, t)[t] = v[AnyOf(t)] + Sum(v, t)[rest(t)]
        BY <3>1, <3>3, SumsAre
      <4>2. rest(t) \in SUBSET t /\ rest(t) \in SUBSET s /\ rest(t) # s
        BY <4>1
      <4>3. Sums(Sum(v, rest(t)), rest(t), v)
        BY <2>2, <4>2
      <4>4. \A q \in SUBSET rest(t) : Sum(v, t)[q] = Sum(v, rest(t))[q]
        <5>. HIDE DEF rest
        <5>1. IsFiniteSet(t) /\ \A y \in rest(t) : v[y] = v[y]
          BY <2>3
        <5>. QED  BY <3>1, <4>2, <4>3, <5>1, SumsAgree
      <4>5. Sum(v, t)[rest(t)] = Total(v, rest(t))
        BY <4>4 DEF Total
      <4>. QED  BY <3>3, <4>1, <4>5 DEF Total
    <3>. QED  BY <3>2, <3>3
  <2>5. \A t \in SUBSET s : t # {} => value(t) = v[AnyOf(t)] + F[rest(t)]
    <3>. TAKE t \in SUBSET s
    <3>. HAVE t # {}
    <3>1. AnyOf(t) \in t
      BY AnyIsOf
    <3>2. rest(t) \in SUBSET s /\ rest(t) # s
      BY <3>1
    <3>3. F[rest(t)] = Total(v, rest(t))
      BY <2>4, <3>2
    <3>. QED  BY <3>3
  <2>6. Sums(F, s, v)
    <3>1. F = [t \in SUBSET s |-> IF t = {} THEN 0 ELSE v[AnyOf(t)] + F[t \ {AnyOf(t)}]]
      BY <2>5
    <3>. HIDE DEF F
    <3>. QED  BY <3>1 DEF Sums
  <2>7. Sums(Sum(v, s), s, v)
    <3>. HIDE DEF F
    <3>. QED  BY <2>6 DEF Sum
  <2>. QED  BY <2>1, <2>7
<1>. QED  BY <1>1, <1>2

LEMMA TotalIs ==
    ASSUME NEW S, IsFiniteSet(S), NEW v
    PROVE  /\ S = {} => Total(v, S) = 0
           /\ S # {} => AnyOf(S) \in S /\ Total(v, S) = v[AnyOf(S)] + Total(v, S \ {AnyOf(S)})
<1>. DEFINE x == AnyOf(S)
            u == S \ {x}
<1>1. Sums(Sum(v, S), S, v)
  BY SumExists
<1>2. CASE S = {}
  BY <1>1, <1>2, SumsAre DEF Total
<1>3. CASE S # {}
  <2>1. x \in S /\ Sum(v, S)[S] = v[x] + Sum(v, S)[u]
    BY <1>1, <1>3, SumsAre
  <2>2. u \in SUBSET S /\ IsFiniteSet(u) /\ \A y \in u : v[y] = v[y]
    BY FS_Subset
  <2>3. Sums(Sum(v, u), u, v)
    BY <2>2, SumExists
  <2>4. \A s \in SUBSET u : Sum(v, S)[s] = Sum(v, u)[s]
    <3>. HIDE DEF u
    <3>. QED  BY <1>1, <2>2, <2>3, SumsAgree
  <2>5. Sum(v, S)[u] = Total(v, u)
    BY <2>4 DEF Total
  <2>. QED  BY <1>3, <2>1, <2>5 DEF Total
<1>. QED  BY <1>2, <1>3

LEMMA TotalSame ==
    ASSUME NEW S, IsFiniteSet(S), NEW v, NEW w, \A x \in S : v[x] = w[x]
    PROVE  Total(v, S) = Total(w, S)
<1>1. Sums(Sum(v, S), S, v) /\ Sums(Sum(w, S), S, w)
  BY SumExists
<1>2. S \in SUBSET S
  OBVIOUS
<1>3. \A s \in SUBSET S : Sum(v, S)[s] = Sum(w, S)[s]
  BY <1>1, <1>2, SumsAgree
<1>. QED  BY <1>3 DEF Total

LEMMA TotalIsWhole ==
    ASSUME NEW S, IsFiniteSet(S), NEW v, \A x \in S : v[x] \in Int
    PROVE  Total(v, S) \in Int
<1>. DEFINE bad == {s \in SUBSET S : Total(v, s) \notin Int}
<1>1. CASE bad = {}
  BY <1>1
<1>2. CASE bad # {}
  <2>1. PICK s \in bad : \A t \in bad : t \subseteq s => t = s
    <3>1. bad \in SUBSET SUBSET S
      OBVIOUS
    <3>. HIDE DEF bad
    <3>. QED  BY <1>2, <3>1, LeastSubset
  <2>2. IsFiniteSet(s)
    BY <2>1, FS_Subset
  <2>. DEFINE x == AnyOf(s)
              u == s \ {x}
  <2>3. s # {} /\ x \in s /\ Total(v, s) = v[x] + Total(v, u)
    <3>1. s = {} => Total(v, s) = 0
      BY <2>2, TotalIs
    <3>2. s # {}
      BY <2>1, <3>1
    <3>. QED  BY <2>2, <3>2, TotalIs
  <2>4. u \in SUBSET S /\ u \subseteq s /\ u # s
    BY <2>1, <2>3
  <2>5. Total(v, u) \in Int
    BY <2>1, <2>4
  <2>. QED  BY <2>1, <2>3, <2>5
<1>. QED  BY <1>1, <1>2

\* The order does not matter: any term can be taken first.
LEMMA TotalWithout ==
    ASSUME NEW S, IsFiniteSet(S), NEW v, \A x \in S : v[x] \in Int, NEW a \in S
    PROVE  Total(v, S) = v[a] + Total(v, S \ {a})
<1>. DEFINE Splits(s) == \A b \in s : Total(v, s) = v[b] + Total(v, s \ {b})
            bad == {s \in SUBSET S : ~Splits(s)}
<1>1. CASE bad = {}
  BY <1>1
<1>2. CASE bad # {}
  <2>1. PICK s \in bad : \A t \in bad : t \subseteq s => t = s
    <3>1. bad \in SUBSET SUBSET S
      OBVIOUS
    <3>. HIDE DEF bad
    <3>. QED  BY <1>2, <3>1, LeastSubset
  <2>2. \A t \in SUBSET s : IsFiniteSet(t) /\ Total(v, t) \in Int
    <3>. TAKE t \in SUBSET s
    <3>1. IsFiniteSet(t) /\ \A y \in t : v[y] \in Int
      BY <2>1, FS_Subset
    <3>. QED  BY <3>1, TotalIsWhole
  <2>3. PICK b \in s : Total(v, s) # v[b] + Total(v, s \ {b})
    BY <2>1
  <2>4. \A t \in SUBSET s : t # s => Splits(t)
    BY <2>1
  <2>. HIDE DEF bad
  <2>. DEFINE x == AnyOf(s)
              u == s \ {x}
              w == s \ {b}
              rest == (s \ {x}) \ {b}
  <2>5. x \in s /\ Total(v, s) = v[x] + Total(v, u)
    BY <2>2, <2>3, TotalIs
  <2>6. x # b
    BY <2>3, <2>5
  <2>7. Total(v, u) = v[b] + Total(v, rest)
    <3>1. u \in SUBSET s /\ u # s /\ b \in u
      BY <2>3, <2>5, <2>6
    <3>. QED  BY <2>4, <3>1
  <2>8. Total(v, w) = v[x] + Total(v, rest)
    <3>1. w \in SUBSET s /\ w # s /\ x \in w /\ rest = w \ {x}
      BY <2>3, <2>5, <2>6
    <3>. HIDE DEF w, x, rest
    <3>. QED  BY <2>4, <3>1
  <2>9. v[b] \in Int /\ v[x] \in Int /\ Total(v, rest) \in Int
    <3>1. s \subseteq S /\ rest \in SUBSET s
      BY <2>1 DEF bad
    <3>. QED  BY <2>2, <2>3, <2>5, <3>1
  <2>. QED  BY <2>3, <2>5, <2>7, <2>8, <2>9
<1>. QED  BY <1>1, <1>2

LEMMA TotalOfEqual ==
    ASSUME NEW S, IsFiniteSet(S), NEW v, NEW d \in Nat, \A x \in S : v[x] = d
    PROVE  Total(v, S) = d * Cardinality(S)
<1>. DEFINE bad == {s \in SUBSET S : Total(v, s) # d * Cardinality(s)}
<1>1. CASE bad = {}
  BY <1>1
<1>2. CASE bad # {}
  <2>1. PICK s \in bad : \A t \in bad : t \subseteq s => t = s
    <3>1. bad \in SUBSET SUBSET S
      OBVIOUS
    <3>. HIDE DEF bad
    <3>. QED  BY <1>2, <3>1, LeastSubset
  <2>2. IsFiniteSet(s)
    BY <2>1, FS_Subset
  <2>3. s # {}
    <3>1. s = {} => Total(v, s) = 0
      BY <2>2, TotalIs
    <3>2. d * Cardinality({}) = 0
      BY FS_EmptySet
    <3>. QED  BY <2>1, <3>1, <3>2
  <2>. DEFINE x == AnyOf(s)
              u == s \ {x}
  <2>4. x \in s /\ Total(v, s) = d + Total(v, u)
    BY <2>1, <2>2, <2>3, TotalIs
  <2>5. Total(v, u) = d * Cardinality(u)
    <3>1. u \in SUBSET S /\ u \subseteq s /\ u # s
      BY <2>1, <2>4
    <3>. QED  BY <2>1, <3>1
  <2>6. Cardinality(u) = Cardinality(s) - 1 /\ Cardinality(s) \in Nat
    BY <2>2, <2>4, FS_RemoveElement, FS_CardinalityType
  <2>. DEFINE n == Cardinality(s)
  <2>7. d + d * (n - 1) = d * n
    BY <2>6, SMTT(30)
  <2>. QED  BY <2>1, <2>4, <2>5, <2>6, <2>7
<1>. QED  BY <1>1, <1>2

------------------------------------------------------------------------------
(* The coins: what is added up *)

Held(c) == MapThenSumSet(LAMBDA p : c[p], Player)
Paid(j, K) == MapThenSumSet(LAMBDA k : Minted(j[k]), K)
Prizes(j) == [k \in Key |-> Minted(j[k])]
Standing(r, status) == {k \in Key : r[k].status = status}

LEMMA HeldIsTotal == ASSUME NEW c PROVE Held(c) = Total(c, Player)
BY DEF Held, MapThenSumSet, MapThenFoldSet, Total, Sum, Sums, AnyOf

LEMMA PaidIsTotal ==
    ASSUME NEW j, NEW K \in SUBSET Key, IsFiniteSet(K)
    PROVE  Paid(j, K) = Total(Prizes(j), K)
<1>. DEFINE IsPaid(F) == F = [s \in SUBSET K |-> IF s = {} THEN 0 ELSE Minted(j[AnyOf(s)]) + F[s \ {AnyOf(s)}]]
            G == CHOOSE F : IsPaid(F)
<1>1. Paid(j, K) = G[K]
  BY DEF Paid, MapThenSumSet, MapThenFoldSet, AnyOf
<1>2. \A F : IsPaid(F) <=> Sums(F, K, Prizes(j))
  <2>. TAKE F
  <2>1. \A s \in SUBSET K : s # {} => Minted(j[AnyOf(s)]) = Prizes(j)[AnyOf(s)]
    <3>. TAKE s \in SUBSET K
    <3>. HAVE s # {}
    <3>1. AnyOf(s) \in Key
      BY AnyIsOf
    <3>. QED  BY <3>1 DEF Prizes
  <2>. DEFINE A(s) == IF s = {} THEN 0 ELSE Minted(j[AnyOf(s)]) + F[s \ {AnyOf(s)}]
              B(s) == IF s = {} THEN 0 ELSE Prizes(j)[AnyOf(s)] + F[s \ {AnyOf(s)}]
  <2>2. \A s \in SUBSET K : A(s) = B(s)
    BY <2>1
  <2>3. IsPaid(F) <=> F = [s \in SUBSET K |-> A(s)]
    OBVIOUS
  <2>4. Sums(F, K, Prizes(j)) <=> F = [s \in SUBSET K |-> B(s)]
    BY DEF Sums
  <2>. HIDE DEF A, B, IsPaid
  <2>. QED  BY <2>2, <2>3, <2>4
<1>3. Sums(Sum(Prizes(j), K), K, Prizes(j))
  BY SumExists
<1>4. Sums(G, K, Prizes(j))
  <2>1. IsPaid(Sum(Prizes(j), K))
    BY <1>2, <1>3
  <2>. HIDE DEF IsPaid
  <2>. QED  BY <1>2, <2>1
<1>. HIDE DEF G
<1>5. G[K] = Sum(Prizes(j), K)[K]
  BY <1>3, <1>4, OneSum
<1>. QED  BY <1>1, <1>5 DEF Total

LEMMA EverythingIsFinite ==
    /\ IsFiniteSet(Player) /\ \A K \in SUBSET Key : IsFiniteSet(K)
<1>1. IsFiniteSet(1..MaxAttempts)
  BY BoundsAssumption, FS_Interval
<1>2. IsFiniteSet(Key)
  BY <1>1, PeopleAssumption, FS_Product DEF Key
<1>. QED  BY <1>2, PeopleAssumption, FS_Subset

\* What a transaction does to two balances, it does to the total.
LEMMA TwoBalances ==
    ASSUME NEW c \in [Player -> Int], NEW d \in [Player -> Int], NEW p \in Player, NEW q \in Player, p # q,
           \A x \in Player \ {p, q} : d[x] = c[x]
    PROVE  Total(c, Player) \in Int /\ Total(d, Player) = Total(c, Player) + (d[p] - c[p]) + (d[q] - c[q])
<1>. DEFINE one == Player \ {p}
            rest == (Player \ {p}) \ {q}
<1>1. IsFiniteSet(Player) /\ IsFiniteSet(one) /\ IsFiniteSet(rest)
  BY EverythingIsFinite, FS_Subset
<1>2. Total(c, Player) = c[p] + Total(c, one) /\ Total(d, Player) = d[p] + Total(d, one)
  BY <1>1, TotalWithout
<1>3. q \in one /\ rest = one \ {q}
  OBVIOUS
<1>4. Total(c, one) = c[q] + Total(c, rest)
  <2>. HIDE DEF one, rest
  <2>1. \A x \in one : c[x] \in Int
    BY DEF one
  <2>. QED  BY <1>1, <1>3, <2>1, TotalWithout
<1>5. Total(d, one) = d[q] + Total(d, rest)
  <2>. HIDE DEF one, rest
  <2>1. \A x \in one : d[x] \in Int
    BY DEF one
  <2>. QED  BY <1>1, <1>3, <2>1, TotalWithout
<1>6. Total(d, rest) = Total(c, rest) /\ Total(c, rest) \in Int
  <2>1. \A x \in rest : d[x] = c[x] /\ c[x] \in Int
    OBVIOUS
  <2>. HIDE DEF rest
  <2>. QED  BY <1>1, <2>1, TotalSame, TotalIsWhole
<1>. HIDE DEF one, rest
<1>. QED  BY <1>2, <1>4, <1>5, <1>6

LEMMA OneBalance ==
    ASSUME NEW c \in [Player -> Int], NEW d \in [Player -> Int], NEW p \in Player,
           \A x \in Player \ {p} : d[x] = c[x]
    PROVE  Total(c, Player) \in Int /\ Total(d, Player) = Total(c, Player) + (d[p] - c[p])
<1>. DEFINE one == Player \ {p}
<1>1. IsFiniteSet(Player) /\ IsFiniteSet(one)
  BY EverythingIsFinite, FS_Subset
<1>2. Total(c, Player) = c[p] + Total(c, one) /\ Total(d, Player) = d[p] + Total(d, one)
  BY <1>1, TotalWithout
<1>3. Total(d, one) = Total(c, one) /\ Total(c, one) \in Int
  <2>1. \A x \in one : d[x] = c[x] /\ c[x] \in Int
    OBVIOUS
  <2>. HIDE DEF one
  <2>. QED  BY <1>1, <2>1, TotalSame, TotalIsWhole
<1>. HIDE DEF one
<1>. QED  BY <1>2, <1>3

------------------------------------------------------------------------------
(* The steps that move coins, and what the others leave alone *)

WinnerPlayed(game, o) == o.kind \in {"win", "short"} => o.winner \in game.players

Quiet ==
    /\ coins' = coins /\ vault' = vault
    /\ \A k \in Key : /\ run'[k].status = run[k].status /\ run'[k].players = run[k].players
                      /\ job'[k] = job[k] \/ (run[k].status = "open" /\ WinnerPlayed(run[k], job'[k]))
Creation(k) == run[k].status = "none" /\ MayCreate(k) /\ Create(k)
Cancellation(k) == Unfinished(k) /\ Abort(k)
Transacts ==
    \/ Quiet
    \/ \E k \in Key : Creation(k) \/ Cancellation(k) \/ Settle(k)
    \/ \E p \in Player : ClaimPendingPayout(p)

LEMMA NothingMoves ==
    ASSUME RecordsTyped, UNCHANGED <<run, job, moneyVars>>
    PROVE  Quiet
BY DEF Quiet, moneyVars

LEMMA BoardsMove ==
    ASSUME RecordsTyped, NEW k \in Key, NEW b, run' = [run EXCEPT ![k].board = b],
           UNCHANGED <<job, moneyVars>>
    PROVE  Quiet
BY DEF Quiet, moneyVars, RecordsTyped, RunState

LEMMA WorkTransacts ==
    ASSUME RecordsTyped, RuntimeTyped, Database, Process, NEW r \in Room, Work(r)
    PROVE  Transacts
<1>1. CASE UNCHANGED durableVars
  BY <1>1, NothingMoves DEF durableVars, Transacts
<1>2. CASE CreateGameRun(r)
  <2>1. task[r].key \in Key /\ task[r].who \subseteq Player
    <3>1. task[r].stage = "create" /\ task[r] \in TaskState
      BY <1>2, KeysOfRooms DEF CreateGameRun, At
    <3> QED BY <3>1, StagesOfTasks DEF Creating, TaskState
  <2>2. ASSUME NEW old \in Stale(r), MayAbort(old), Abort(old) PROVE Transacts
    <3>1. old \in Key
      BY <2>1 DEF Stale, RecordsTyped
    <3> QED BY <2>2, <3>1 DEF MayAbort, Transacts, Cancellation
  <2>3. CASE run[task[r].key].status = "none" /\ MayCreate(task[r].key) /\ Create(task[r].key)
    BY <2>1, <2>3 DEF Transacts, Creation
  <2> QED BY <1>1, <1>2, <2>2, <2>3 DEF CreateGameRun
<1>3. CASE AbortCreation(r)
  <2>1. task[r].key \in Key
    BY <1>3, StagesOfTasks DEF AbortCreation, At, Creating
  <2>2. UNCHANGED durableVars \/ (MayAbort(task[r].key) /\ Abort(task[r].key))
    BY <1>3 DEF AbortCreation
  <2> QED BY <1>1, <2>1, <2>2 DEF MayAbort, Transacts, Cancellation
<1>4. CASE CancelStart(r)
  <2>1. \/ UNCHANGED durableVars
        \/ seen[r].key # NoKey /\ MayAbort(seen[r].key) /\ Abort(seen[r].key)
    BY <1>4 DEF CancelStart
  <2>2. seen[r].key # NoKey => seen[r].key \in Key
    BY KeysOfRooms
  <2> QED BY <1>1, <2>1, <2>2 DEF MayAbort, Transacts, Cancellation
<1>5. CASE OpenReveal(r)
  <2>1. task[r].key \in Key
    BY <1>5, StagesOfTasks DEF OpenReveal, At, Creating
  <2>2. UNCHANGED <<job, moneyVars>>
    BY <1>5 DEF OpenReveal
  <2>3. run' = run \/ run' = [run EXCEPT ![task[r].key].board = "opening"]
    BY <1>5 DEF OpenReveal
  <2> QED BY <2>1, <2>2, <2>3, NothingMoves, BoardsMove DEF Transacts
<1>6. CASE AcceptStart(r) \/ ResetRoom(r) \/ Depart(r)
  <2>1. UNCHANGED <<run, job, moneyVars>>
    BY <1>6 DEF AcceptStart, ResetRoom, Depart
  <2> QED BY <2>1, NothingMoves DEF Transacts
<1>7. CASE \/ BeginCreation(r) \/ CheckSessions(r) \/ InstallGame(r) \/ RereadRoom(r)
           \/ ReadStarted(r) \/ ReadCancelled(r) \/ ReadBeforeLeaving(r)
  <2>1. UNCHANGED durableVars
    BY <1>7 DEF BeginCreation, CheckSessions, InstallGame, RereadRoom, ReadStarted, ReadCancelled,
                ReadBeforeLeaving
  <2> QED BY <1>1, <2>1
<1> QED BY <1>2, <1>3, <1>4, <1>5, <1>6, <1>7 DEF Work

LEMMA StepTransacts ==
    ASSUME RecordsTyped, RuntimeTyped, Database, Process, [Next]_vars
    PROVE  Transacts
<1>1. ASSUME NEW r \in Room, Work(r) PROVE Transacts
  BY <1>1, WorkTransacts
<1>2. ASSUME NEW k \in Key, EndGame(k) PROVE Transacts
  <2>1. PICK o \in Outcome : WinnerPlayed(run[k], o) /\ job' = [job EXCEPT ![k] = o]
    BY <1>2 DEF EndGame, WinnerPlayed
  <2>2. UNCHANGED moneyVars /\ run' = [run EXCEPT ![k].board = "over"]
    BY <1>2 DEF EndGame
  <2>3. run[k].status = "open"
    BY <1>2 DEF EndGame, Process, GamesAreOpen, Unfinished
  <2>4. \A x \in Key : run'[x].status = run[x].status /\ run'[x].players = run[x].players
    BY <2>2 DEF RecordsTyped, RunState
  <2>5. job'[k] = o /\ \A x \in Key : x # k => job'[x] = job[x]
    BY <2>1 DEF RecordsTyped
  <2>6. coins' = coins /\ vault' = vault
    BY <2>2 DEF moneyVars
  <2>7. Quiet
    BY <2>1, <2>3, <2>4, <2>5, <2>6 DEF Quiet
  <2> QED BY <2>7 DEF Transacts
<1>3. ASSUME NEW k \in Key, Play(k) PROVE Transacts
  BY <1>3, BoardsMove DEF Play, Transacts
<1>4. ASSUME NEW k \in Key, Settle(k) \/ BootAbort(k) PROVE Transacts
  BY <1>4 DEF BootAbort, Uninstalled, Transacts, Cancellation
<1>5. ASSUME NEW p \in Player, ClaimPendingPayout(p) PROVE Transacts
  BY <1>5 DEF Transacts
<1>6. CASE \/ \E r \in Room : \/ ReadyToStart(r) \/ RetryFires(r) \/ Reconnect(r) \/ Refresh(r)
                              \/ BootReset(r) \/ AbandonLeaving(r)
           \/ \E r \in Room, p \in Player : OpenRoom(p, r) \/ JoinRoom(p, r) \/ LeaveRoom(p, r)
           \/ \E p \in Player : DismissResult(p)
           \/ Crash \/ BootUp \/ UNCHANGED vars
  <2>1. UNCHANGED <<run, job, moneyVars>>
    BY <1>6 DEF ReadyToStart, RetryFires, Reconnect, Resume, Refresh, BootReset, AbandonLeaving,
                OpenRoom, JoinRoom, LeaveRoom, DismissResult, Crash, BootUp, vars, durableVars
  <2> QED BY <2>1, NothingMoves DEF Transacts
<1> QED BY <1>1, <1>2, <1>3, <1>4, <1>5, <1>6 DEF Next

------------------------------------------------------------------------------
(* A game is between two people, from the drawing up of its start on *)

Pair(s) == \E p \in Player, q \in Player : p # q /\ s = {p, q}

RoomsArePairs == \A r \in Room : record[r].key # NoKey => Pair(record[r].players)
StartsArePairs == \A r \in Room : task[r].stage = "accept" => Pair(task[r].who)
RunsArePairs ==
    \A k \in Key : /\ run[k].status # "none" => Pair(run[k].players)
                   /\ WinnerPlayed(run[k], job[k])
Pairs == RoomsArePairs /\ StartsArePairs /\ RunsArePairs

LEMMA TwoArePair ==
    ASSUME NEW s \in SUBSET Player, Cardinality(s) = 2
    PROVE  Pair(s)
<1>1. IsFiniteSet(s)
  BY PeopleAssumption, FS_Subset
<1>2. s # {}
  BY FS_EmptySet
<1>3. PICK p \in s : TRUE
  BY <1>2
<1>. DEFINE rest == s \ {p}
<1>4. IsFiniteSet(rest) /\ Cardinality(rest) = 1
  BY <1>1, <1>3, FS_RemoveElement
<1>5. rest # {}
  <2>. HIDE DEF rest
  <2>. QED  BY <1>4, FS_EmptySet
<1>6. PICK q \in rest : TRUE
  BY <1>5
<1>. DEFINE none == rest \ {q}
<1>7. IsFiniteSet(none) /\ Cardinality(none) = 0
  <2>. HIDE DEF rest
  <2>. QED  BY <1>4, <1>6, FS_RemoveElement
<1>8. none = {}
  <2>. HIDE DEF none
  <2>. QED  BY <1>7, FS_EmptySet
<1>9. s = {p, q} /\ p # q /\ p \in Player /\ q \in Player
  BY <1>3, <1>6, <1>8
<1>. QED  BY <1>9 DEF Pair

\* A room comes to a start key by the acceptance of one, and keeps its players with it.
RoomKeeps(s) ==
    \/ record'[s].key = NoKey
    \/ record'[s].key = record[s].key /\ record'[s].players = record[s].players
    \/ /\ task[s].stage = "accept" /\ task[s].who = record[s].players
       /\ record'[s].players = record[s].players

\* No start is drawn up by this step in room s.
StartKept(s) == task'[s].stage = "accept" => task[s].stage = "accept" /\ task'[s].who = task[s].who

LEMMA OneRoomChanges ==
    ASSUME RecordsTyped, NEW r \in Room, NEW new, record' = [record EXCEPT ![r] = new],
           \/ new.key = NoKey
           \/ new.key = record[r].key /\ new.players = record[r].players
           \/ /\ task[r].stage = "accept" /\ task[r].who = record[r].players
              /\ new.players = record[r].players
    PROVE  \A s \in Room : RoomKeeps(s)
BY DEF RecordsTyped, RoomKeeps

LEMMA WorkKeepsRooms ==
    ASSUME RecordsTyped, RuntimeTyped, Database, Process, NEW r \in Room, Work(r)
    PROVE  \A s \in Room : RoomKeeps(s)
<1>1. CASE record' = record
  BY <1>1 DEF RoomKeeps
<1>2. CASE AcceptStart(r)
  <2>1. StartIsSound(r, task[r]) /\ task[r].stage = "accept"
    BY <1>2, StagesOfTasks DEF AcceptStart, At
  <2>2. seen[r] = record[r] /\ task[r].who = record[r].players /\ record[r] \in RoomState
    BY <2>1, KeysOfRooms DEF StartIsSound
  <2>. DEFINE new == [record[r] EXCEPT !.status = "starting", !.key = task[r].key]
  <2>3. new.players = record[r].players
    BY <2>2 DEF RoomState
  <2>4. record' = record \/ record' = [record EXCEPT ![r] = new]
    BY <1>2, <2>2 DEF AcceptStart, Write, RecordsTyped
  <2>. HIDE DEF new
  <2>. QED  BY <1>1, <2>1, <2>2, <2>3, <2>4, OneRoomChanges
<1>3. CASE ResetRoom(r)
  <2>. DEFINE new == [seen[r] EXCEPT !.status = "waiting", !.key = NoKey]
  <2>1. new.key = NoKey
    BY KeysOfRooms DEF RoomState
  <2>2. record' = record \/ record' = [record EXCEPT ![r] = new]
    BY <1>3 DEF ResetRoom, Write, RecordsTyped
  <2>. HIDE DEF new
  <2>. QED  BY <1>1, <2>1, <2>2, OneRoomChanges
<1>4. CASE Depart(r)
  <2>. DEFINE new == Without(seen[r], task[r].who)
  <2>1. record' = record \/ (seen[r] = record[r] /\ record' = [record EXCEPT ![r] = new])
    BY <1>4 DEF Depart, Write, RecordsTyped
  <2>2. record[r].status = "waiting"
    BY <1>4, StagesOfTasks DEF Depart, At, DepartureIsSound
  <2>3. record[r].key = NoKey /\ record[r] \in RoomState
    BY <2>2, KeysOfRooms DEF Database, RoomsAreKeyed, Keyed
  <2>4. seen[r] = record[r] => new.key = NoKey
    BY <2>3 DEF Without, Closed, Absent, RoomState
  <2>. HIDE DEF new
  <2>. QED  BY <1>1, <2>1, <2>4, OneRoomChanges
<1>5. ASSUME NEW k \in Key, Creation(k) PROVE \A s \in Room : RoomKeeps(s)
  BY <1>5, CreateShape DEF Creation, RoomKeeps
<1>6. ASSUME NEW k \in Key, Cancellation(k) PROVE \A s \in Room : RoomKeeps(s)
  BY <1>6, AbortShape DEF Cancellation, RoomKeeps
<1>7. CASE CreateGameRun(r) \/ AbortCreation(r) \/ CancelStart(r)
  <2>1. record' = record \/ \E k \in Key : Creation(k) \/ Cancellation(k)
    <3>1. CASE CreateGameRun(r)
      <4>1. task[r].key \in Key /\ task[r].who \subseteq Player
        <5>1. task[r].stage = "create" /\ task[r] \in TaskState
          BY <3>1, KeysOfRooms DEF CreateGameRun, At
        <5>. QED  BY <5>1, StagesOfTasks DEF Creating, TaskState
      <4>2. Stale(r) \subseteq Key
        BY <4>1 DEF Stale, RecordsTyped
      <4>. QED  BY <3>1, <4>1, <4>2 DEF CreateGameRun, durableVars, MayAbort, Creation, Cancellation
    <3>2. CASE AbortCreation(r)
      <4>1. task[r].key \in Key
        BY <3>2, StagesOfTasks DEF AbortCreation, At, Creating
      <4>. QED  BY <3>2, <4>1 DEF AbortCreation, durableVars, MayAbort, Cancellation
    <3>3. CASE CancelStart(r)
      <4>1. seen[r].key # NoKey => seen[r].key \in Key
        BY KeysOfRooms
      <4>. QED  BY <3>3, <4>1 DEF CancelStart, durableVars, MayAbort, Cancellation
    <3>. QED  BY <1>7, <3>1, <3>2, <3>3
  <2>. QED  BY <1>1, <1>5, <1>6, <2>1
<1>8. CASE \/ BeginCreation(r) \/ CheckSessions(r) \/ InstallGame(r) \/ RereadRoom(r) \/ OpenReveal(r)
           \/ ReadStarted(r) \/ ReadCancelled(r) \/ ReadBeforeLeaving(r)
  <2>1. record' = record
    BY <1>8 DEF BeginCreation, CheckSessions, InstallGame, RereadRoom, OpenReveal, ReadStarted,
                ReadCancelled, ReadBeforeLeaving, durableVars
  <2>. QED  BY <1>1, <2>1
<1>. QED  BY <1>2, <1>3, <1>4, <1>7, <1>8 DEF Work

LEMMA StepKeepsRooms ==
    ASSUME RecordsTyped, RuntimeTyped, Database, Process, [Next]_vars
    PROVE  \A s \in Room : RoomKeeps(s)
<1>1. ASSUME NEW r \in Room, Work(r) PROVE \A s \in Room : RoomKeeps(s)
  BY <1>1, WorkKeepsRooms
<1>2. ASSUME NEW r \in Room, BootReset(r) PROVE \A s \in Room : RoomKeeps(s)
  <2>1. record[r] \in RoomState /\ record' = [record EXCEPT ![r].status = "waiting", ![r].key = NoKey]
    BY <1>2 DEF BootReset, RecordsTyped
  <2>2. record'[r].key = NoKey /\ \A s \in Room : s # r => record'[s] = record[s]
    BY <2>1 DEF RecordsTyped, RoomState
  <2>. QED  BY <2>2 DEF RoomKeeps
<1>3. ASSUME NEW r \in Room, NEW p \in Player, OpenRoom(p, r) PROVE \A s \in Room : RoomKeeps(s)
  <2>. DEFINE new == [Absent EXCEPT !.status = "waiting", !.players = {p}]
  <2>1. new.key = NoKey /\ record' = [record EXCEPT ![r] = new]
    BY <1>3 DEF OpenRoom, Absent
  <2>. HIDE DEF new
  <2>. QED  BY <2>1, OneRoomChanges
<1>4. ASSUME NEW r \in Room, NEW p \in Player, JoinRoom(p, r) PROVE \A s \in Room : RoomKeeps(s)
  <2>1. record[r].status = "waiting" /\ record' = [record EXCEPT ![r].players = @ \cup {p}]
    BY <1>4 DEF JoinRoom
  <2>2. record[r].key = NoKey /\ record[r] \in RoomState
    BY <2>1, KeysOfRooms DEF Database, RoomsAreKeyed, Keyed
  <2>3. record'[r].key = NoKey /\ \A s \in Room : s # r => record'[s] = record[s]
    BY <2>1, <2>2 DEF RecordsTyped, RoomState
  <2>. QED  BY <2>3 DEF RoomKeeps
<1>5. ASSUME NEW k \in Key, EndGame(k) PROVE \A s \in Room : RoomKeeps(s)
  <2>1. RoomOf(k) \in Room /\ Closed.key = NoKey /\ record' = [record EXCEPT ![RoomOf(k)] = Closed]
    BY <1>5, KeyFacts DEF EndGame, Closed, Absent
  <2>. QED  BY <2>1, OneRoomChanges
<1>6. ASSUME NEW k \in Key, BootAbort(k) PROVE \A s \in Room : RoomKeeps(s)
  BY <1>6, AbortShape DEF BootAbort, Uninstalled, RoomKeeps
<1>7. CASE \/ \E r \in Room : \/ ReadyToStart(r) \/ RetryFires(r) \/ Reconnect(r) \/ Refresh(r)
                              \/ AbandonLeaving(r)
           \/ \E r \in Room, p \in Player : LeaveRoom(p, r)
           \/ \E k \in Key : Play(k) \/ Settle(k)
           \/ \E p \in Player : DismissResult(p) \/ ClaimPendingPayout(p)
           \/ Crash \/ BootUp \/ UNCHANGED vars
  <2>1. record' = record
    BY <1>7 DEF ReadyToStart, RetryFires, Reconnect, Resume, Refresh, AbandonLeaving, LeaveRoom, Play,
                Settle, DismissResult, ClaimPendingPayout, Crash, BootUp, vars, durableVars
  <2>. QED  BY <2>1 DEF RoomKeeps
<1>. QED  BY <1>1, <1>2, <1>3, <1>4, <1>5, <1>6, <1>7 DEF Next

\* Work only ever takes its task past the acceptance.
MovesOn(r) ==
    \/ task' = task
    \/ task' = [task EXCEPT ![r] = Idle]
    \/ \E stage \in Stage \ {"accept"} : Moves(r, stage)
    \/ Moves(r, task[r].stage)

LEMMA MovesKeepStarts ==
    ASSUME RuntimeTyped, NEW r \in Room, MovesOn(r)
    PROVE  \A s \in Room : StartKept(s)
<1>1. CASE task' = task
  BY <1>1 DEF StartKept
<1>2. CASE task' = [task EXCEPT ![r] = Idle]
  <2>1. task'[r].stage # "accept" /\ \A s \in Room : s # r => task'[s] = task[s]
    BY <1>2 DEF RuntimeTyped, Idle
  <2>. QED  BY <2>1 DEF StartKept
<1>3. ASSUME NEW stage \in Stage \ {"accept"}, Moves(r, stage) PROVE \A s \in Room : StartKept(s)
  BY <1>3 DEF Moves, StartKept
<1>4. CASE Moves(r, task[r].stage)
  BY <1>4 DEF Moves, StartKept
<1>. QED  BY <1>1, <1>2, <1>3, <1>4 DEF MovesOn

LEMMA GoMovesOn ==
    ASSUME RuntimeTyped, NEW r \in Room, NEW stage \in Stage \ {"accept"}, Go(r, stage)
    PROVE  MovesOn(r)
BY GoMoves DEF MovesOn

LEMMA TryMovesOn ==
    ASSUME RuntimeTyped, NEW r \in Room, task' = [task EXCEPT ![r].stage = "reread", ![r].tries = @ + 1]
    PROVE  MovesOn(r)
<1>1. Moves(r, "reread") /\ "reread" \in Stage \ {"accept"}
  BY TryMoves DEF Stage
<1>. QED  BY <1>1 DEF MovesOn

LEMMA FinishedMovesOn ==
    ASSUME NEW r \in Room, NEW copy, Finished(r, copy)
    PROVE  MovesOn(r)
BY DEF Finished, MovesOn

LEMMA StagesAhead ==
    {"begin", "create", "check", "open", "install", "abort", "reread", "done", "cancel", "cancelled",
     "reset", "depart"} \subseteq Stage \ {"accept"}
BY DEF Stage

LEMMA WorkMovesOn ==
    ASSUME RuntimeTyped, NEW r \in Room, Work(r)
    PROVE  MovesOn(r)
<1>1. CASE AcceptStart(r)
  <2>1. \/ Go(r, "begin")
        \/ \E copy \in {record'[r], seen[r]} : Finished(r, copy)
    BY <1>1 DEF AcceptStart, Write
  <2>. QED  BY <2>1, StagesAhead, GoMovesOn, FinishedMovesOn
<1>2. CASE BeginCreation(r)
  <2>1. \/ Go(r, "create")
        \/ task' = [task EXCEPT ![r].stage = "reread", ![r].tries = @ + 1]
    BY <1>2 DEF BeginCreation
  <2>. QED  BY <2>1, StagesAhead, GoMovesOn, TryMovesOn
<1>3. CASE CreateGameRun(r)
  <2>1. task' = task \/ Go(r, "check") \/ Thrown(r)
    BY <1>3 DEF CreateGameRun, runtimeVars
  <2>. QED  BY <2>1, StagesAhead, GoMovesOn, TryMovesOn DEF Thrown, MovesOn
<1>4. CASE OpenReveal(r)
  <2>1. Go(r, "install") \/ Thrown(r)
    BY <1>4 DEF OpenReveal
  <2>. QED  BY <2>1, StagesAhead, GoMovesOn, TryMovesOn DEF Thrown
<1>5. CASE CheckSessions(r)
  <2>1. Go(r, "open") \/ Go(r, "abort")
    BY <1>5 DEF CheckSessions
  <2>. QED  BY <2>1, StagesAhead, GoMovesOn
<1>6. CASE InstallGame(r)
  <2>1. Go(r, "done") \/ Go(r, "abort")
    BY <1>6 DEF InstallGame
  <2>. QED  BY <2>1, StagesAhead, GoMovesOn
<1>7. CASE AbortCreation(r)
  BY <1>7, TryMovesOn DEF AbortCreation, Thrown
<1>8. CASE RereadRoom(r)
  <2>1. \/ \E copy \in {record[r], seen[r]} : Finished(r, copy)
        \/ Go(r, "begin") \/ Go(r, "cancel")
    BY <1>8 DEF RereadRoom
  <2>. QED  BY <2>1, StagesAhead, GoMovesOn, FinishedMovesOn
<1>9. CASE ReadStarted(r)
  <2>1. \/ Finished(r, record[r])
        \/ task' = [task EXCEPT ![r].stage = "reread", ![r].tries = @ + 1]
    BY <1>9 DEF ReadStarted
  <2>. QED  BY <2>1, TryMovesOn, FinishedMovesOn
<1>10. CASE CancelStart(r)
  <2>1. \/ Finished(r, seen[r]) \/ Go(r, "cancelled")
        \/ task' = [task EXCEPT ![r].tries = 3]
    BY <1>10 DEF CancelStart
  <2>. QED  BY <2>1, StagesAhead, GoMovesOn, FinishedMovesOn, TriesMove DEF MovesOn
<1>11. CASE ReadCancelled(r)
  <2>1. \/ \E copy \in {record[r], seen[r]} : Finished(r, copy)
        \/ Go(r, "reset") \/ Go(r, "depart")
    BY <1>11 DEF ReadCancelled
  <2>. QED  BY <2>1, StagesAhead, GoMovesOn, FinishedMovesOn
<1>12. CASE ResetRoom(r)
  <2>1. \/ \E copy \in {record'[r], seen[r]} : Finished(r, copy)
        \/ Go(r, "depart") \/ task' = [task EXCEPT ![r] = Idle]
    BY <1>12 DEF ResetRoom, Write
  <2>. QED  BY <2>1, StagesAhead, GoMovesOn, FinishedMovesOn DEF MovesOn
<1>13. CASE ReadBeforeLeaving(r)
  <2>1. \/ \E copy \in {record[r], seen[r]} : Finished(r, copy)
        \/ \E stage \in {"cancel", "depart"} : task' = [task EXCEPT ![r].stage = stage, ![r].tries = 2]
    BY <1>13 DEF ReadBeforeLeaving
  <2>2. ASSUME NEW stage \in {"cancel", "depart"}, task' = [task EXCEPT ![r].stage = stage, ![r].tries = 2]
        PROVE  MovesOn(r)
    <3>1. task \in [Room -> TaskState] /\ task[r] \in TaskState
      BY DEF RuntimeTyped
    <3>2. /\ task'[r] = [[task[r] EXCEPT !.stage = stage] EXCEPT !.tries = 2]
          /\ \A s \in Room : s # r => task'[s] = task[s]
      BY <2>2, <3>1
    <3>3. Moves(r, stage)
      BY <3>1, <3>2 DEF TaskState, Moves
    <3>. QED  BY <3>3, StagesAhead DEF MovesOn
  <2>. QED  BY <2>1, <2>2, FinishedMovesOn
<1>14. CASE Depart(r)
  <2>1. \E copy \in {record'[r], seen[r], Without(seen[r], task[r].who)} : Finished(r, copy)
    BY <1>14 DEF Depart, Write
  <2>. QED  BY <2>1, FinishedMovesOn
<1>. QED  BY <1>1, <1>2, <1>3, <1>4, <1>5, <1>6, <1>7, <1>8, <1>9, <1>10, <1>11, <1>12, <1>13,
             <1>14 DEF Work

\* The one step that draws up a start finds two members in the room.
LEMMA StartsStayPairs ==
    ASSUME RecordsTyped, RuntimeTyped, Database, Process, StartsArePairs, [Next]_vars
    PROVE  StartsArePairs'
<1>1. ASSUME \A s \in Room : StartKept(s) PROVE StartsArePairs'
  <2>1. ASSUME NEW s \in Room, task'[s].stage = "accept" PROVE Pair(task'[s].who)
    BY <1>1, <2>1 DEF StartKept, StartsArePairs
  <2>. QED  BY <2>1 DEF StartsArePairs
<1>2. ASSUME NEW r \in Room, Work(r) PROVE StartsArePairs'
  BY <1>1, <1>2, WorkMovesOn, MovesKeepStarts
<1>3. ASSUME NEW r \in Room, ReadyToStart(r) PROVE StartsArePairs'
  <2>1. /\ Cardinality(record[r].players) = 2
        /\ task'[r].who = record[r].players /\ \A s \in Room : s # r => task'[s] = task[s]
    <3>1. Cardinality(record[r].players) = 2
      BY <1>3 DEF ReadyToStart
    <3>2. PICK n \in 1..MaxAttempts : Begun(r, "accept", FALSE, record[r].players, <<r, n>>)
      BY <1>3 DEF ReadyToStart
    <3>3. /\ task'[r].stage = "accept" /\ task'[r].leaving = FALSE /\ task'[r].who = record[r].players
          /\ task'[r].key = <<r, n>> /\ task'[r].tries = 0
          /\ \A s \in Room : s # r => task'[s] = task[s]
      BY <3>2, BegunMoves
    <3>. QED  BY <3>1, <3>3
  <2>2. Pair(record[r].players)
    BY <2>1, KeysOfRooms, TwoArePair DEF RoomState
  <2>3. ASSUME NEW s \in Room, task'[s].stage = "accept" PROVE Pair(task'[s].who)
    BY <2>1, <2>2, <2>3 DEF StartsArePairs
  <2>. QED  BY <2>3 DEF StartsArePairs
<1>4. ASSUME NEW r \in Room, NEW stage \in {"begin", "leave"}, NEW leaving, NEW who, NEW key,
             Begun(r, stage, leaving, who, key)
      PROVE  StartsArePairs'
  <2>1. task'[r].stage = stage /\ \A s \in Room : s # r => task'[s] = task[s]
    BY <1>4, BegunMoves
  <2>. QED  BY <1>1, <2>1 DEF StartKept
<1>5. CASE task' = task
  BY <1>1, <1>5 DEF StartKept
<1>6. ASSUME NEW r \in Room, RetryFires(r) \/ Reconnect(r) PROVE StartsArePairs'
  <2>1. task' = task \/ Begun(r, "begin", FALSE, seen[r].players, seen[r].key)
    BY <1>6 DEF RetryFires, Reconnect, Resume
  <2>. QED  BY <1>4, <1>5, <2>1
<1>7. ASSUME NEW r \in Room, NEW p \in Player, LeaveRoom(p, r) PROVE StartsArePairs'
  BY <1>4, <1>7 DEF LeaveRoom
<1>8. ASSUME NEW r \in Room, AbandonLeaving(r) PROVE StartsArePairs'
  BY <1>1, <1>8, FinishedMovesOn, MovesKeepStarts DEF AbandonLeaving
<1>9. CASE Crash
  BY <1>9 DEF Crash, Idle, StartsArePairs
<1>10. CASE \/ \E r \in Room : Refresh(r) \/ BootReset(r)
            \/ \E r \in Room, p \in Player : OpenRoom(p, r) \/ JoinRoom(p, r)
            \/ \E k \in Key : Play(k) \/ EndGame(k) \/ Settle(k) \/ BootAbort(k)
            \/ \E p \in Player : DismissResult(p) \/ ClaimPendingPayout(p)
            \/ BootUp \/ UNCHANGED vars
  <2>1. task' = task
    BY <1>10 DEF Refresh, BootReset, OpenRoom, JoinRoom, Play, EndGame, Settle, BootAbort, DismissResult,
                 ClaimPendingPayout, BootUp, vars, runtimeVars
  <2>. QED  BY <1>5, <2>1
<1>. QED  BY <1>2, <1>3, <1>6, <1>7, <1>8, <1>9, <1>10 DEF Next

LEMMA StepKeepsPairs ==
    ASSUME RecordsTyped, RuntimeTyped, Database, Process, Pairs, [Next]_vars
    PROVE  Pairs'
<1>1. StartsArePairs'
  BY StartsStayPairs DEF Pairs
<1>2. RoomsArePairs'
  <2>1. ASSUME NEW s \in Room, record'[s].key # NoKey PROVE Pair(record'[s].players)
    <3>1. RoomKeeps(s)
      BY StepKeepsRooms
    <3>. QED  BY <2>1, <3>1 DEF RoomKeeps, Pairs, RoomsArePairs, StartsArePairs
  <2>. QED  BY <2>1 DEF RoomsArePairs
<1>3. RunsArePairs'
  <2>1. Transacts
    BY StepTransacts
  <2>2. CASE Quiet
    BY <2>2 DEF Quiet, Pairs, RunsArePairs, WinnerPlayed
  <2>3. ASSUME NEW k \in Key, Creation(k) PROVE RunsArePairs'
    <3>1. /\ record[RoomOf(k)].key = k /\ run'[k].players = record[RoomOf(k)].players
          /\ job' = job /\ \A x \in Key : x # k => run'[x] = run[x]
      BY <2>3, CreateShape DEF Creation
    <3>2. Pair(run'[k].players)
      BY <3>1, KeyFacts DEF Pairs, RoomsArePairs
    <3>3. job[k].kind = "none"
      BY <2>3 DEF Creation, Database, RunsAreRecorded, NoJob
    <3>. QED  BY <3>1, <3>2, <3>3 DEF Pairs, RunsArePairs, WinnerPlayed
  <2>4. ASSUME NEW k \in Key, Cancellation(k) PROVE RunsArePairs'
    <3>1. /\ \A x \in Key : run'[x].players = run[x].players /\ (x # k => run'[x] = run[x])
          /\ job' = job /\ run[k].status = "open"
      BY <2>4, AbortShape DEF Cancellation, Unfinished
    <3>. QED  BY <3>1 DEF Pairs, RunsArePairs, WinnerPlayed
  <2>5. ASSUME NEW k \in Key, Settle(k) PROVE RunsArePairs'
    <3>1. job' = job /\ run[k].status = "open" /\ run' = [run EXCEPT ![k].status = "settled"]
      BY <2>5 DEF Settle, Unsettled
    <3>2. \A x \in Key : run'[x].players = run[x].players /\ (x # k => run'[x] = run[x])
      BY <3>1 DEF RecordsTyped, RunState
    <3>. QED  BY <3>1, <3>2 DEF Pairs, RunsArePairs, WinnerPlayed
  <2>6. ASSUME NEW p \in Player, ClaimPendingPayout(p) PROVE RunsArePairs'
    BY <2>6 DEF ClaimPendingPayout, Pairs, RunsArePairs, WinnerPlayed
  <2>. QED  BY <2>1, <2>2, <2>3, <2>4, <2>5, <2>6 DEF Transacts
<1>. QED  BY <1>1, <1>2, <1>3 DEF Pairs

LEMMA PairsAtFirst == Init => Pairs
<1>1. SUFFICES ASSUME Init PROVE Pairs
  OBVIOUS
<1>2. RoomsArePairs
  BY <1>1 DEF Init, RoomsArePairs, Closed, Absent
<1>3. StartsArePairs
  BY <1>1 DEF Init, StartsArePairs, Idle
<1>4. RunsArePairs
  BY <1>1 DEF Init, RunsArePairs, WinnerPlayed, NoRun, NoJob
<1>. QED  BY <1>2, <1>3, <1>4 DEF Pairs

------------------------------------------------------------------------------
(* The balance *)

Stakes(r) == 2 * Stake * Cardinality(Standing(r, "open"))
Paidout(r, j) == Total(Prizes(j), Standing(r, "settled"))

Balance == Total(coins, Player) + vault + Stakes(run) = Fund * Cardinality(Player) + Paidout(run, job)

LEMMA WholeAmounts ==
    ASSUME NEW r, NEW j
    PROVE  Stakes(r) \in Int /\ Paidout(r, j) \in Int
<1>1. Standing(r, "open") \in SUBSET Key /\ Standing(r, "settled") \in SUBSET Key
  BY DEF Standing
<1>2. Cardinality(Standing(r, "open")) \in Nat
  BY <1>1, EverythingIsFinite, FS_CardinalityType
<1>3. Stakes(r) \in Int
  BY <1>2, Amounts DEF Stakes
<1>4. \A k \in Standing(r, "settled") : Prizes(j)[k] \in Int
  BY <1>1, Amounts DEF Prizes, Minted
<1>5. IsFiniteSet(Standing(r, "settled"))
  BY <1>1, EverythingIsFinite
<1>. QED  BY <1>3, <1>4, <1>5, TotalIsWhole DEF Paidout

LEMMA OneMoreStake ==
    ASSUME NEW r, NEW q, NEW k \in Key, r[k].status # "open", Standing(q, "open") = Standing(r, "open") \cup {k}
    PROVE  Stakes(r) \in Int /\ Stakes(q) = Stakes(r) + 2 * Stake
<1>. DEFINE S == Standing(r, "open")
            n == Cardinality(S)
<1>1. IsFiniteSet(S) /\ k \notin S
  BY EverythingIsFinite DEF Standing
<1>2. n \in Nat /\ Cardinality(S \cup {k}) = n + 1
  BY <1>1, FS_AddElement, FS_CardinalityType
<1>3. Stakes(r) = 2 * Stake * n /\ Stakes(q) = 2 * Stake * (n + 1)
  BY <1>2 DEF Stakes
<1>. HIDE DEF n
<1>. QED  BY <1>2, <1>3, Amounts, SMTT(30)

\* A run that is settled adds its prizes, and no other changes its own.
LEMMA OneMorePrize ==
    ASSUME NEW r, NEW q, NEW j, NEW k \in Key, r[k].status # "settled",
           Standing(q, "settled") = Standing(r, "settled") \cup {k}
    PROVE  Paidout(r, j) \in Int /\ Minted(j[k]) \in Int /\ Paidout(q, j) = Paidout(r, j) + Minted(j[k])
<1>. DEFINE S == Standing(r, "settled")
            T == Standing(q, "settled")
            v == Prizes(j)
<1>1. S \in SUBSET Key /\ k \notin S /\ T = S \cup {k} /\ IsFiniteSet(S) /\ IsFiniteSet(T)
  BY EverythingIsFinite DEF Standing
<1>2. \A x \in T : v[x] \in Int
  BY <1>1, Amounts DEF Prizes, Minted
<1>3. v[k] = Minted(j[k])
  BY DEF Prizes
<1>4. Paidout(q, j) = Total(v, T) /\ Paidout(r, j) = Total(v, S) /\ S = T \ {k} /\ k \in T
  BY <1>1 DEF Paidout
<1>. HIDE DEF S, T, v
<1>5. Total(v, T) = v[k] + Total(v, T \ {k})
  BY <1>1, <1>2, <1>4, TotalWithout
<1>6. Total(v, S) \in Int
  BY <1>1, <1>2, TotalIsWhole
<1>. QED  BY <1>2, <1>3, <1>4, <1>5, <1>6

LEMMA QuietKeepsBalance ==
    ASSUME RecordsTyped, Balance, Quiet
    PROVE  Balance'
<1>1. Standing(run, "open")' = Standing(run, "open") /\ Standing(run, "settled")' = Standing(run, "settled")
  BY DEF Quiet, Standing
<1>2. Stakes(run)' = Stakes(run)
  BY <1>1 DEF Stakes
<1>3. Paidout(run, job)' = Paidout(run, job)
  <2>. DEFINE S == Standing(run, "settled")
              v == Prizes(job)
              w == Prizes(job')
  <2>1. S \in SUBSET Key /\ IsFiniteSet(S)
    BY EverythingIsFinite DEF Standing
  <2>2. \A k \in S : v[k] = w[k]
    BY DEF Quiet, Standing, Prizes
  <2>3. Paidout(run, job) = Total(v, S) /\ Paidout(run, job)' = Total(w, S)
    BY <1>1 DEF Paidout
  <2>. HIDE DEF S, v, w
  <2>. QED  BY <2>1, <2>2, <2>3, TotalSame
<1>4. Total(coins, Player)' = Total(coins, Player) /\ vault' = vault
  BY DEF Quiet
<1>. QED  BY <1>2, <1>3, <1>4 DEF Balance

LEMMA CreationKeepsBalance ==
    ASSUME RecordsTyped, MoneyTyped, Database, Pairs, Balance, NEW k \in Key, Creation(k)
    PROVE  Balance'
<1>1. /\ record[RoomOf(k)].key = k /\ run[k].status = "none" /\ run'[k].status = "open" /\ job' = job
      /\ \A x \in Key : x # k => run'[x] = run[x]
  BY CreateShape DEF Creation
<1>2. PICK p \in Player, q \in Player : p # q /\ record[RoomOf(k)].players = {p, q}
  BY <1>1, KeyFacts DEF Pairs, RoomsArePairs, Pair
<1>3. vault' = vault /\ coins' = [x \in Player |-> IF x \in {p, q} THEN coins[x] - Stake ELSE coins[x]]
  BY <1>2 DEF Creation, Create, Debit
<1>4. coins \in [Player -> Int] /\ coins' \in [Player -> Int] /\ vault \in Int
  BY <1>3, Amounts DEF MoneyTyped
<1>5. /\ \A x \in Player \ {p, q} : coins'[x] = coins[x]
      /\ coins'[p] - coins[p] = -Stake /\ coins'[q] - coins[q] = -Stake
  BY <1>3, <1>4, Amounts
<1>6. Total(coins, Player) \in Int /\ Total(coins', Player) = Total(coins, Player) - 2 * Stake
  <2>1. /\ Total(coins, Player) \in Int
        /\ Total(coins', Player) = Total(coins, Player) + (coins'[p] - coins[p]) + (coins'[q] - coins[q])
    BY <1>2, <1>4, <1>5, TwoBalances
  <2>. QED  BY <1>5, <2>1, Amounts
<1>7. Standing(run', "open") = Standing(run, "open") \cup {k}
  BY <1>1 DEF Standing
<1>8. Stakes(run) \in Int /\ Stakes(run') = Stakes(run) + 2 * Stake
  BY <1>1, <1>7, OneMoreStake
<1>9. Standing(run', "settled") = Standing(run, "settled")
  BY <1>1 DEF Standing
<1>10. Paidout(run', job') = Paidout(run, job)
  BY <1>1, <1>9 DEF Paidout
<1>. QED  BY <1>3, <1>4, <1>6, <1>8, <1>10, Amounts DEF Balance

LEMMA CancellationKeepsBalance ==
    ASSUME RecordsTyped, MoneyTyped, Database, Pairs, Balance, NEW k \in Key, Cancellation(k)
    PROVE  Balance'
<1>1. /\ run[k].status = "open" /\ run'[k].status = "aborted" /\ job' = job
      /\ \A x \in Key : x # k => run'[x] = run[x]
  BY AbortShape DEF Cancellation, Unfinished
<1>2. PICK p \in Player, q \in Player : p # q /\ run[k].players = {p, q}
  BY <1>1 DEF Pairs, RunsArePairs, Pair
<1>3. vault' = vault /\ coins' = [x \in Player |-> IF x \in {p, q} THEN coins[x] + Stake ELSE coins[x]]
  BY <1>2 DEF Cancellation, Abort
<1>4. coins \in [Player -> Int] /\ coins' \in [Player -> Int] /\ vault \in Int
  BY <1>3, Amounts DEF MoneyTyped
<1>5. /\ \A x \in Player \ {p, q} : coins'[x] = coins[x]
      /\ coins'[p] - coins[p] = Stake /\ coins'[q] - coins[q] = Stake
  BY <1>3, <1>4, Amounts
<1>6. Total(coins, Player) \in Int /\ Total(coins', Player) = Total(coins, Player) + 2 * Stake
  <2>1. /\ Total(coins, Player) \in Int
        /\ Total(coins', Player) = Total(coins, Player) + (coins'[p] - coins[p]) + (coins'[q] - coins[q])
    BY <1>2, <1>4, <1>5, TwoBalances
  <2>. QED  BY <1>5, <2>1, Amounts
<1>7. Standing(run, "open") = Standing(run', "open") \cup {k}
  BY <1>1 DEF Standing
<1>8. Stakes(run') \in Int /\ Stakes(run) = Stakes(run') + 2 * Stake
  BY <1>1, <1>7, OneMoreStake
<1>9. Standing(run', "settled") = Standing(run, "settled")
  BY <1>1 DEF Standing
<1>10. Paidout(run', job') = Paidout(run, job)
  BY <1>1, <1>9 DEF Paidout
<1>. QED  BY <1>3, <1>4, <1>6, <1>8, <1>10, Amounts DEF Balance

LEMMA ClaimKeepsBalance ==
    ASSUME RecordsTyped, MoneyTyped, Balance, NEW p \in Player, ClaimPendingPayout(p)
    PROVE  Balance'
<1>1. run' = run /\ job' = job /\ vault' = vault - Bounty /\ coins' = [coins EXCEPT ![p] = @ + Bounty]
  BY DEF ClaimPendingPayout
<1>2. coins \in [Player -> Int] /\ coins' \in [Player -> Int] /\ vault \in Int
  BY <1>1, Amounts DEF MoneyTyped
<1>3. coins'[p] - coins[p] = Bounty /\ \A x \in Player \ {p} : coins'[x] = coins[x]
  BY <1>1, <1>2, Amounts
<1>4. Total(coins, Player) \in Int /\ Total(coins', Player) = Total(coins, Player) + Bounty
  BY <1>2, <1>3, OneBalance
<1>. QED  BY <1>1, <1>2, <1>4, WholeAmounts, Amounts DEF Balance

\* What a settlement hands out is the stakes and what it newly pays, of which the vault
\* takes its tax and gives the bounty.
LEMMA SettlementHandsOut ==
    ASSUME RecordsTyped, MoneyTyped, NEW k \in Key, Settle(k), WinnerPlayed(run[k], job[k]),
           NEW p \in Player, NEW q \in Player, p # q, run[k].players = {p, q},
           job[k].kind \in {"win", "short"} => job[k].winner = p
    PROVE  /\ \A x \in Player \ {p, q} : coins'[x] = coins[x]
           /\ (coins'[p] - coins[p]) + (coins'[q] - coins[q]) + (vault' - vault) = 2 * Stake + Minted(job[k])
<1>. DEFINE o == job[k]
            tax == IF o.kind = "win" THEN Tax ELSE 0
            taxed == vault + tax
            first == {x \in run[k].players : o.kind \in {"win", "short"} /\ x = o.winner /\ bounty[x] = "none"}
            paid == Payable(taxed, first)
            given == IF p \in paid THEN Bounty ELSE 0
<1>1. o \in Outcome
  BY DEF Settle, Unsettled, RecordsTyped
<1>2. /\ coins' = [x \in Player |-> coins[x] + (IF x \in {p, q} THEN Credit(o, x) ELSE 0)
                                             + (IF x \in paid THEN Bounty ELSE 0)]
      /\ vault' = taxed - Bounty * Cardinality(paid)
  BY DEF Settle
<1>3. paid = {} \/ paid = {p}
  BY DEF Payable
<1>4. Bounty * Cardinality(paid) = given
  <2>1. CASE paid = {}
    <3>1. Cardinality(paid) = 0 /\ given = 0
      BY <2>1, FS_EmptySet
    <3>. HIDE DEF paid, given
    <3>. QED  BY <3>1, Amounts
  <2>2. CASE paid = {p}
    <3>1. Cardinality({p}) = 1
      BY FS_Singleton
    <3>2. Cardinality(paid) = 1 /\ given = Bounty
      BY <2>2, <3>1
    <3>. HIDE DEF paid, given
    <3>. QED  BY <3>2, Amounts
  <2>. QED  BY <1>3, <2>1, <2>2
<1>5. coins \in [Player -> Int] /\ vault \in Int /\ tax \in Int /\ given \in Int /\ Tax \in Int
  BY TaxIsAffordable, Amounts DEF MoneyTyped
<1>6. Credit(o, p) \in Int /\ Credit(o, q) \in Int
  BY <1>1, CreditIsPaid
<1>7. vault' - vault = tax - given
  <2>. HIDE DEF paid, given, tax
  <2>. QED  BY <1>2, <1>4, <1>5
<1>8. /\ \A x \in Player \ {p, q} : coins'[x] = coins[x]
      /\ coins'[p] - coins[p] = Credit(o, p) + given
      /\ coins'[q] - coins[q] = Credit(o, q)
  <2>1. q \notin paid /\ \A x \in Player \ {p, q} : x \notin paid
    BY <1>3
  <2>. HIDE DEF paid, tax
  <2>. QED  BY <1>2, <1>5, <1>6, <2>1
<1>9. Credit(o, p) + Credit(o, q) + tax = 2 * Stake + Minted(o)
  <2>1. o.kind \in {"win", "short", "draw", "abandoned"} /\ (o.kind \in {"win", "short"} => o.winner = p)
    BY <1>1 DEF Outcome
  <2>2. CASE o.kind = "abandoned" BY <2>2, Amounts DEF Credit, Minted
  <2>3. CASE o.kind = "draw" BY <2>3, Amounts DEF Credit, Minted
  <2>4. CASE o.kind = "short" BY <2>1, <2>4, Amounts DEF Credit, Minted
  <2>5. CASE o.kind = "win" BY <1>5, <2>1, <2>5, Amounts DEF Credit, Minted
  <2>. QED  BY <2>1, <2>2, <2>3, <2>4, <2>5
<1>10. Minted(o) \in Int
  BY Amounts DEF Minted
<1>. HIDE DEF o, given, tax, paid
<1>. QED  BY <1>5, <1>6, <1>7, <1>8, <1>9, <1>10, Amounts DEF o

LEMMA SettlementKeepsBalance ==
    ASSUME RecordsTyped, MoneyTyped, MoneyTyped', Database, Pairs, Balance, NEW k \in Key, Settle(k)
    PROVE  Balance'
<1>1. run[k].status = "open" /\ job' = job /\ run' = [run EXCEPT ![k].status = "settled"]
  BY DEF Settle, Unsettled
<1>2. run'[k].status = "settled" /\ \A x \in Key : x # k => run'[x] = run[x]
  BY <1>1 DEF RecordsTyped, RunState
<1>3. Pair(run[k].players) /\ WinnerPlayed(run[k], job[k])
  BY <1>1 DEF Pairs, RunsArePairs
<1>4. PICK p \in Player, q \in Player : /\ p # q /\ run[k].players = {p, q}
                                        /\ job[k].kind \in {"win", "short"} => job[k].winner = p
  BY <1>3 DEF Pair, WinnerPlayed
<1>5. /\ \A x \in Player \ {p, q} : coins'[x] = coins[x]
      /\ (coins'[p] - coins[p]) + (coins'[q] - coins[q]) + (vault' - vault) = 2 * Stake + Minted(job[k])
  BY <1>3, <1>4, SettlementHandsOut
<1>6. coins \in [Player -> Int] /\ coins' \in [Player -> Int] /\ vault \in Int /\ vault' \in Int
  BY DEF MoneyTyped
<1>7. /\ Total(coins, Player) \in Int
      /\ Total(coins', Player) = Total(coins, Player) + (coins'[p] - coins[p]) + (coins'[q] - coins[q])
  BY <1>4, <1>5, <1>6, TwoBalances
<1>8. Standing(run, "open") = Standing(run', "open") \cup {k}
  BY <1>1, <1>2 DEF Standing
<1>9. Stakes(run') \in Int /\ Stakes(run) = Stakes(run') + 2 * Stake
  BY <1>2, <1>8, OneMoreStake
<1>10. Standing(run', "settled") = Standing(run, "settled") \cup {k}
  BY <1>1, <1>2 DEF Standing
<1>11. /\ Paidout(run, job) \in Int /\ Minted(job[k]) \in Int
       /\ Paidout(run', job) = Paidout(run, job) + Minted(job[k])
  <2>1. run[k].status # "settled"
    BY <1>1
  <2>. QED  BY <1>10, <2>1, OneMorePrize
<1>12. Fund * Cardinality(Player) \in Int
  BY EverythingIsFinite, FS_CardinalityType, Amounts
<1>. DEFINE paid == Minted(job[k])
            fund == Fund * Cardinality(Player)
            stakes == 2 * Stake
            gained == coins'[p] - coins[p]
            won == coins'[q] - coins[q]
            old == vault
            new == vault'
            had == Total(coins, Player)
            has == Total(coins', Player)
            staked == Stakes(run)
            left == Stakes(run')
            minted == Paidout(run, job)
            more == Paidout(run', job')
<1>14. /\ gained \in Int /\ won \in Int /\ paid \in Int /\ fund \in Int /\ stakes \in Int
       /\ old \in Int /\ new \in Int /\ had \in Int /\ left \in Int /\ minted \in Int
  BY <1>6, <1>7, <1>9, <1>11, <1>12, Amounts
<1>15. /\ has = had + gained + won
       /\ gained + won + (new - old) = stakes + paid
       /\ staked = left + stakes
       /\ more = minted + paid
  BY <1>1, <1>5, <1>7, <1>9, <1>11
<1>16. had + old + staked = fund + minted
  BY DEF Balance
<1>17. has + new + left = fund + more
  <2>. HIDE DEF paid, fund, stakes, gained, won, old, new, had, has, staked, left, minted, more
  <2>. QED  BY <1>14, <1>15, <1>16
<1>. QED  BY <1>17 DEF Balance

LEMMA BalanceAtFirst == Init => Balance
<1>1. SUFFICES ASSUME Init PROVE Balance
  OBVIOUS
<1>2. coins = [p \in Player |-> Fund] /\ vault = 0 /\ \A k \in Key : run[k].status = "none"
  BY <1>1 DEF Init, NoRun
<1>3. Total(coins, Player) = Fund * Cardinality(Player)
  <2>1. IsFiniteSet(Player) /\ Fund \in Nat /\ \A p \in Player : coins[p] = Fund
    BY <1>2, EverythingIsFinite, Amounts
  <2>. QED  BY <2>1, TotalOfEqual
<1>4. Standing(run, "open") = {} /\ Standing(run, "settled") = {}
  BY <1>2 DEF Standing
<1>5. Stakes(run) = 0
  <2>1. Cardinality({}) = 0
    BY FS_EmptySet
  <2>. QED  BY <1>4, <2>1, Amounts DEF Stakes
<1>6. Paidout(run, job) = 0
  <2>1. IsFiniteSet({})
    BY FS_EmptySet
  <2>. QED  BY <1>4, <2>1, TotalIs DEF Paidout
<1>7. Fund * Cardinality(Player) \in Int
  BY EverythingIsFinite, FS_CardinalityType, Amounts
<1>. QED  BY <1>2, <1>3, <1>5, <1>6, <1>7 DEF Balance

LEMMA StepKeepsBalance ==
    ASSUME RecordsTyped, MoneyTyped, RuntimeTyped, Database, Process, MoneyTyped', Pairs, Balance,
           [Next]_vars
    PROVE  Balance'
BY StepTransacts, QuietKeepsBalance, CreationKeepsBalance, CancellationKeepsBalance,
   SettlementKeepsBalance, ClaimKeepsBalance DEF Transacts

LEMMA BalancedIsConserved ==
    ASSUME MoneyTyped, Balance
    PROVE  CoinsAreConserved
<1>1. vault >= 0 /\ \A p \in Player : coins[p] >= 0
  BY DEF MoneyTyped
<1>2. Held(coins) = Total(coins, Player)
  BY HeldIsTotal
<1>3. Standing(run, "settled") \in SUBSET Key
  BY DEF Standing
<1>4. Paid(job, Standing(run, "settled")) = Paidout(run, job)
  BY <1>3, EverythingIsFinite, PaidIsTotal DEF Paidout
<1>5. Held(coins) + vault + Stakes(run) = Fund * Cardinality(Player) + Paid(job, Standing(run, "settled"))
  BY <1>2, <1>4 DEF Balance
<1>. QED  BY <1>1, <1>5 DEF CoinsAreConserved, Held, Paid, Stakes, Standing

\* Coins come from nowhere but the prizes of settled games and go nowhere: no start that
\* is tried again takes a stake twice, no run that is cancelled by a task, a departure or
\* a restart returns one twice, and none is both returned and won.  Every game has two
\* players, and each transaction moves between their coins, the vault and the open runs
\* what it takes from one of them, however many people and runs there are.
THEOREM CoinsAreNeverLost == Spec => []CoinsAreConserved
<1>. DEFINE Sound == IInv /\ Pairs /\ Balance
<1>1. Init => Sound
  BY InitIsSound, PairsAtFirst, BalanceAtFirst
<1>2. Sound /\ [Next]_vars => Sound'
  <2>. SUFFICES ASSUME IInv, Pairs, Balance, [Next]_vars
                 PROVE  IInv' /\ Pairs' /\ Balance'
    OBVIOUS
  <2>2. RecordsTyped /\ MoneyTyped /\ RuntimeTyped /\ Database /\ Process
    BY TypeOKParts DEF IInv
  <2>3. IInv'
    BY StepIsSound
  <2>4. MoneyTyped'
    BY <2>2, StepPays
  <2>. QED  BY <2>2, <2>3, <2>4, StepKeepsPairs, StepKeepsBalance
<1>3. Sound => CoinsAreConserved
  BY TypeOKParts, BalancedIsConserved DEF IInv
<1>. QED  BY <1>1, <1>2, <1>3, PTL DEF Spec
==============================================================================
