----------------------------- MODULE ResultsProofs -----------------------------
(***************************************************************************)
(* What holds of a finished game's result in every reachable state, for    *)
(* any players, spectators and bounds.                                     *)
(*                                                                         *)
(* The rows of the database agree by themselves, whatever the process does *)
(* (Rows).  What the work in progress knows, and how the sessions relate   *)
(* to those rows, holds on top of that (Steps, Screens).                   *)
(***************************************************************************)
EXTENDS Results, SequenceTheorems, TLAPS

------------------------------------------------------------------------------
(* The inductive invariant *)

Status == {"open", "starting", "rematched", "closed"}

Record ==
    [status: Status, viewing: SUBSET Player, requested: SUBSET Player,
     watching: SUBSET Spectator, key: 0..MaxRematches]

RunState == {"none", "open", "opened", "over", "aborted"}

Task ==
    [kind: {"leave", "ask", "expire", "restore", "resume"}, user: Person \cup {Nobody}, connection: Nat, now: Nat]

Where == {"absent", "idle", "result", "child", "away"}

Stage ==
    {"idle", "cancel", "cancelled", "change", "reread", "confirm", "regret", "create", "again", "seat", "seated", "settle"}

DurableTypes ==
    /\ record \in Record /\ claim \subseteq Person /\ elsewhere \subseteq Person
    /\ rematch \in [Rematch -> RunState] /\ seat \in [Player -> 0..MaxRematches]
    /\ used \in 0..MaxRematches /\ receipts \in BOOLEAN

WorkTypes ==
    /\ serving \in {"down", "restoring", "serving"} /\ alive \in BOOLEAN /\ online \in [Person -> BOOLEAN]
    /\ queue \in Seq(Task) /\ stage \in Stage /\ tries \in {0, 1}
    /\ resuming \in BOOLEAN /\ restart \in BOOLEAN /\ expiry \in {0, 1, Due, Unset}

ViewTypes ==
    /\ copy \in Record /\ child \in RunState /\ playing \subseteq Rematch
    /\ session \in [Person -> Where] /\ connections \in [Person -> Nat]
    /\ clock \in 0..Due /\ resultFaults \in 0..MaxResultFaults

TypeOK == DurableTypes /\ WorkTypes /\ ViewTypes

Running(run) == run \in {"open", "opened"}

\* The claims are those of the record.
ClaimsAreViews == claim = ViewersOf(record)

\* A running rematch holds both seats, and there are no other seats.
SeatsAreRuns ==
    /\ \A p \in Player : seat[p] # None => Running(rematch[seat[p]])
    /\ \A k \in Rematch : Running(rematch[k]) => \A p \in Player : seat[p] = k

\* The keys drawn so far; the last of them may be the record's.
KeysAreFresh ==
    /\ \A k \in Rematch : k > used => rematch[k] = "none"
    /\ record.key # None => record.key = used
    /\ record.status = "starting" => record.key # None /\ rematch[record.key] = "none" /\ record.viewing = Player
    /\ record.status = "rematched" => record.key # None /\ rematch[record.key] # "none"

Rows == ClaimsAreViews /\ HoldsOneThing /\ SeatsAreRuns /\ KeysAreFresh

Starting == {"create", "seat", "seated", "settle", "again"}

\* What the work knows at each point of undoing or creating a rematch.
StagesAreSound ==
    /\ stage \in {"cancel", "create", "seat", "seated"} => copy.status \in {"starting", "rematched"}
    /\ stage \in {"cancel", "create", "seat", "seated"} /\ record.status = "rematched" /\ Running(RunOf(record)) =>
          record.key \notin playing
    /\ stage = "create" => copy = record /\ child = RunOf(record) /\ Pending(copy, child)
    /\ stage \in {"seat", "seated", "settle"} => copy = record \/ copy.status = "starting"
    /\ stage \in {"seat", "seated", "settle"} => record.status = "rematched"
    /\ stage \in {"seat", "seated"} => Running(RunOf(record))
    /\ stage = "seat" => child \in {"none", RunOf(record)}
    /\ stage = "seated" => RunOf(record) = "opened"
    /\ stage \in Starting => \A p \in Player : session[p] # "absent"

\* A rematch that was seen to be over is over, and one that is played exists.
RunsAreKnown ==
    /\ child = "over" => copy.key # None /\ rematch[copy.key] = "over"
    /\ \A k \in playing : rematch[k] # "none"

NoRestore(q) == \A i \in 1..Len(q) : q[i].kind # "restore"

\* The result has been shown to everyone again since the last start.
Restored == alive /\ (serving = "serving" \/ (serving = "restoring" /\ NoRestore(queue)))

Screens ==
    /\ \A u \in Person : session[u] = "away" => u \in elsewhere
    /\ \A u \in Person : session[u] = "child" => u \in Player /\ seat[u] # None /\ seat[u] \in playing
    /\ \A u \in Person : session[u] = "result" => u \in Wanted(copy, child)
    /\ serving # "down" => \A p \in Player : session[p] = "absent" => seat[p] = None
    /\ Restored => \A u \in Person : session[u] = "absent" => u \notin claim
    /\ Restored /\ copy = record /\ child = RunOf(record) => \A u \in claim : session[u] = "result"

IInv == TypeOK /\ Rows /\ StagesAreSound /\ RunsAreKnown /\ Screens

------------------------------------------------------------------------------
(* The record and what the reducers make of it *)

LEMMA RecordFields ==
    ASSUME NEW r \in Record
    PROVE  /\ r.status \in {"open", "starting", "rematched", "closed"}
           /\ r.viewing \subseteq Player /\ r.requested \subseteq Player /\ r.watching \subseteq Spectator
           /\ r.key \in 0..MaxRematches
           /\ ViewersOf(r) \subseteq Person
BY DEF Record, Status, ViewersOf, Person

\* Whoever leaves, and nobody else, stops viewing; what is left empty is closed.
LEMMA WithdrawShrinks ==
    ASSUME NEW r \in Record, NEW who, NEW w, w = ClosedIfEmpty(Withdraw(r, who))
    PROVE  /\ w \in Record /\ w.key = r.key /\ w.status \in {r.status, "closed"}
           /\ w.viewing = r.viewing \ who /\ w.watching = r.watching \ who
           /\ ViewersOf(w) \subseteq ViewersOf(r)
<1> DEFINE v == Withdraw(r, who)
<1>1. /\ v \in Record /\ v.key = r.key /\ v.status = r.status
      /\ v.viewing = r.viewing \ who /\ v.watching = r.watching \ who
  BY DEF Withdraw, Record
<1> HIDE DEF v
<1>2. w = v \/ w = [v EXCEPT !.status = "closed"]
  BY DEF ClosedIfEmpty, v
<1>3. /\ w \in Record /\ w.key = v.key /\ w.status \in {v.status, "closed"}
      /\ w.viewing = v.viewing /\ w.watching = v.watching
  BY <1>1, <1>2 DEF Record, Status
<1> QED BY <1>1, <1>3 DEF ViewersOf

LEMMA ExpireShrinks ==
    ASSUME NEW r \in Record, NEW now, NEW w, w = Expire(r, now)
    PROVE  /\ w \in Record /\ w.key = r.key /\ w.status \in {r.status, "closed"}
           /\ w.viewing \subseteq r.viewing /\ w.watching \subseteq r.watching
           /\ ViewersOf(w) \subseteq ViewersOf(r)
           /\ Outdated(r, now) \cap Player = {} => w.viewing = r.viewing
<1> DEFINE who == Outdated(r, now)
<1>1. w = ClosedIfEmpty(Withdraw(r, who))
  BY DEF Expire
<1>2. r.viewing \subseteq Player
  BY DEF Record
<1> HIDE DEF who
<1>3. /\ w \in Record /\ w.key = r.key /\ w.status \in {r.status, "closed"}
      /\ w.viewing = r.viewing \ who /\ w.watching = r.watching \ who
      /\ ViewersOf(w) \subseteq ViewersOf(r)
  BY <1>1, WithdrawShrinks
<1> QED BY <1>2, <1>3 DEF who

\* A cancelled rematch leaves an open result that both view, or what time leaves of it.
LEMMA CancelledReopens ==
    ASSUME NEW r \in Record, NEW now, NEW w, w = Expire(AfterCancelled(r), now)
    PROVE  /\ w \in Record /\ w.key = None /\ w.status \in {"open", "closed"}
           /\ ViewersOf(w) \subseteq Player \cup r.watching
<1> DEFINE v == AfterCancelled(r)
<1>1. /\ v \in Record /\ v.key = None /\ v.status = "open"
      /\ v.viewing = Player /\ v.watching = r.watching
  <2>1. "open" \in Status /\ None \in 0..MaxRematches
    BY ResultAssumption DEF Status, None
  <2>2. /\ [r EXCEPT !.status = "open", !.key = None] \in Record
        /\ [r EXCEPT !.status = "open", !.key = None].key = None
    BY <2>1 DEF Record
  <2> QED BY <2>1, <2>2 DEF AfterCancelled, Record
<1> HIDE DEF v
<1>2. w = Expire(v, now)
  BY DEF v
<1> QED BY <1>1, <1>2, ExpireShrinks DEF ViewersOf

LEMMA RequestKeeps ==
    ASSUME NEW r \in Record, NEW u, DurableTypes, MayAsk(r, u), used < MaxRematches, NEW w, w = WithRequest(r, u)
    PROVE  /\ w \in Record /\ ViewersOf(w) = ViewersOf(r) /\ w.viewing = Player
           /\ w = [r EXCEPT !.requested = w.requested] \/ (w.status = "starting" /\ w.key = used + 1)
           /\ w.status \in {"open", "starting"} /\ (w.status = "open" => w.key = r.key)
<1> DEFINE asked == r.requested \cup {u}
<1>1. asked \subseteq Player /\ r.status = "open" /\ r.viewing = Player
  BY DEF MayAsk, Record
<1>2. used + 1 \in 0..MaxRematches
  BY ResultAssumption DEF DurableTypes
<1> HIDE DEF asked
<1>3. CASE asked = Player
  <2>1. w = [r EXCEPT !.requested = asked, !.status = "starting", !.key = used + 1]
    BY <1>3 DEF WithRequest, asked
  <2> QED BY <2>1, <1>1, <1>2 DEF Record, Status, ViewersOf
<1>4. CASE asked # Player
  <2>1. w = [r EXCEPT !.requested = asked]
    BY <1>4 DEF WithRequest, asked
  <2> QED BY <2>1, <1>1 DEF Record, Status, ViewersOf
<1> QED BY <1>3, <1>4

------------------------------------------------------------------------------
(* What the transactions do to the rows *)

\* A claim is a view, so whoever views the result holds nothing else.
LEMMA ViewersAreFree ==
    ASSUME DurableTypes, Rows, NEW u \in ViewersOf(record)
    PROVE  u \in claim /\ u \notin elsewhere /\ (u \in Player => seat[u] = None)
BY DEF Rows, ClaimsAreViews, HoldsOneThing, DurableTypes

\* Fewer look at the result than before.
LEMMA SavingFewer ==
    ASSUME DurableTypes, Rows, NEW r \in Record, ViewersOf(r) \subseteq ViewersOf(record), r.key = record.key,
           r.status \in {record.status, "closed"}, r.status = "starting" => r.viewing = Player,
           Save(r), UNCHANGED <<rematch, seat, elsewhere>>, receipts' \in BOOLEAN,
           used' = used \/ used' = IF r.key = None THEN used ELSE r.key
    PROVE  DurableTypes' /\ Rows' /\ claim' \subseteq claim
<1>1. used' = used
  BY DEF Rows, KeysAreFresh
<1>2. record' = r /\ claim' = ViewersOf(r) /\ claim' \subseteq claim
  BY DEF Save, Rows, ClaimsAreViews
<1>3. DurableTypes'
  BY <1>1, <1>2, RecordFields DEF DurableTypes
<1>4. ClaimsAreViews'
  BY <1>2 DEF ClaimsAreViews
<1>5. HoldsOneThing'
  BY <1>2 DEF Rows, HoldsOneThing
<1>6. SeatsAreRuns'
  BY DEF Rows, SeatsAreRuns
<1>7. KeysAreFresh'
  BY <1>1, <1>2 DEF Rows, KeysAreFresh
<1> QED BY <1>2, <1>3, <1>4, <1>5, <1>6, <1>7 DEF Rows

\* The key of a request that completes the consent is drawn afresh.
LEMMA SavingRequest ==
    ASSUME DurableTypes, Rows, NEW u, MayAsk(record, u), used < MaxRematches,
           NEW r, r = WithRequest(record, u), Save(r), UNCHANGED <<rematch, seat, elsewhere>>,
           receipts' \in BOOLEAN, used' = IF r.key = None THEN used ELSE r.key
    PROVE  DurableTypes' /\ Rows' /\ claim' = claim
<1>1. record \in Record /\ used \in 0..MaxRematches
  BY DEF DurableTypes
<1>2. /\ r \in Record /\ ViewersOf(r) = ViewersOf(record) /\ r.viewing = Player
      /\ r = [record EXCEPT !.requested = r.requested] \/ (r.status = "starting" /\ r.key = used + 1)
      /\ r.status \in {"open", "starting"} /\ (r.status = "open" => r.key = record.key)
  BY <1>1, RequestKeeps
<1>3. record' = r /\ claim' = ViewersOf(r) /\ claim' = claim
  BY <1>2 DEF Save, Rows, ClaimsAreViews
<1>4. r.key \in 0..MaxRematches /\ record.status = "open"
  BY <1>2 DEF Record, MayAsk
<1>5. ASSUME r.status = "starting" /\ r.key = used + 1
      PROVE  KeysAreFresh' /\ used' \in 0..MaxRematches
  <2>1. used + 1 \in Rematch /\ used' = used + 1 /\ r.key # None
    BY <1>1, <1>5, ResultAssumption DEF Rematch, None
  <2>2. rematch[used + 1] = "none" /\ \A k \in Rematch : k > used + 1 => rematch[k] = "none"
    BY <1>1, <2>1 DEF Rows, KeysAreFresh, Rematch
  <2>3. KeysAreFresh'
    BY <1>2, <1>3, <1>5, <2>1, <2>2 DEF KeysAreFresh
  <2>4. used' \in 0..MaxRematches
    BY <2>1, <1>4, <1>5
  <2> QED BY <2>3, <2>4
<1>6. ASSUME r = [record EXCEPT !.requested = r.requested]
      PROVE  KeysAreFresh' /\ used' \in 0..MaxRematches
  <2>1. r.key = record.key /\ r.status = "open"
    BY <1>1, <1>4, <1>6 DEF Record
  <2>2. used' = used
    BY <2>1 DEF Rows, KeysAreFresh
  <2>3. KeysAreFresh'
    BY <1>3, <2>1, <2>2 DEF Rows, KeysAreFresh
  <2> QED BY <1>1, <2>2, <2>3
<1>7. KeysAreFresh' /\ used' \in 0..MaxRematches
  BY <1>2, <1>5, <1>6
<1>8. DurableTypes'
  BY <1>2, <1>3, <1>7, RecordFields DEF DurableTypes
<1>9. ClaimsAreViews' /\ HoldsOneThing' /\ SeatsAreRuns'
  BY <1>3 DEF Rows, ClaimsAreViews, HoldsOneThing, SeatsAreRuns
<1> QED BY <1>3, <1>7, <1>8, <1>9 DEF Rows

\* Both view the result again.  Neither holds anything else: a rematch that has not
\* been created leaves them their views, and one that has, its seats.
LEMMA Cancelling ==
    ASSUME DurableTypes, Rows, record.status \in {"starting", "rematched"}, RunOf(record) = "none",
           NEW now, Save(Expire(AfterCancelled(record), now)), UNCHANGED <<rematch, seat, elsewhere, receipts, used>>
    PROVE  /\ DurableTypes' /\ Rows' /\ claim' \subseteq claim
           /\ record'.status \in {"open", "closed"}
<1>1. record \in Record
  BY DEF DurableTypes
<1>2. record.status = "starting" /\ record.viewing = Player
  BY DEF Rows, KeysAreFresh, RunOf
<1> DEFINE r == Expire(AfterCancelled(record), now)
<1>3. /\ r \in Record /\ r.key = None /\ r.status \in {"open", "closed"}
      /\ ViewersOf(r) \subseteq Player \cup record.watching
  BY <1>1, CancelledReopens
<1> HIDE DEF r
<1>4. record' = r /\ claim' = ViewersOf(r)
  BY DEF Save, r
<1>5. claim' \subseteq claim
  BY <1>2, <1>3, <1>4 DEF Rows, ClaimsAreViews, ViewersOf
<1>6. DurableTypes'
  BY <1>3, <1>4, RecordFields DEF DurableTypes
<1>7. ClaimsAreViews' /\ HoldsOneThing' /\ SeatsAreRuns'
  BY <1>4, <1>5 DEF Rows, ClaimsAreViews, HoldsOneThing, SeatsAreRuns
<1>8. KeysAreFresh'
  BY <1>3, <1>4 DEF Rows, KeysAreFresh
<1> QED BY <1>3, <1>4, <1>5, <1>6, <1>7, <1>8 DEF Rows

\* The record's run, where there is one, is that of a key that was drawn.
LEMMA RunHasKey ==
    ASSUME DurableTypes, RunOf(record) # "none"
    PROVE  record.key \in Rematch /\ RunOf(record) = rematch[record.key]
BY RecordFields DEF DurableTypes, RunOf, Rematch, None

LEMMA Creating ==
    ASSUME DurableTypes, Rows, MayCreate, Create
    PROVE  /\ DurableTypes' /\ Rows' /\ claim' \subseteq claim
           /\ record'.status = "rematched" /\ RunOf(record)' = "open" /\ record'.key = record.key
           /\ \A k \in Rematch : rematch[k] = "over" => rematch'[k] = "over"
           /\ \A k \in Rematch : rematch[k] # "none" => rematch'[k] # "none"
<1>1. record \in Record /\ record.status = "starting" /\ record.key \in Rematch /\ record.key # None
      /\ rematch[record.key] = "none"
  BY RecordFields DEF DurableTypes, Rows, KeysAreFresh, MayCreate, Rematch, None
<1> DEFINE r == [record EXCEPT !.status = "rematched", !.viewing = {}, !.requested = {}]
<1>2. /\ r \in Record /\ r.status = "rematched" /\ r.key = record.key /\ ViewersOf(r) = record.watching
  <2>1. [record EXCEPT !.status = "rematched"] \in Record
    BY <1>1 DEF Record, Status
  <2>2. [record EXCEPT !.status = "rematched", !.viewing = {}] \in Record
    BY <2>1 DEF Record
  <2>3. r \in Record /\ r.viewing = {} /\ r.watching = record.watching /\ r.key = record.key /\ r.status = "rematched"
    BY <2>2 DEF Record
  <2> QED BY <2>3 DEF ViewersOf
<1> HIDE DEF r
<1>3. record' = r /\ claim' = ViewersOf(r)
  BY DEF Create, Save, r
<1>4. claim' = record.watching /\ record.watching \subseteq Spectator /\ claim' \subseteq claim
  BY <1>1, <1>2, <1>3, RecordFields DEF Rows, ClaimsAreViews, ViewersOf
<1>5. /\ rematch' = [rematch EXCEPT ![record.key] = "open"] /\ seat' = [p \in Player |-> record.key]
      /\ UNCHANGED <<elsewhere, receipts, used>>
  BY DEF Create
<1>6. /\ \A k \in Rematch : rematch'[k] = IF k = record.key THEN "open" ELSE rematch[k]
      /\ \A p \in Player : seat[p] = None /\ seat'[p] = record.key /\ p \notin elsewhere
  BY <1>5, <1>1 DEF DurableTypes, MayCreate
<1>7. DurableTypes'
  <2>1. record' \in Record /\ claim' \subseteq Person /\ elsewhere' \subseteq Person
    BY <1>2, <1>3, <1>5, RecordFields DEF DurableTypes
  <2>2. rematch' \in [Rematch -> RunState]
    BY <1>5 DEF DurableTypes, RunState
  <2>3. seat' \in [Player -> 0..MaxRematches]
    BY <1>5, <1>1, RecordFields
  <2> QED BY <2>1, <2>2, <2>3, <1>5 DEF DurableTypes
<1>8. ClaimsAreViews'
  BY <1>3 DEF ClaimsAreViews
<1>9. HoldsOneThing'
  BY <1>4, <1>5, <1>6, ResultAssumption DEF Rows, HoldsOneThing
<1>10. SeatsAreRuns'
  <2>1. \A k \in Rematch : Running(rematch[k]) => Player = {}
    BY <1>1, <1>6 DEF Rows, SeatsAreRuns, Rematch, None
  <2> QED BY <1>1, <1>6, <2>1 DEF SeatsAreRuns, Running
<1>11. KeysAreFresh'
  <2>1. record.key = used /\ used \in Nat
    BY <1>1 DEF Rows, KeysAreFresh, DurableTypes
  <2>2. \A k \in Rematch : k > used' => rematch'[k] = "none"
    BY <1>5, <1>6, <2>1 DEF Rows, KeysAreFresh, Rematch
  <2> QED BY <1>1, <1>2, <1>3, <1>5, <1>6, <2>1, <2>2 DEF KeysAreFresh
<1>12. RunOf(record)' = "open"
  BY <1>1, <1>2, <1>3, <1>6 DEF RunOf
<1> QED BY <1>1, <1>2, <1>3, <1>4, <1>6, <1>7, <1>8, <1>9, <1>10, <1>11, <1>12 DEF Rows

LEMMA Aborting ==
    ASSUME DurableTypes, Rows, MayAbort, Abort
    PROVE  /\ DurableTypes' /\ Rows'
           /\ record'.status \in {"open", "closed"} /\ elsewhere' = elsewhere
           /\ \A p \in Player : seat[p] = record.key /\ seat'[p] = None
           /\ claim' \subseteq claim \cup Player
           /\ \A k \in Rematch : rematch'[k] = IF k = record.key THEN "aborted" ELSE rematch[k]
<1>1. record \in Record /\ record.key \in Rematch /\ Running(rematch[record.key])
  BY RunHasKey DEF DurableTypes, MayAbort, Running
<1>2. \A p \in Player : seat[p] = record.key /\ seat[p] # None /\ p \notin elsewhere
  BY <1>1 DEF Rows, SeatsAreRuns, HoldsOneThing, Rematch, None
<1> DEFINE r == Expire(AfterCancelled(record), clock)
<1>3. /\ r \in Record /\ r.key = None /\ r.status \in {"open", "closed"}
      /\ ViewersOf(r) \subseteq Player \cup record.watching
  BY <1>1, CancelledReopens
<1> HIDE DEF r
<1>4. record' = r /\ claim' = ViewersOf(r)
  BY DEF Abort, Save, r
<1>5. /\ rematch' = [rematch EXCEPT ![record.key] = "aborted"] /\ seat' = [p \in Player |-> None]
      /\ UNCHANGED <<elsewhere, receipts, used>>
  BY DEF Abort
<1>6. claim' \subseteq claim \cup Player /\ claim' \cap elsewhere = {}
  BY <1>2, <1>3, <1>4 DEF Rows, ClaimsAreViews, HoldsOneThing, ViewersOf
<1>7. /\ \A k \in Rematch : rematch'[k] = IF k = record.key THEN "aborted" ELSE rematch[k]
      /\ \A p \in Player : seat'[p] = None
  BY <1>1, <1>5 DEF DurableTypes
<1>8. DurableTypes'
  <2>1. record' \in Record /\ claim' \subseteq Person /\ elsewhere' \subseteq Person
    BY <1>3, <1>4, <1>5, RecordFields DEF DurableTypes
  <2>2. rematch' \in [Rematch -> RunState]
    BY <1>5 DEF DurableTypes, RunState
  <2>3. seat' \in [Player -> 0..MaxRematches]
    BY <1>5, ResultAssumption DEF None
  <2> QED BY <2>1, <2>2, <2>3, <1>5 DEF DurableTypes
<1>9. ClaimsAreViews' /\ HoldsOneThing'
  BY <1>4, <1>5, <1>6, <1>7 DEF ClaimsAreViews, HoldsOneThing
<1>10. SeatsAreRuns'
  <2>1. \A k \in Rematch \ {record.key} : Running(rematch[k]) => Player = {}
    BY <1>2 DEF Rows, SeatsAreRuns
  <2> QED BY <1>7, <2>1 DEF SeatsAreRuns, Running
<1>11. KeysAreFresh'
  <2>1. used \in Nat /\ \A k \in Rematch : k > used => k # record.key
    BY <1>1 DEF Rows, KeysAreFresh, DurableTypes, Running, Rematch
  <2> QED BY <1>3, <1>4, <1>5, <1>7, <2>1 DEF Rows, KeysAreFresh
<1> QED BY <1>2, <1>3, <1>4, <1>5, <1>6, <1>7, <1>8, <1>9, <1>10, <1>11 DEF Rows

\* The reveal of a reserved rematch, and the end of one that is played, leave the
\* record and the claims alone.
LEMMA Opening ==
    ASSUME DurableTypes, Rows, record.status = "rematched", Running(RunOf(record)), OpenReveal
    PROVE  /\ DurableTypes' /\ Rows' /\ RunOf(record)' = "opened"
           /\ \A k \in Rematch : rematch[k] = "over" => rematch'[k] = "over"
           /\ \A k \in Rematch : rematch[k] # "none" => rematch'[k] # "none"
<1>1. record \in Record /\ record.key \in Rematch /\ Running(rematch[record.key]) /\ record.key # None
  BY RunHasKey DEF DurableTypes, Running, Rematch, None
<1>2. /\ rematch' = [rematch EXCEPT ![record.key] = "opened"]
      /\ UNCHANGED <<record, claim, seat, elsewhere, receipts, used>>
  BY DEF OpenReveal
<1>3. \A k \in Rematch : rematch'[k] = IF k = record.key THEN "opened" ELSE rematch[k]
  BY <1>1, <1>2 DEF DurableTypes
<1>4. DurableTypes'
  BY <1>2 DEF DurableTypes, RunState
<1>5. ClaimsAreViews' /\ HoldsOneThing'
  BY <1>2 DEF Rows, ClaimsAreViews, HoldsOneThing, ViewersOf
<1>6. SeatsAreRuns'
  BY <1>1, <1>2, <1>3 DEF Rows, SeatsAreRuns, Running, Rematch, None, DurableTypes
<1>7. KeysAreFresh'
  <2>1. used \in Nat /\ \A k \in Rematch : k > used => k # record.key
    BY <1>1 DEF Rows, KeysAreFresh, DurableTypes, Running, Rematch
  <2> QED BY <1>1, <1>2, <1>3, <2>1 DEF Rows, KeysAreFresh
<1>8. RunOf(record)' = "opened"
  BY <1>1, <1>2, <1>3 DEF RunOf
<1> QED BY <1>1, <1>3, <1>4, <1>5, <1>6, <1>7, <1>8 DEF Rows, Running

------------------------------------------------------------------------------
(* The queue and the end of a piece of work *)

LEMMA QueueGrows ==
    ASSUME NEW q \in Seq(Task), NEW t \in Task
    PROVE  Append(q, t) \in Seq(Task) /\ (NoRestore(Append(q, t)) => NoRestore(q))
<1>1. Append(q, t) \in Seq(Task) /\ Len(Append(q, t)) = Len(q) + 1
      /\ \A i \in 1..Len(q) : Append(q, t)[i] = q[i]
  BY AppendProperties
<1>2. Len(q) \in Nat
  BY LenProperties
<1> QED BY <1>1, <1>2 DEF NoRestore

LEMMA QueueShrinks ==
    ASSUME NEW q \in Seq(Task), q # << >>
    PROVE  /\ Head(q) \in Task /\ Tail(q) \in Seq(Task)
           /\ Head(q).kind # "restore" /\ NoRestore(Tail(q)) => NoRestore(q)
<1>1. /\ Head(q) \in Task /\ Head(q) = q[1] /\ Tail(q) \in Seq(Task) /\ Len(Tail(q)) = Len(q) - 1
      /\ \A i \in 1..Len(Tail(q)) : Tail(q)[i] = q[i + 1]
  BY HeadTailProperties
<1>2. Len(q) \in Nat
  BY LenProperties
<1>3. ASSUME Head(q).kind # "restore", NoRestore(Tail(q)), NEW i \in 1..Len(q)
      PROVE  q[i].kind # "restore"
  <2>1. CASE i = 1
    BY <2>1, <1>1, <1>3
  <2>2. CASE i # 1
    <3>1. i - 1 \in 1..Len(Tail(q)) /\ (i - 1) + 1 = i
      BY <1>1, <1>2, <2>2
    <3>2. Tail(q)[i - 1] = q[i]
      BY <1>1, <3>1
    <3> QED BY <1>3, <3>1, <3>2 DEF NoRestore
  <2> QED BY <2>1, <2>2
<1> QED BY <1>1, <1>3 DEF NoRestore

LEMMA PlainIsTask ==
    ASSUME ViewTypes, NEW kind \in {"leave", "ask", "expire", "restore", "resume"}, NEW u \in Person \cup {Nobody}
    PROVE  Plain(kind, u) \in Task /\ Plain(kind, u).kind = kind
BY DEF Plain, Task, ViewTypes, Due

\* The next deadline is one of the deadlines.
LEMMA AimIsDeadline ==
    ASSUME NEW c, NEW ch
    PROVE  Aim(c, ch) \in {0, 1, Due, Unset}
<1> DEFINE D == Deadlines(c, ch)
<1>1. D \subseteq {1, Due}
  BY DEF Deadlines
<1> HIDE DEF D
<1>2. D # {} => \E d \in D : \A e \in D : d <= e
  <2>1. CASE 1 \in D
    BY <1>1, <2>1 DEF Due
  <2>2. CASE 1 \notin D
    <3>1. \A e \in D : e = Due /\ Due <= e
      BY <1>1, <2>2 DEF Due
    <3> QED BY <3>1
  <2> QED BY <2>1, <2>2
<1>3. CASE D = {}
  BY <1>3 DEF Aim, D
<1>4. CASE D # {}
  <2>1. Aim(c, ch) = CHOOSE d \in D : \A e \in D : d <= e
    BY <1>4 DEF Aim, D
  <2>2. Aim(c, ch) \in D
    BY <1>2, <1>4, <2>1
  <2> QED BY <1>1, <2>2
<1> QED BY <1>3, <1>4

\* Work ends: nothing is left in progress, and unless it was the restoration that went
\* well, whoever was to be shown the result still is.
LEMMA Ending ==
    ASSUME WorkTypes, ViewTypes, At(stage), NEW t, t = Head(queue), NEW failed \in BOOLEAN, NEW begun \in BOOLEAN,
           NEW c, NEW ch, End(t, failed, begun, c, ch)
    PROVE  /\ WorkTypes' /\ stage' = "idle"
           /\ serving' # "down" => serving' = serving
           /\ Restored' /\ (failed \/ t.kind # "restore") => Restored
<1>1. queue \in Seq(Task) /\ queue # << >> /\ alive /\ serving # "down"
  BY DEF WorkTypes, At
<1>2. t \in Task /\ Tail(queue) \in Seq(Task) /\ (t.kind # "restore" /\ NoRestore(Tail(queue)) => NoRestore(queue))
  BY <1>1, QueueShrinks
<1>3. t.user \in Person \cup {Nobody}
  BY <1>2 DEF Task
<1> DEFINE next == Plain("resume", IF t.kind = "ask" THEN t.user ELSE Nobody)
           retired == begun /\ Retired(c, ch)
<1>4. next \in Task
  BY <1>3, PlainIsTask
<1> HIDE DEF next, retired
<1>5. queue' = << >> \/ queue' = Tail(queue) \/ queue' = Append(Tail(queue), next)
  BY DEF End, next
<1>6. queue' \in Seq(Task)
  BY <1>2, <1>4, <1>5, QueueGrows, EmptySeq
<1>7. /\ stage' = "idle" /\ tries' = 0 /\ alive' = ~retired
      /\ retired => queue' = << >>
      /\ serving' = IF failed /\ serving = "restoring" THEN "down" ELSE serving
  BY DEF End, retired
<1>8. expiry' \in {0, 1, Due, Unset}
  BY AimIsDeadline DEF End, ExpiryAfter, WorkTypes
<1>9. resuming' \in BOOLEAN /\ restart' \in BOOLEAN /\ online' \in [Person -> BOOLEAN]
  BY DEF End, WorkTypes
<1>10. WorkTypes'
  BY <1>6, <1>7, <1>8, <1>9 DEF WorkTypes, Stage, retired
<1>11. ASSUME Restored', failed \/ t.kind # "restore"
       PROVE  Restored
  <2>1. CASE serving = "serving"
    BY <2>1, <1>1 DEF Restored
  <2>2. CASE serving = "restoring"
    <3>1. ~failed /\ t.kind # "restore" /\ NoRestore(queue') /\ ~retired
      BY <2>2, <1>7, <1>11 DEF Restored
    <3>2. queue' = Tail(queue) \/ queue' = Append(Tail(queue), next)
      BY <3>1 DEF End, next, retired
    <3>3. NoRestore(Tail(queue))
      BY <3>1, <3>2, <1>2, <1>4, QueueGrows
    <3> QED BY <1>1, <1>2, <2>2, <3>1, <3>3 DEF Restored
  <2> QED BY <1>1, <2>1, <2>2 DEF WorkTypes
<1> QED BY <1>1, <1>7, <1>10, <1>11

------------------------------------------------------------------------------
(* Transactions beside the screens *)

\* A transaction moves nobody who is at a board or away, and does not bring the record
\* back to what the copy shows unless it leaves the views as they are.
Gentle ==
    /\ elsewhere' = elsewhere
    /\ \A p \in Player : session[p] = "child" => seat'[p] = seat[p]
    /\ \A p \in Player : session[p] = "absent" /\ seat[p] = None => seat'[p] = None
    /\ \A u \in Person : session[u] = "absent" /\ u \notin claim /\ (u \in Player => seat[u] = None) => u \notin claim'
    /\ copy = record' /\ child = RunOf(record)' => copy = record /\ child = RunOf(record) /\ claim' \subseteq claim
    /\ \A k \in Rematch : rematch[k] = "over" => rematch'[k] = "over"
    /\ \A k \in Rematch : rematch[k] # "none" => rematch'[k] # "none"

LEMMA GentleKeepsScreens ==
    ASSUME IInv, Gentle, UNCHANGED <<session, copy, child, playing>>,
           Restored' => Restored, serving' # "down" => serving # "down"
    PROVE  RunsAreKnown' /\ Screens'
<1>1. copy.key \in 0..MaxRematches /\ playing \subseteq Rematch
  BY RecordFields DEF IInv, TypeOK, ViewTypes
<1>2. RunsAreKnown'
  BY <1>1 DEF IInv, RunsAreKnown, Gentle, Rematch, None
<1>3. Wanted(copy, child)' = Wanted(copy, child)
  BY DEF Wanted, Pending
<1>4. \A u \in Person : session'[u] = "away" => u \in elsewhere'
  BY DEF IInv, Screens, Gentle
<1>5. \A u \in Person : session'[u] = "child" => u \in Player /\ seat'[u] # None /\ seat'[u] \in playing'
  BY DEF IInv, Screens, Gentle
<1>6. \A u \in Person : session'[u] = "result" => u \in Wanted(copy, child)'
  BY <1>3 DEF IInv, Screens
<1>7. serving' # "down" => \A p \in Player : session'[p] = "absent" => seat'[p] = None
  BY DEF IInv, Screens, Gentle
<1>8. Restored' => \A u \in Person : session'[u] = "absent" => u \notin claim'
  BY DEF IInv, Screens, Gentle, Restored
<1>9. Restored' /\ copy' = record' /\ child' = RunOf(record)' => \A u \in claim' : session'[u] = "result"
  BY DEF IInv, Screens, Gentle
<1> QED BY <1>2, <1>4, <1>5, <1>6, <1>7, <1>8, <1>9 DEF Screens

LEMMA NothingIsGentle ==
    ASSUME UNCHANGED durableResult
    PROVE  Gentle
BY DEF Gentle, durableResult, RunOf

\* The rows say the same as before, receipts aside.
LEMMA RowsStay ==
    ASSUME DurableTypes, Rows, UNCHANGED durableResult
    PROVE  DurableTypes' /\ Rows'
BY DEF durableResult, DurableTypes, Rows, ClaimsAreViews, HoldsOneThing, SeatsAreRuns, KeysAreFresh, ViewersOf

\* A change of the record made on an up-to-date copy.
LEMMA CommitIsGentle ==
    ASSUME IInv, NEW t, NEW r \in Changed(t), Commit(t, r)
    PROVE  DurableTypes' /\ Rows' /\ Gentle
<1>1. /\ copy = record /\ Save(r) /\ UNCHANGED <<rematch, seat, elsewhere>> /\ receipts' \in BOOLEAN
      /\ used' = IF r.key = None THEN used ELSE r.key
      /\ \/ /\ MayDismiss(record, t.user) /\ r = ClosedIfEmpty(Withdraw(record, {t.user}))
         \/ /\ MayAsk(record, t.user) /\ used < MaxRematches /\ r = WithRequest(record, t.user)
         \/ /\ MayExpire(record, t.now) /\ r = Expire(record, t.now)
  BY DEF Changed, Commit, IsCommand
<1>2. record \in Record /\ DurableTypes /\ Rows
  BY DEF IInv, TypeOK, DurableTypes
<1>3. DurableTypes' /\ Rows' /\ claim' \subseteq claim
  <2>1. CASE MayDismiss(record, t.user) /\ r = ClosedIfEmpty(Withdraw(record, {t.user}))
    <3>1. /\ r \in Record /\ r.key = record.key /\ r.status \in {record.status, "closed"}
          /\ r.viewing = record.viewing \ {t.user} /\ ViewersOf(r) \subseteq ViewersOf(record)
      BY <1>2, <2>1, WithdrawShrinks
    <3>2. r.status = "starting" => record.status = "starting" /\ t.user \notin Player /\ record.viewing = Player
      BY <2>1, <3>1 DEF MayDismiss, IInv, Rows, KeysAreFresh
    <3>3. r.status = "starting" => r.viewing = Player
      BY <3>1, <3>2
    <3> QED BY <1>1, <1>2, <3>1, <3>3, SavingFewer
  <2>2. CASE MayAsk(record, t.user) /\ used < MaxRematches /\ r = WithRequest(record, t.user)
    BY <1>1, <1>2, <2>2, SavingRequest
  <2>3. CASE MayExpire(record, t.now) /\ r = Expire(record, t.now)
    <3>1. /\ r \in Record /\ r.key = record.key /\ r.status \in {record.status, "closed"}
          /\ ViewersOf(r) \subseteq ViewersOf(record)
          /\ Outdated(record, t.now) \cap Player = {} => r.viewing = record.viewing
      BY <1>2, <2>3, ExpireShrinks
    <3>2. r.status = "starting" => r.viewing = Player
      BY <1>2, <2>3, <3>1 DEF MayExpire, Rows, KeysAreFresh
    <3> QED BY <1>1, <1>2, <3>1, <3>2, SavingFewer
  <2> QED BY <1>1, <2>1, <2>2, <2>3
<1>4. record' = r
  BY <1>1 DEF Save
<1>5. copy = record' /\ child = RunOf(record)' => child = RunOf(record)
  BY <1>1 DEF RunOf
<1> QED BY <1>1, <1>3, <1>5 DEF Gentle

\* The expiry that follows the seating of the players.
LEMMA SettlingIsGentle ==
    ASSUME IInv, stage = "settle", MayExpire(record, clock),
           Commit(Plain("resume", Nobody), Expire(record, clock))
    PROVE  DurableTypes' /\ Rows' /\ Gentle
<1> DEFINE r == Expire(record, clock)
<1>1. record \in Record /\ DurableTypes /\ Rows
  BY DEF IInv, TypeOK, DurableTypes
<1>2. /\ r \in Record /\ r.key = record.key /\ r.status \in {record.status, "closed"}
      /\ ViewersOf(r) \subseteq ViewersOf(record)
  BY <1>1, ExpireShrinks
<1> HIDE DEF r
<1>3. /\ Save(r) /\ UNCHANGED <<rematch, seat, elsewhere>> /\ receipts' \in BOOLEAN
      /\ used' = IF r.key = None THEN used ELSE r.key
  BY DEF Commit, IsCommand, r
<1>4. DurableTypes' /\ Rows' /\ claim' \subseteq claim
  <2>1. r.status # "starting"
    BY <1>2 DEF IInv, StagesAreSound
  <2> QED BY <1>1, <1>2, <1>3, <2>1, SavingFewer
<1>5. record' = r
  BY <1>3 DEF Save
<1>6. copy = record' => copy = record
  BY <1>2, <1>5 DEF IInv, StagesAreSound
<1>7. copy = record' /\ child = RunOf(record)' => child = RunOf(record)
  BY <1>3, <1>6 DEF RunOf
<1> QED BY <1>3, <1>4, <1>6, <1>7 DEF Gentle

\* Undoing a rematch gives the players back their views.  Nobody of them is at its
\* board, and the copy still shows it.
LEMMA AbortIsGentle ==
    ASSUME IInv, serving # "down", stage \in {"cancel", "seat", "seated"}, MayAbort, Abort
    PROVE  DurableTypes' /\ Rows' /\ Gentle
<1>1. DurableTypes /\ Rows
  BY DEF IInv, TypeOK
<1>2. /\ DurableTypes' /\ Rows' /\ record'.status \in {"open", "closed"} /\ elsewhere' = elsewhere
      /\ \A p \in Player : seat[p] = record.key /\ seat'[p] = None
      /\ claim' \subseteq claim \cup Player
      /\ \A k \in Rematch : rematch'[k] = IF k = record.key THEN "aborted" ELSE rematch[k]
  BY <1>1, Aborting
<1>3. /\ record.key \in Rematch /\ Running(rematch[record.key]) /\ Running(RunOf(record))
      /\ record.status = "rematched" /\ record.key # None
  BY <1>1, RunHasKey DEF MayAbort, Running, Rematch, None
<1>4. record.key \notin playing /\ copy.status \in {"starting", "rematched"}
  BY <1>3 DEF IInv, StagesAreSound
<1>5. \A p \in Player : session[p] # "child"
  BY <1>2, <1>4 DEF IInv, Screens, Person
<1>6. \A p \in Player : seat[p] # None
  BY <1>2, <1>3
<1>7. copy # record'
  BY <1>2, <1>4
<1>8. /\ \A k \in Rematch : rematch[k] = "over" => rematch'[k] = "over"
      /\ \A k \in Rematch : rematch[k] # "none" => rematch'[k] # "none"
  BY <1>2, <1>3 DEF Running
<1>9. \A u \in Person : u \notin claim /\ (u \in Player => seat[u] = None) => u \notin claim'
  BY <1>2, <1>6
<1>10. \A p \in Player : seat'[p] = None
  BY <1>2
<1>11. elsewhere' = elsewhere
  BY <1>2
<1> QED BY <1>2, <1>5, <1>7, <1>8, <1>9, <1>10, <1>11 DEF Gentle

LEMMA CancelIsGentle ==
    ASSUME IInv, serving # "down", stage = "cancel", NEW t, CancelRematch(t)
    PROVE  DurableTypes' /\ Rows' /\ Gentle /\ (UNCHANGED durableResult \/ record'.status \in {"open", "closed"})
<1>1. DurableTypes /\ Rows
  BY DEF IInv, TypeOK
<1>2. CASE UNCHANGED durableResult
  BY <1>1, <1>2, RowsStay, NothingIsGentle
<1>3. CASE MayAbort /\ Abort
  BY <1>1, <1>3, AbortIsGentle, Aborting
<1>4. CASE /\ MayCancel(t) /\ RunOf(record) = "none"
           /\ Save(Expire(AfterCancelled(record), IF t.kind = "expire" THEN t.now ELSE clock))
           /\ UNCHANGED <<rematch, seat, elsewhere, receipts, used>>
  <2>1. record.status \in {"starting", "rematched"}
    BY <1>4 DEF MayCancel
  <2>2. /\ DurableTypes' /\ Rows' /\ claim' \subseteq claim
        /\ record'.status \in {"open", "closed"}
    BY <1>1, <1>4, <2>1, Cancelling
  <2>3. copy # record'
    BY <2>2 DEF IInv, StagesAreSound
  <2> QED BY <1>4, <2>2, <2>3 DEF Gentle
<1> QED BY <1>2, <1>3, <1>4 DEF CancelRematch

LEMMA CreateIsGentle ==
    ASSUME IInv, serving # "down", stage = "create", MayCreate, Create
    PROVE  DurableTypes' /\ Rows' /\ Gentle /\ record'.status = "rematched" /\ RunOf(record)' = "open"
<1>1. DurableTypes /\ Rows
  BY DEF IInv, TypeOK
<1>2. /\ DurableTypes' /\ Rows' /\ claim' \subseteq claim
      /\ record'.status = "rematched" /\ RunOf(record)' = "open" /\ record'.key = record.key
      /\ \A k \in Rematch : rematch[k] = "over" => rematch'[k] = "over"
      /\ \A k \in Rematch : rematch[k] # "none" => rematch'[k] # "none"
  BY <1>1, Creating
<1>3. \A p \in Player : session[p] # "absent"
  BY DEF IInv, StagesAreSound, Starting
<1>4. \A p \in Player : session[p] # "child"
  BY DEF IInv, Screens, Person, MayCreate
<1>5. copy # record' /\ elsewhere' = elsewhere
  BY <1>2 DEF IInv, StagesAreSound, MayCreate, Create
<1> QED BY <1>2, <1>3, <1>4, <1>5 DEF Gentle

LEMMA OpeningIsGentle ==
    ASSUME IInv, stage = "seat", RunOf(record) # "opened", OpenReveal
    PROVE  DurableTypes' /\ Rows' /\ Gentle /\ RunOf(record)' = "opened"
<1>1. DurableTypes /\ Rows /\ record.status = "rematched" /\ Running(RunOf(record))
  BY DEF IInv, TypeOK, StagesAreSound
<1>2. /\ DurableTypes' /\ Rows' /\ RunOf(record)' = "opened"
      /\ \A k \in Rematch : rematch[k] = "over" => rematch'[k] = "over"
      /\ \A k \in Rematch : rematch[k] # "none" => rematch'[k] # "none"
  BY <1>1, Opening
<1>3. child # "opened"
  BY DEF IInv, StagesAreSound
<1>4. UNCHANGED <<record, claim, seat, elsewhere>>
  BY DEF OpenReveal
<1> QED BY <1>2, <1>3, <1>4 DEF Gentle

------------------------------------------------------------------------------
(* One step of the work in progress *)

Unmoved == UNCHANGED <<copy, child, playing, session, connections, clock>>

LEMMA UnmovedTypes ==
    ASSUME ViewTypes, Unmoved, UNCHANGED resultFaults \/ Fault(1)
    PROVE  ViewTypes'
<1>1. resultFaults' \in 0..MaxResultFaults
  BY ResultAssumption DEF ViewTypes, Fault
<1> QED BY <1>1 DEF ViewTypes, Unmoved

\* At the other stages nothing is known.
LEMMA QuietStages ==
    ASSUME stage' \in {"idle", "cancelled", "change", "reread", "confirm", "regret"}
    PROVE  StagesAreSound'
BY DEF StagesAreSound, Starting

\* The work goes on to another stage.
LEMMA GoingOn ==
    ASSUME IInv, serving # "down", NEW s \in Stage, Go(s), DurableTypes', Rows', Gentle, Unmoved,
           UNCHANGED resultFaults \/ Fault(1), StagesAreSound'
    PROVE  IInv'
<1>1. /\ stage' = s
      /\ UNCHANGED <<queue, tries, alive, expiry, resuming, restart, online, serving>>
  BY DEF Go
<1>2. WorkTypes'
  BY <1>1 DEF IInv, TypeOK, WorkTypes
<1>3. ViewTypes'
  BY UnmovedTypes DEF IInv, TypeOK
<1>4. RunsAreKnown' /\ Screens'
  BY <1>1, GentleKeepsScreens DEF Unmoved, Restored
<1> QED BY <1>2, <1>3, <1>4 DEF IInv, TypeOK

\* The work gives up.
LEMMA GivingUp ==
    ASSUME IInv, At(stage), NEW t, t = Head(queue), NEW begun \in BOOLEAN, NEW c, NEW ch, End(t, TRUE, begun, c, ch),
           DurableTypes', Rows', Gentle, Unmoved, UNCHANGED resultFaults \/ Fault(1)
    PROVE  IInv'
<1>1. WorkTypes /\ ViewTypes /\ serving # "down"
  BY DEF IInv, TypeOK, At
<1>2. /\ WorkTypes' /\ stage' = "idle" /\ (serving' # "down" => serving' = serving)
      /\ Restored' => Restored
  BY <1>1, Ending
<1>3. ViewTypes'
  BY <1>1, UnmovedTypes
<1>4. RunsAreKnown' /\ Screens'
  BY <1>1, <1>2, GentleKeepsScreens DEF Unmoved
<1>5. StagesAreSound'
  BY <1>2, QuietStages
<1> QED BY <1>2, <1>3, <1>4, <1>5 DEF IInv, TypeOK

LEMMA CancelStepKeeps ==
    ASSUME IInv, CancelStep
    PROVE  IInv'
<1> DEFINE t == Head(queue)
<1>1. At("cancel") /\ stage = "cancel" /\ serving # "down" /\ Unmoved /\ DurableTypes /\ Rows
  BY DEF CancelStep, At, Unmoved, IInv, TypeOK
<1> HIDE DEF t
<1>2. CASE CancelRematch(t) /\ Go("cancelled") /\ UNCHANGED resultFaults
  <2>1. DurableTypes' /\ Rows' /\ Gentle
    BY <1>1, <1>2, CancelIsGentle
  <2>2. StagesAreSound'
    BY <1>2, QuietStages DEF Go
  <2> QED BY <1>1, <1>2, <2>1, <2>2, GoingOn DEF Stage
<1>3. ASSUME Fault(1), CancelRematch(t) \/ UNCHANGED durableResult
      PROVE  /\ DurableTypes' /\ Rows' /\ Gentle
             /\ UNCHANGED durableResult \/ record'.status \in {"open", "closed"}
  BY <1>1, <1>3, CancelIsGentle, RowsStay, NothingIsGentle
<1>4. CASE /\ Fault(1) /\ (CancelRematch(t) \/ UNCHANGED durableResult)
           /\ tries' = 1 /\ UNCHANGED <<queue, stage, alive, expiry, resuming, restart, online, serving>>
  <2>1. WorkTypes' /\ ViewTypes'
    BY <1>1, <1>4, UnmovedTypes DEF IInv, TypeOK, WorkTypes
  <2>2. RunsAreKnown' /\ Screens'
    BY <1>1, <1>3, <1>4, GentleKeepsScreens DEF Unmoved, Restored
  <2>3. StagesAreSound'
    <3>1. stage' = "cancel" /\ copy' = copy /\ playing' = playing
      BY <1>1, <1>4 DEF Unmoved
    <3>2. record'.status = "rematched" /\ Running(RunOf(record)') => record'.key \notin playing
      <4>1. CASE UNCHANGED durableResult
        BY <1>1, <4>1 DEF durableResult, RunOf, IInv, StagesAreSound
      <4>2. CASE record'.status \in {"open", "closed"}
        BY <4>2
      <4> QED BY <1>3, <1>4, <4>1, <4>2
    <3> QED BY <1>1, <3>1, <3>2 DEF IInv, StagesAreSound, Starting
  <2> QED BY <1>3, <1>4, <2>1, <2>2, <2>3 DEF IInv, TypeOK
<1>5. CASE Fault(1) /\ (CancelRematch(t) \/ UNCHANGED durableResult) /\ End(t, TRUE, TRUE, copy, child)
  <2>1. At(stage) /\ t = Head(queue)
    BY <1>1 DEF t
  <2> QED BY <1>1, <1>3, <1>5, <2>1, GivingUp
<1> QED BY <1>2, <1>4, <1>5 DEF CancelStep, t

LEMMA ChangeStepKeeps ==
    ASSUME IInv, ChangeStep
    PROVE  IInv'
<1> DEFINE t == Head(queue)
<1>1. serving # "down" /\ Unmoved /\ DurableTypes /\ Rows
  BY DEF ChangeStep, At, Unmoved, IInv, TypeOK
<1> HIDE DEF t
<1>2. PICK s \in {"reread", "confirm", "regret"} :
          /\ Go(s) /\ (UNCHANGED resultFaults \/ Fault(1))
          /\ UNCHANGED durableResult \/ \E r \in Changed(t) : Commit(t, r)
  BY DEF ChangeStep, Unanswered, t
<1>3. DurableTypes' /\ Rows' /\ Gentle
  BY <1>1, <1>2, CommitIsGentle, RowsStay, NothingIsGentle
<1>4. StagesAreSound'
  BY <1>2, QuietStages DEF Go
<1> QED BY <1>1, <1>2, <1>3, <1>4, GoingOn DEF Stage

LEMMA ConfirmStepKeeps ==
    ASSUME IInv, ConfirmStep
    PROVE  IInv'
<1>1. serving # "down" /\ Unmoved /\ DurableTypes /\ Rows /\ UNCHANGED durableResult
  BY DEF ConfirmStep, At, Unmoved, IInv, TypeOK, durableResult
<1>2. PICK s \in {"reread", "regret"} : Go(s) /\ (UNCHANGED resultFaults \/ Fault(1))
  BY DEF ConfirmStep
<1>3. DurableTypes' /\ Rows' /\ Gentle
  BY <1>1, RowsStay, NothingIsGentle
<1>4. StagesAreSound'
  BY <1>2, QuietStages DEF Go
<1> QED BY <1>1, <1>2, <1>3, <1>4, GoingOn DEF Stage

\* Creating, seating and settling go on to the next stage, or start over.
LEMMA StartingOver ==
    ASSUME IInv, stage \in Starting, Go("again"), Unmoved
    PROVE  StagesAreSound'
BY DEF IInv, StagesAreSound, Starting, Go, Unmoved

LEMMA CreateStepKeeps ==
    ASSUME IInv, CreateStep
    PROVE  IInv'
<1>1. serving # "down" /\ Unmoved /\ DurableTypes /\ Rows /\ stage = "create"
  BY DEF CreateStep, At, Unmoved, IInv, TypeOK
<1>2. \A p \in Player : session[p] # "absent"
  BY <1>1 DEF IInv, StagesAreSound, Starting
<1>3. CASE Go("again")
  <2>1. UNCHANGED resultFaults \/ Fault(1)
    BY DEF CreateStep, Transaction
  <2>2. UNCHANGED durableResult \/ (MayCreate /\ Create)
    BY DEF CreateStep, Transaction, NoEffect
  <2>3. DurableTypes' /\ Rows' /\ Gentle
    BY <1>1, <2>2, RowsStay, NothingIsGentle, CreateIsGentle
  <2>4. StagesAreSound'
    BY <1>1, <1>3, StartingOver DEF Starting
  <2> QED BY <1>1, <1>3, <2>1, <2>3, <2>4, GoingOn DEF Stage
<1>4. CASE Go("seat")
  <2>1. UNCHANGED resultFaults
    BY <1>4 DEF CreateStep, Transaction, Go
  <2>2. CASE RunOf(record) # "none" /\ UNCHANGED durableResult
    <3>1. DurableTypes' /\ Rows' /\ Gentle
      BY <1>1, <2>2, RowsStay, NothingIsGentle
    <3>2. /\ copy = record /\ child = RunOf(record) /\ record.status \in {"starting", "rematched"}
          /\ record.status = "rematched" /\ Running(RunOf(record)) => record.key \notin playing
          /\ Pending(record, child)
      BY <1>1 DEF IInv, StagesAreSound
    <3>3. record.status = "rematched" /\ Running(RunOf(record))
      BY <1>1, <2>2, <3>2 DEF Rows, KeysAreFresh, RunOf, Pending, Running
    <3>4. RunOf(record)' = RunOf(record) /\ record' = record
      BY <2>2 DEF durableResult, RunOf
    <3>5. StagesAreSound'
      BY <1>1, <1>2, <1>4, <3>2, <3>3, <3>4 DEF StagesAreSound, Starting, Unmoved, Go
    <3> QED BY <1>1, <1>4, <2>1, <3>1, <3>5, GoingOn DEF Stage
  <2>3. CASE RunOf(record) = "none" /\ MayCreate /\ Create
    <3>1. DurableTypes' /\ Rows' /\ Gentle /\ record'.status = "rematched" /\ RunOf(record)' = "open"
      BY <1>1, <2>3, CreateIsGentle
    <3>2. /\ copy = record /\ child = "none" /\ record.status = "starting" /\ copy.status = "starting"
      BY <1>1, <2>3 DEF IInv, StagesAreSound, MayCreate
    <3>3. record'.key = record.key /\ record'.key \notin playing
      <4>1. rematch[record.key] = "none"
        BY <1>1, <3>2 DEF Rows, KeysAreFresh
      <4>2. record'.key = record.key
        BY <1>1, <2>3, Creating
      <4> QED BY <4>1, <4>2 DEF IInv, RunsAreKnown
    <3>4. StagesAreSound'
      BY <1>1, <1>2, <1>4, <3>1, <3>2, <3>3 DEF StagesAreSound, Starting, Unmoved, Go, Running
    <3> QED BY <1>1, <1>4, <2>1, <3>1, <3>4, GoingOn DEF Stage
  <2> QED BY <1>4, <2>2, <2>3 DEF CreateStep, Transaction, NoEffect, Go
<1> QED BY <1>3, <1>4 DEF CreateStep, Transaction

LEMMA SeatStepKeeps ==
    ASSUME IInv, SeatStep
    PROVE  IInv'
<1>1. serving # "down" /\ Unmoved /\ DurableTypes /\ Rows /\ stage = "seat"
  BY DEF SeatStep, At, Unmoved, IInv, TypeOK
<1>2. /\ \A p \in Player : session[p] # "absent"
      /\ copy = record \/ copy.status = "starting"
      /\ copy.status \in {"starting", "rematched"} /\ record.status = "rematched" /\ Running(RunOf(record))
      /\ record.key \notin playing
  BY <1>1 DEF IInv, StagesAreSound, Starting
<1>3. UNCHANGED resultFaults \/ Fault(1)
  BY DEF SeatStep, Transaction
<1>4. CASE UNCHANGED durableResult /\ RunOf(record) = "opened" /\ Go("seated")
  <2>1. DurableTypes' /\ Rows' /\ Gentle
    BY <1>1, <1>4, RowsStay, NothingIsGentle
  <2>2. RunOf(record)' = RunOf(record) /\ record' = record
    BY <1>4 DEF durableResult, RunOf
  <2>3. StagesAreSound'
    BY <1>1, <1>2, <1>4, <2>2 DEF StagesAreSound, Starting, Unmoved, Go
  <2> QED BY <1>1, <1>3, <1>4, <2>1, <2>3, GoingOn DEF Stage
<1>5. CASE RunOf(record) # "opened" /\ OpenReveal /\ Go("seated")
  <2>1. DurableTypes' /\ Rows' /\ Gentle /\ RunOf(record)' = "opened" /\ record' = record
    BY <1>1, <1>5, OpeningIsGentle DEF OpenReveal
  <2>2. StagesAreSound'
    BY <1>1, <1>2, <1>5, <2>1 DEF StagesAreSound, Starting, Unmoved, Go, Running
  <2> QED BY <1>1, <1>3, <1>5, <2>1, <2>2, GoingOn DEF Stage
<1>6. CASE RunOf(record) # "opened" /\ (UNCHANGED durableResult \/ OpenReveal) /\ Go("again")
  <2>1. DurableTypes' /\ Rows' /\ Gentle
    BY <1>1, <1>6, OpeningIsGentle, RowsStay, NothingIsGentle
  <2>2. StagesAreSound'
    BY <1>1, <1>6, StartingOver DEF Starting
  <2> QED BY <1>1, <1>3, <1>6, <2>1, <2>2, GoingOn DEF Stage
<1> QED BY <1>4, <1>5, <1>6 DEF SeatStep, Transaction

LEMMA AbortStepKeeps ==
    ASSUME IInv, AbortStep
    PROVE  IInv'
<1>1. serving # "down" /\ Unmoved /\ DurableTypes /\ Rows /\ stage \in {"seat", "seated"}
  BY DEF AbortStep, At, Unmoved, IInv, TypeOK
<1>2. /\ UNCHANGED resultFaults \/ Fault(1)
      /\ Go("again") /\ (UNCHANGED durableResult \/ (MayAbort /\ Abort))
  BY DEF AbortStep, Transaction
<1>3. DurableTypes' /\ Rows' /\ Gentle
  BY <1>1, <1>2, AbortIsGentle, RowsStay, NothingIsGentle
<1>4. StagesAreSound'
  BY <1>1, <1>2, StartingOver DEF Starting
<1> QED BY <1>1, <1>2, <1>3, <1>4, GoingOn DEF Stage

LEMMA SettleStepKeeps ==
    ASSUME IInv, SettleStep
    PROVE  IInv'
<1>1. serving # "down" /\ Unmoved /\ DurableTypes /\ Rows /\ stage = "settle"
  BY DEF SettleStep, At, Unmoved, IInv, TypeOK
<1>2. /\ UNCHANGED resultFaults \/ Fault(1)
      /\ Go("again")
      /\ \/ UNCHANGED durableResult
         \/ MayExpire(record, clock) /\ Commit(Plain("resume", Nobody), Expire(record, clock))
  BY DEF SettleStep, Transaction
<1>3. DurableTypes' /\ Rows' /\ Gentle
  BY <1>1, <1>2, SettlingIsGentle, RowsStay, NothingIsGentle
<1>4. StagesAreSound'
  BY <1>1, <1>2, StartingOver DEF Starting
<1> QED BY <1>1, <1>2, <1>3, <1>4, GoingOn DEF Stage

\* The players are taken to the board of a rematch whose seats they hold, and which
\* nobody has been taken to before.
LEMMA InstallStepKeeps ==
    ASSUME IInv, InstallStep
    PROVE  IInv'
<1>1. /\ serving # "down" /\ DurableTypes /\ Rows /\ WorkTypes /\ ViewTypes /\ stage = "seated"
      /\ UNCHANGED durableResult /\ UNCHANGED <<copy, child, connections, clock, resultFaults>> /\ Go("settle")
      /\ playing' = playing \cup {record.key}
      /\ session' = [u \in Person |-> IF u \in Player THEN "child" ELSE session[u]]
  BY DEF InstallStep, At, IInv, TypeOK
<1>2. /\ copy = record \/ copy.status = "starting"
      /\ record.status = "rematched" /\ RunOf(record) = "opened"
  BY <1>1 DEF IInv, StagesAreSound, Starting
<1>3. record.key \in Rematch /\ rematch[record.key] = "opened"
  BY <1>1, <1>2, RunHasKey
<1>4. \A p \in Player : seat[p] = record.key /\ seat[p] # None /\ p \notin claim
  BY <1>1, <1>3 DEF Rows, SeatsAreRuns, Running, Rematch, None, HoldsOneThing
<1>5. \A u \in Person : session'[u] = IF u \in Player THEN "child" ELSE session[u]
  BY <1>1
<1>6. DurableTypes' /\ Rows'
  BY <1>1, RowsStay
<1>7. UNCHANGED <<record, rematch, claim, seat, elsewhere>>
  BY <1>1 DEF durableResult
<1>8. UNCHANGED <<queue, tries, alive, expiry, resuming, restart, online, serving>> /\ stage' = "settle"
  BY <1>1 DEF Go
<1>9. WorkTypes' /\ ViewTypes'
  BY <1>1, <1>3, <1>8 DEF WorkTypes, ViewTypes, Where, Stage
<1>10. StagesAreSound'
  <2>1. \A p \in Player : session'[p] # "absent"
    BY <1>5 DEF Person
  <2> QED BY <1>1, <1>2, <1>7, <1>8, <2>1 DEF StagesAreSound, Starting
<1>11. RunsAreKnown'
  <2>1. copy.key \in 0..MaxRematches
    BY <1>1, RecordFields DEF ViewTypes
  <2> QED BY <1>1, <1>3, <1>7, <2>1 DEF IInv, RunsAreKnown
<1>12. Screens'
  <2>1. \A u \in Person : session'[u] = "away" => u \in elsewhere'
    BY <1>5, <1>7 DEF IInv, Screens
  <2>2. \A u \in Person : session'[u] = "child" => u \in Player /\ seat'[u] # None /\ seat'[u] \in playing'
    BY <1>1, <1>4, <1>5, <1>7 DEF IInv, Screens
  <2>3. ASSUME NEW u \in Person, session'[u] = "result"
        PROVE  u \in Wanted(copy, child)'
    <3>1. u \notin Player /\ u \in Wanted(copy, child)
      BY <1>5, <2>3 DEF IInv, Screens
    <3>2. u \in ViewersOf(copy)
      BY <3>1 DEF Wanted
    <3> QED BY <1>1, <3>2 DEF Wanted, ViewersOf
  <2>4. \A p \in Player : session'[p] # "absent"
    BY <1>5 DEF Person
  <2>5. Restored' = Restored
    BY <1>8 DEF Restored
  <2>6. Restored' => \A u \in Person : session'[u] = "absent" => u \notin claim'
    BY <1>5, <1>7, <2>5 DEF IInv, Screens
  <2>7. RunOf(record)' = RunOf(record)
    BY <1>7 DEF RunOf
  <2>8. Restored' /\ copy' = record' /\ child' = RunOf(record)' => \A u \in claim' : session'[u] = "result"
    BY <1>1, <1>4, <1>5, <1>7, <2>5, <2>7 DEF IInv, Screens, DurableTypes
  <2> QED BY <2>1, <2>2, <2>3, <2>4, <2>6, <2>8 DEF Screens
<1> QED BY <1>6, <1>9, <1>10, <1>11, <1>12 DEF IInv, TypeOK

------------------------------------------------------------------------------
(* Reading the record *)

\* Only the receipt of the command in progress is forgotten.
LEMMA ForgettingIsGentle ==
    ASSUME DurableTypes, Rows, UNCHANGED <<record, rematch, claim, seat, elsewhere, used>>, receipts' \in BOOLEAN
    PROVE  DurableTypes' /\ Rows' /\ Gentle
<1>1. DurableTypes'
  BY DEF DurableTypes
<1>2. Rows'
  BY DEF Rows, ClaimsAreViews, HoldsOneThing, SeatsAreRuns, KeysAreFresh, ViewersOf
<1> QED BY <1>1, <1>2 DEF Gentle, RunOf

LEMMA ShownMeans ==
    ASSUME ViewTypes, NEW c, NEW ch, NEW restoring \in BOOLEAN, session' = Shown(c, ch, restoring)
    PROVE  /\ session' \in [Person -> Where]
           /\ \A u \in Person :
                 /\ session'[u] \in {"away", "child", "absent"} => session[u] = session'[u]
                 /\ session'[u] = "result" => u \in Wanted(c, ch)
                 /\ u \in Wanted(c, ch) /\ session[u] \in {"idle", "result"} => session'[u] = "result"
                 /\ u \in Wanted(c, ch) /\ restoring /\ session[u] = "absent" => session'[u] = "result"
<1>1. \A u \in Person : session[u] \in Where
  BY DEF ViewTypes
<1>2. \A u \in Person :
          session'[u] = IF u \in Wanted(c, ch) /\ (session[u] = "idle" \/ (restoring /\ session[u] = "absent")) THEN "result"
                        ELSE IF u \notin Wanted(c, ch) /\ session[u] = "result" THEN "idle"
                        ELSE session[u]
  BY DEF Shown
<1>3. session' \in [Person -> Where]
  BY <1>1 DEF Shown, Where
<1> QED BY <1>1, <1>2, <1>3 DEF Where

\* A rematch is undone or created only while it is pending, and created for players
\* who are there.
LEMMA OnwardKnows ==
    ASSUME NEW t, NEW c, NEW ch, NEW shown, NEW next, next = Onward(t, c, ch, shown)
    PROVE  /\ next \in {"cancel", "change", "create", "done", "fail"}
           /\ next \in {"cancel", "create"} => Pending(c, ch)
           /\ next = "create" => stage = "again" \/ Attending(shown) = Player
<1>1. ASSUME NEW first \in BOOLEAN, NEW route, route = Route(t, c, ch, shown, first)
      PROVE  /\ route \in {"cancel", "change", "create", "done", "fail"}
             /\ route \in {"cancel", "create"} => first /\ Pending(c, ch)
             /\ route = "create" => Attending(shown) = Player
  BY <1>1 DEF Route
<1>2. CASE stage = "idle"
  <2>1. next = Route(t, c, ch, shown, TRUE)
    BY <1>2 DEF Onward
  <2> QED BY <1>1, <2>1
<1>3. CASE stage = "cancelled"
  <2>1. next = Route(t, c, ch, shown, FALSE)
    BY <1>3 DEF Onward
  <2> QED BY <1>1, <2>1
<1>4. CASE stage \notin {"idle", "cancelled"}
  BY <1>4 DEF Onward
<1> QED BY <1>2, <1>3, <1>4

LEMMA RefreshKeeps ==
    ASSUME IInv, Refresh
    PROVE  IInv'
<1> DEFINE t == Head(queue)
           run == RunOf(record)
           next == IF \E u \in Wanted(record, RunOf(record)) : session[u] \in {"child", "away"} THEN "fail"
                   ELSE Onward(t, record, RunOf(record), session')
<1>1. /\ At(stage) /\ serving # "down" /\ DurableTypes /\ Rows /\ WorkTypes /\ ViewTypes
      /\ UNCHANGED <<record, rematch, claim, seat, elsewhere, used, playing, connections, clock>>
      /\ receipts' \in BOOLEAN
  BY DEF Refresh, At, IInv, TypeOK
<1>2. DurableTypes' /\ Rows' /\ Gentle
  BY <1>1, ForgettingIsGentle
<1>3. CASE /\ Fault(1)
           /\ End(t, TRUE, stage # "idle", copy, child)
           /\ UNCHANGED <<copy, child, session>>
  <2>1. t = Head(queue) /\ Unmoved /\ (stage # "idle") \in BOOLEAN
    BY <1>1, <1>3 DEF Unmoved
  <2> HIDE DEF t
  <2> QED BY <1>1, <1>2, <1>3, <2>1, GivingUp
<1>4. CASE /\ copy' = record /\ child' = run /\ session' = Shown(record, run, t.kind = "restore")
           /\ IF next \in {"done", "fail"} THEN End(t, next = "fail", TRUE, record, run)
              ELSE /\ stage' = next
                   /\ tries' = IF stage = "again" THEN 1 ELSE 0
                   /\ UNCHANGED <<queue, alive, expiry, resuming, restart, online, serving>>
           /\ UNCHANGED resultFaults
  <2>1. /\ session' \in [Person -> Where]
        /\ \A u \in Person :
              /\ session'[u] \in {"away", "child", "absent"} => session[u] = session'[u]
              /\ session'[u] = "result" => u \in Wanted(record, run)
              /\ u \in Wanted(record, run) /\ session[u] \in {"idle", "result"} => session'[u] = "result"
              /\ u \in Wanted(record, run) /\ t.kind = "restore" /\ session[u] = "absent" => session'[u] = "result"
    <3> DEFINE restoring == t.kind = "restore"
    <3>1. restoring \in BOOLEAN /\ session' = Shown(record, run, restoring)
      BY <1>4
    <3> HIDE DEF t, run, restoring
    <3>2. /\ session' \in [Person -> Where]
          /\ \A u \in Person :
                /\ session'[u] \in {"away", "child", "absent"} => session[u] = session'[u]
                /\ session'[u] = "result" => u \in Wanted(record, run)
                /\ u \in Wanted(record, run) /\ session[u] \in {"idle", "result"} => session'[u] = "result"
                /\ u \in Wanted(record, run) /\ restoring /\ session[u] = "absent" => session'[u] = "result"
      BY <1>1, <3>1, ShownMeans
    <3> QED BY <3>2 DEF restoring
  <2>2. record \in Record /\ run \in RunState /\ (run = "over" => record.key # None /\ rematch[record.key] = "over")
    BY <1>1, RecordFields, RunHasKey DEF DurableTypes, RunOf, RunState, Rematch, None
  <2>3. RunOf(record)' = run /\ copy' = record' /\ child' = run
    BY <1>1, <1>4 DEF RunOf
  <2>4. ViewTypes'
    BY <1>1, <1>4, <2>1, <2>2 DEF ViewTypes
  <2>5. RunsAreKnown'
    BY <1>1, <1>4, <2>2 DEF IInv, RunsAreKnown
  <2>6. Wanted(copy, child)' = Wanted(record, run)
    BY <1>1, <1>4 DEF Wanted, Pending, ViewersOf
  <2>7. /\ WorkTypes' /\ (serving' # "down" => serving' = serving) /\ StagesAreSound'
        /\ Restored' /\ t.kind # "restore" => Restored
        /\ Restored' => Restored \/ t.kind = "restore"
    <3>1. CASE next \in {"done", "fail"}
      <4>1. /\ t = Head(queue) /\ (next = "fail") \in BOOLEAN /\ TRUE \in BOOLEAN
            /\ End(t, next = "fail", TRUE, record, run)
        BY <1>4, <3>1
      <4> HIDE DEF t, next, run
      <4>2. /\ WorkTypes' /\ stage' = "idle"
            /\ serving' # "down" => serving' = serving
            /\ Restored' /\ (next = "fail" \/ t.kind # "restore") => Restored
        BY <1>1, <4>1, Ending
      <4>3. StagesAreSound'
        BY <4>2, QuietStages
      <4> QED BY <4>2, <4>3
    <3>2. CASE next \notin {"done", "fail"}
      <4>1. next = Onward(t, record, run, session')
        BY <3>2
      <4>2. /\ stage' = next
            /\ tries' = IF stage = "again" THEN 1 ELSE 0
            /\ UNCHANGED <<queue, alive, expiry, resuming, restart, online, serving>>
        BY <1>4, <3>2
      <4> HIDE DEF t, run, next
      <4>3. /\ next \in {"cancel", "change", "create"}
            /\ next \in {"cancel", "create"} => Pending(record, run)
            /\ next = "create" => stage = "again" \/ Attending(session') = Player
        BY <3>2, <4>1, OnwardKnows
      <4>4. WorkTypes'
        BY <1>1, <4>2, <4>3 DEF WorkTypes, Stage
      <4>5. Restored' = Restored
        BY <4>2 DEF Restored
      <4>6. CASE next = "change"
        BY <4>2, <4>4, <4>5, <4>6, QuietStages
      <4>7. CASE next \in {"cancel", "create"}
        <5>1. Pending(record, run)
          BY <4>3, <4>7
        <5>2. Pending(copy, child)'
          BY <1>1, <1>4, <5>1 DEF Pending
        <5>3. record.status = "rematched" /\ Running(run) => record.key \notin playing
          BY <5>1 DEF Pending, Running
        <5>4. record.status \in {"starting", "rematched"}
          BY <5>1 DEF Pending
        <5>5. next = "create" => \A p \in Player : session'[p] # "absent"
          <6>1. CASE stage = "again"
            BY <2>1, <6>1 DEF IInv, StagesAreSound, Starting, Person
          <6>2. CASE Attending(session') = Player
            BY <6>2 DEF Attending
          <6> QED BY <4>3, <6>1, <6>2
        <5>6. StagesAreSound'
          BY <1>1, <1>4, <2>3, <4>2, <4>7, <5>2, <5>3, <5>4, <5>5 DEF StagesAreSound, Starting
        <5> QED BY <4>2, <4>4, <4>5, <5>6
      <4> QED BY <4>3, <4>6, <4>7
    <3> QED BY <3>1, <3>2
  <2> HIDE DEF t, run, next
  <2>8. claim \subseteq Wanted(record, run) /\ claim \subseteq Person
    BY <1>1 DEF Rows, ClaimsAreViews, Wanted, DurableTypes
  <2>9. Screens'
    <3>1. \A u \in Person : session'[u] = "away" => u \in elsewhere'
      BY <1>1, <2>1 DEF IInv, Screens
    <3>2. \A u \in Person : session'[u] = "child" => u \in Player /\ seat'[u] # None /\ seat'[u] \in playing'
      BY <1>1, <2>1 DEF IInv, Screens
    <3>3. \A u \in Person : session'[u] = "result" => u \in Wanted(copy, child)'
      BY <2>1, <2>6
    <3>4. serving' # "down" => \A p \in Player : session'[p] = "absent" => seat'[p] = None
      BY <1>1, <2>1 DEF IInv, Screens, Person
    <3>5. ASSUME Restored', NEW u \in claim
          PROVE  session[u] # "absent" \/ t.kind = "restore"
      BY <2>7, <2>8, <3>5 DEF IInv, Screens
    <3>6. Restored' => \A u \in Person : session'[u] = "absent" => u \notin claim'
      BY <1>1, <2>1, <2>8, <3>5
    <3>7. ASSUME Restored', NEW u \in claim
          PROVE  session'[u] = "result"
      <4>1. session[u] \notin {"away", "child"}
        BY <1>1, <2>8 DEF IInv, Screens, Rows, HoldsOneThing
      <4>2. session[u] \in Where
        BY <1>1, <2>8 DEF ViewTypes
      <4> QED BY <2>1, <2>8, <3>5, <3>7, <4>1, <4>2 DEF Where
    <3> QED BY <1>1, <3>1, <3>2, <3>3, <3>4, <3>6, <3>7 DEF Screens
  <2> QED BY <1>2, <2>4, <2>5, <2>7, <2>9 DEF IInv, TypeOK
<1> QED BY <1>3, <1>4 DEF Refresh

------------------------------------------------------------------------------
(* What sets the work going *)

\* Steps that only queue work, or are not seen by the rows and the screens.
LEMMA QueueingKeeps ==
    ASSUME IInv, UNCHANGED durableResult, UNCHANGED <<session, copy, child, playing, stage>>, WorkTypes', ViewTypes',
           Restored' => Restored, serving' # "down" => serving # "down"
    PROVE  IInv'
<1>1. DurableTypes' /\ Rows' /\ Gentle
  BY RowsStay, NothingIsGentle DEF IInv, TypeOK
<1>2. RunsAreKnown' /\ Screens'
  BY <1>1, GentleKeepsScreens
<1>3. UNCHANGED record /\ RunOf(record)' = RunOf(record) /\ Pending(copy, child)' = Pending(copy, child)
  BY DEF durableResult, RunOf, Pending
<1>4. StagesAreSound'
  BY <1>3 DEF IInv, StagesAreSound
<1> QED BY <1>1, <1>2, <1>4 DEF IInv, TypeOK

LEMMA EnqueueMeans ==
    ASSUME queue \in Seq(Task), NEW t \in Task, QueueWork(t), UNCHANGED <<alive, serving>>
    PROVE  queue' \in Seq(Task) /\ (Restored' => Restored)
BY QueueGrows DEF QueueWork, Restored

LEMMA SendCommandKeeps ==
    ASSUME IInv, NEW u \in Person, NEW kind \in {"leave", "ask"}, SendCommand(u, kind)
    PROVE  IInv'
<1> DEFINE t == [kind |-> kind, user |-> u, connection |-> connections[u], now |-> 0]
<1>1. /\ QueueWork(t) /\ UNCHANGED durableResult
      /\ UNCHANGED <<session, online, connections>>
      /\ UNCHANGED <<serving, alive, copy, child, playing, stage, tries, resuming, expiry, restart, clock, resultFaults>>
  BY DEF SendCommand, viewersNow
<1>2. t \in Task
  BY DEF Task, IInv, TypeOK, ViewTypes
<1> HIDE DEF t
<1>3. queue' \in Seq(Task) /\ (Restored' => Restored)
  BY <1>1, <1>2, EnqueueMeans DEF IInv, TypeOK, WorkTypes
<1>4. WorkTypes' /\ ViewTypes'
  BY <1>1, <1>3 DEF IInv, TypeOK, WorkTypes, ViewTypes
<1> QED BY <1>1, <1>3, <1>4, QueueingKeeps

LEMMA ExpiryFiresKeeps ==
    ASSUME IInv, ResultExpiryFires
    PROVE  IInv'
<1> DEFINE t == Plain("expire", Nobody)
<1>1. /\ QueueWork(t) /\ UNCHANGED durableResult /\ expiry' = Unset
      /\ UNCHANGED <<session, online, connections>>
      /\ UNCHANGED <<serving, alive, copy, child, playing, stage, tries, resuming, restart, clock, resultFaults>>
  BY DEF ResultExpiryFires, viewersNow
<1>2. t \in Task
  BY PlainIsTask DEF IInv, TypeOK
<1> HIDE DEF t
<1>3. queue' \in Seq(Task) /\ (Restored' => Restored)
  BY <1>1, <1>2, EnqueueMeans DEF IInv, TypeOK, WorkTypes
<1>4. WorkTypes' /\ ViewTypes'
  BY <1>1, <1>3 DEF IInv, TypeOK, WorkTypes, ViewTypes
<1> QED BY <1>1, <1>3, <1>4, QueueingKeeps

LEMMA RestartFiresKeeps ==
    ASSUME IInv, RestartFires
    PROVE  IInv'
<1> DEFINE t == Plain("resume", Nobody)
<1>1. /\ UNCHANGED durableResult /\ restart' = FALSE
      /\ UNCHANGED queue \/ QueueWork(t)
      /\ resuming' \in {resuming, TRUE}
      /\ UNCHANGED <<session, online, connections>>
      /\ UNCHANGED <<serving, alive, copy, child, playing, stage, tries, expiry, clock, resultFaults>>
  BY DEF RestartFires, viewersNow
<1>2. t \in Task
  BY PlainIsTask DEF IInv, TypeOK
<1> HIDE DEF t
<1>3. queue' \in Seq(Task) /\ (Restored' => Restored)
  <2>1. CASE UNCHANGED queue
    BY <1>1, <2>1 DEF IInv, TypeOK, WorkTypes, Restored
  <2>2. CASE QueueWork(t)
    BY <1>1, <1>2, <2>2, EnqueueMeans DEF IInv, TypeOK, WorkTypes
  <2> QED BY <1>1, <2>1, <2>2
<1>4. WorkTypes' /\ ViewTypes'
  BY <1>1, <1>3 DEF IInv, TypeOK, WorkTypes, ViewTypes
<1> QED BY <1>1, <1>3, <1>4, QueueingKeeps

LEMMA DisconnectKeeps ==
    ASSUME IInv, NEW u \in Person, DisconnectViewer(u)
    PROVE  IInv'
<1>1. /\ UNCHANGED durableResult /\ online' = [online EXCEPT ![u] = FALSE]
      /\ UNCHANGED <<session, connections, clock, resultFaults>>
      /\ UNCHANGED <<serving, alive, copy, child, playing, queue, stage, tries, resuming, expiry, restart>>
  BY DEF DisconnectViewer, resultRuntime
<1>2. WorkTypes' /\ ViewTypes'
  BY <1>1 DEF IInv, TypeOK, WorkTypes, ViewTypes
<1> QED BY <1>1, <1>2, QueueingKeeps DEF Restored

LEMMA TickKeeps ==
    ASSUME IInv, Tick
    PROVE  IInv'
<1>1. /\ UNCHANGED durableResult /\ clock < Due /\ clock' = clock + 1
      /\ UNCHANGED <<session, online, connections, resultFaults>>
      /\ UNCHANGED <<serving, alive, copy, child, playing, queue, stage, tries, resuming, expiry, restart>>
  BY DEF Tick, resultRuntime, viewersNow
<1>2. WorkTypes' /\ ViewTypes'
  BY <1>1 DEF IInv, TypeOK, WorkTypes, ViewTypes, Due
<1> QED BY <1>1, <1>2, QueueingKeeps DEF Restored

LEMMA OpenKeeps ==
    ASSUME IInv, Open
    PROVE  IInv'
<1>1. /\ UNCHANGED durableResult /\ serving = "restoring" /\ queue = << >> /\ serving' = "serving"
      /\ UNCHANGED <<session, online, connections>>
      /\ UNCHANGED <<alive, copy, child, playing, queue, stage, tries, resuming, expiry, restart, clock, resultFaults>>
  BY DEF Open, viewersNow
<1>2. WorkTypes' /\ ViewTypes'
  BY <1>1 DEF IInv, TypeOK, WorkTypes, ViewTypes
<1>3. Restored' => Restored
  BY <1>1 DEF Restored, NoRestore
<1> QED BY <1>1, <1>2, <1>3, QueueingKeeps

\* A person who comes back has no view of the result that would have to be shown.
LEMMA ConnectKeeps ==
    ASSUME IInv, NEW u \in Person, ConnectViewer(u)
    PROVE  IInv'
<1> DEFINE t == [kind |-> "restore", user |-> u, connection |-> connections[u] + 1, now |-> 0]
<1>1. /\ UNCHANGED durableResult /\ serving = "serving"
      /\ online' = [online EXCEPT ![u] = TRUE]
      /\ connections' = [connections EXCEPT ![u] = @ + 1]
      /\ session' = [session EXCEPT ![u] = IF @ = "absent" THEN "idle" ELSE @]
      /\ UNCHANGED queue \/ QueueWork(t)
      /\ UNCHANGED <<serving, alive, copy, child, playing, stage, tries, resuming, expiry, restart, clock, resultFaults>>
  BY DEF ConnectViewer
<1>2. DurableTypes /\ Rows /\ WorkTypes /\ ViewTypes
  BY DEF IInv, TypeOK
<1>3. t \in Task
  BY <1>2 DEF Task, ViewTypes
<1> HIDE DEF t
<1>4. queue' \in Seq(Task) /\ Restored' = Restored
  <2>1. queue' \in Seq(Task)
    BY <1>1, <1>2, <1>3, EnqueueMeans DEF WorkTypes
  <2> QED BY <1>1, <2>1 DEF Restored
<1>5. \A v \in Person :
          /\ session'[v] = session[v] \/ (session[v] = "absent" /\ session'[v] = "idle")
          /\ session[v] \in Where
  BY <1>1, <1>2 DEF ViewTypes
<1>6. DurableTypes' /\ Rows'
  BY <1>1, <1>2, RowsStay
<1>7. WorkTypes' /\ ViewTypes'
  BY <1>1, <1>2, <1>4 DEF WorkTypes, ViewTypes, Where
<1>8. /\ UNCHANGED <<record, rematch, claim, seat, elsewhere>> /\ RunOf(record)' = RunOf(record)
      /\ Pending(copy, child)' = Pending(copy, child) /\ Wanted(copy, child)' = Wanted(copy, child)
  BY <1>1 DEF durableResult, RunOf, Pending, Wanted
<1>9. StagesAreSound'
  BY <1>1, <1>5, <1>8 DEF IInv, StagesAreSound, Person
<1>10. RunsAreKnown'
  BY <1>1, <1>8 DEF IInv, RunsAreKnown
<1>11. Screens'
  <2>1. \A v \in Person : session'[v] \in {"away", "child", "result", "absent"} => session[v] = session'[v]
    BY <1>5
  <2>2. \A v \in Person : session[v] = "result" => session'[v] = "result"
    BY <1>5
  <2>3. /\ \A v \in Person : session'[v] = "away" => v \in elsewhere'
        /\ \A v \in Person : session'[v] = "child" => v \in Player /\ seat'[v] # None /\ seat'[v] \in playing'
        /\ \A v \in Person : session'[v] = "result" => v \in Wanted(copy, child)'
        /\ \A p \in Player : session'[p] = "absent" => seat'[p] = None
        /\ Restored' => \A v \in Person : session'[v] = "absent" => v \notin claim'
    BY <1>1, <1>4, <1>8, <2>1 DEF IInv, Screens, Person
  <2>4. Restored' /\ copy' = record' /\ child' = RunOf(record)' => \A v \in claim' : session'[v] = "result"
    BY <1>1, <1>2, <1>4, <1>8, <2>2 DEF IInv, Screens, DurableTypes
  <2> QED BY <1>1, <2>3, <2>4 DEF Screens
<1> QED BY <1>6, <1>7, <1>9, <1>10, <1>11 DEF IInv, TypeOK

------------------------------------------------------------------------------
(* Elsewhere, and the rematch as it goes on *)

\* Whoever departs held nothing, and whoever returns holds nothing any more.
LEMMA MovingKeeps ==
    ASSUME IInv, NEW u \in Person, Depart(u) \/ Return(u)
    PROVE  IInv'
<1>1. /\ UNCHANGED <<record, rematch, claim, seat, receipts, used, online, connections>>
      /\ UNCHANGED <<serving, alive, copy, child, playing, queue, stage, tries, resuming, expiry, restart>>
      /\ UNCHANGED <<clock, resultFaults>> /\ serving = "serving"
      /\ \/ /\ session[u] = "idle" /\ u \notin claim /\ (u \in Player => seat[u] = None)
            /\ elsewhere' = elsewhere \cup {u} /\ session' = [session EXCEPT ![u] = "away"]
         \/ /\ session[u] = "away" /\ elsewhere' = elsewhere \ {u} /\ session' = [session EXCEPT ![u] = "idle"]
  BY DEF Depart, Return, resultRuntime
<1>2. DurableTypes /\ Rows /\ WorkTypes /\ ViewTypes
  BY DEF IInv, TypeOK
<1>3. \A v \in Person : v # u => session'[v] = session[v]
  BY <1>1, <1>2 DEF ViewTypes
<1>4. session'[u] = IF session[u] = "idle" THEN "away" ELSE "idle"
  BY <1>1, <1>2 DEF ViewTypes
<1>5. DurableTypes'
  BY <1>1, <1>2 DEF DurableTypes
<1>6. Rows'
  <2>1. ClaimsAreViews' /\ SeatsAreRuns' /\ KeysAreFresh'
    BY <1>1, <1>2 DEF Rows, ClaimsAreViews, SeatsAreRuns, KeysAreFresh, ViewersOf
  <2>2. HoldsOneThing'
    BY <1>1, <1>2 DEF Rows, HoldsOneThing
  <2> QED BY <2>1, <2>2 DEF Rows
<1>7. WorkTypes' /\ ViewTypes'
  BY <1>1, <1>2 DEF WorkTypes, ViewTypes, Where
<1>8. /\ RunOf(record)' = RunOf(record) /\ Restored' = Restored
      /\ Pending(copy, child)' = Pending(copy, child) /\ Wanted(copy, child)' = Wanted(copy, child)
  BY <1>1 DEF RunOf, Pending, Wanted, Restored
<1>9. \A v \in Person : session'[v] \in {"child", "result", "absent"} => session'[v] = session[v]
  BY <1>3, <1>4
<1>10. StagesAreSound'
  BY <1>1, <1>8, <1>9 DEF IInv, StagesAreSound, Person
<1>11. RunsAreKnown'
  BY <1>1 DEF IInv, RunsAreKnown
<1>12. Screens'
  <2>1. \A v \in Person : session'[v] = "away" => v \in elsewhere'
    <3>1. CASE session[u] = "idle"
      BY <1>1, <1>3, <3>1 DEF IInv, Screens
    <3>2. CASE session[u] # "idle"
      BY <1>1, <1>3, <1>4, <3>2 DEF IInv, Screens
    <3> QED BY <3>1, <3>2
  <2>2. /\ \A v \in Person : session'[v] = "child" => v \in Player /\ seat'[v] # None /\ seat'[v] \in playing'
        /\ \A v \in Person : session'[v] = "result" => v \in Wanted(copy, child)'
        /\ \A p \in Player : session'[p] = "absent" => seat'[p] = None
        /\ Restored' => \A v \in Person : session'[v] = "absent" => v \notin claim'
    BY <1>1, <1>8, <1>9 DEF IInv, Screens, Person
  <2>3. u \notin claim
    BY <1>1, <1>2 DEF IInv, Screens, Rows, HoldsOneThing
  <2>4. Restored' /\ copy' = record' /\ child' = RunOf(record)' => \A v \in claim' : session'[v] = "result"
    BY <1>1, <1>2, <1>3, <1>8, <2>3 DEF IInv, Screens, DurableTypes
  <2> QED BY <1>1, <2>1, <2>2, <2>4 DEF Screens
<1> QED BY <1>5, <1>6, <1>7, <1>10, <1>11, <1>12 DEF IInv, TypeOK

\* The end of a rematch takes its players from its board to its own result.
LEMMA ChildEndsKeeps ==
    ASSUME IInv, NEW k \in Rematch, ChildEnds(k)
    PROVE  IInv'
<1>1. /\ serving = "serving" /\ k \in playing /\ rematch[k] = "opened"
      /\ rematch' = [rematch EXCEPT ![k] = "over"]
      /\ seat' = [p \in Player |-> IF seat[p] = k THEN None ELSE seat[p]]
      /\ elsewhere' = elsewhere \cup Player
      /\ session' = [u \in Person |-> IF session[u] = "child" THEN "away" ELSE session[u]]
      /\ UNCHANGED <<record, claim, receipts, used, online, connections, clock, resultFaults>>
      /\ UNCHANGED <<serving, alive, copy, child, playing, queue, stage, tries, resuming, expiry, restart>>
  BY DEF ChildEnds, resultRuntime
<1>2. DurableTypes /\ Rows /\ WorkTypes /\ ViewTypes
  BY DEF IInv, TypeOK
<1>3. \A j \in Rematch : rematch'[j] = IF j = k THEN "over" ELSE rematch[j]
  BY <1>1, <1>2 DEF DurableTypes
<1>4. k # None /\ \A p \in Player : seat[p] = k /\ seat'[p] = None /\ p \notin claim
  BY <1>1, <1>2 DEF Rows, SeatsAreRuns, Running, HoldsOneThing, Rematch, None
<1>5. \A u \in Person : session'[u] = IF session[u] = "child" THEN "away" ELSE session[u]
  BY <1>1
<1>6. DurableTypes'
  <2>1. rematch' \in [Rematch -> RunState]
    BY <1>1, <1>2 DEF DurableTypes, RunState
  <2>2. seat' \in [Player -> 0..MaxRematches]
    BY <1>1, <1>2, ResultAssumption DEF DurableTypes, None
  <2>3. elsewhere' \subseteq Person
    BY <1>1, <1>2 DEF DurableTypes, Person
  <2> QED BY <1>1, <1>2, <2>1, <2>2, <2>3 DEF DurableTypes
<1>7. Rows'
  <2>1. ClaimsAreViews'
    BY <1>1, <1>2 DEF Rows, ClaimsAreViews, ViewersOf
  <2>2. HoldsOneThing'
    BY <1>1, <1>2, <1>4 DEF Rows, HoldsOneThing
  <2>3. SeatsAreRuns'
    <3>1. \A j \in Rematch \ {k} : Running(rematch[j]) => Player = {}
      BY <1>2, <1>4 DEF Rows, SeatsAreRuns
    <3> QED BY <1>3, <1>4, <3>1 DEF SeatsAreRuns, Running
  <2>4. KeysAreFresh'
    BY <1>1, <1>2, <1>3 DEF Rows, KeysAreFresh
  <2> QED BY <2>1, <2>2, <2>3, <2>4 DEF Rows
<1>8. WorkTypes' /\ ViewTypes'
  BY <1>1, <1>2 DEF WorkTypes, ViewTypes, Where
<1>9. /\ Restored' = Restored
      /\ Pending(copy, child)' = Pending(copy, child) /\ Wanted(copy, child)' = Wanted(copy, child)
  BY <1>1 DEF Pending, Wanted, Restored
<1>10. record.key \in 0..MaxRematches /\ copy.key \in 0..MaxRematches
  BY <1>2, RecordFields DEF DurableTypes, ViewTypes
<1>11. record.key # k => RunOf(record)' = RunOf(record)
  BY <1>1, <1>3, <1>10 DEF RunOf, Rematch, None
<1>12. record.key = k => RunOf(record) = "opened" /\ RunOf(record)' = "over"
  BY <1>1, <1>3, <1>4 DEF RunOf
<1>13. StagesAreSound'
  <2>1. \A p \in Player : session[p] # "absent" => session'[p] # "absent"
    BY <1>5 DEF Person
  <2>2. CASE stage \in {"cancel", "create", "seat", "seated"} /\ record.status = "rematched" /\ Running(RunOf(record))
    <3>1. record.key # k
      BY <1>1, <2>2 DEF IInv, StagesAreSound
    <3>2. RunOf(record)' = RunOf(record) /\ record' = record
      BY <1>1, <1>11, <3>1
    <3> QED BY <1>1, <1>9, <2>1, <3>2 DEF IInv, StagesAreSound
  <2>3. CASE stage \in {"cancel", "create", "seat", "seated"} /\ ~(record.status = "rematched" /\ Running(RunOf(record)))
    <3>1. stage \notin {"seat", "seated"}
      BY <2>3 DEF IInv, StagesAreSound
    <3>2. ~(record'.status = "rematched" /\ Running(RunOf(record)'))
      BY <1>1, <1>11, <1>12, <2>3 DEF Running
    <3>3. stage = "create" => RunOf(record)' = RunOf(record)
      <4>1. ASSUME stage = "create", record.key = k
            PROVE  FALSE
        <5>1. copy = record /\ child = RunOf(record) /\ Pending(copy, child) /\ record.status = "starting"
          BY <1>12, <2>3, <4>1 DEF IInv, StagesAreSound, Pending, Running
        <5> QED BY <1>1, <1>2, <4>1, <5>1 DEF Rows, KeysAreFresh
      <4> QED BY <1>11, <4>1
    <3>4. /\ copy'.status \in {"starting", "rematched"}
          /\ stage' = "create" => copy' = record' /\ child' = RunOf(record)' /\ Pending(copy, child)'
          /\ stage' \in Starting => \A p \in Player : session'[p] # "absent"
      BY <1>1, <1>9, <2>1, <2>3, <3>3 DEF IInv, StagesAreSound
    <3> QED BY <1>1, <2>3, <3>1, <3>2, <3>4 DEF StagesAreSound
  <2>4. CASE stage \notin {"cancel", "create", "seat", "seated"}
    BY <1>1, <2>1, <2>4 DEF IInv, StagesAreSound
  <2> QED BY <2>2, <2>3, <2>4
<1>14. RunsAreKnown'
  BY <1>1, <1>3, <1>10, <1>2 DEF IInv, RunsAreKnown, Rematch, None, ViewTypes
<1>15. Screens'
  <2>1. \A u \in Person : session'[u] = "away" => u \in elsewhere'
    BY <1>1, <1>5 DEF IInv, Screens
  <2>2. \A u \in Person : session'[u] # "child"
    BY <1>5
  <2>3. \A u \in Person : session'[u] \in {"result", "absent"} => session[u] = session'[u]
    BY <1>5
  <2>4. \A u \in Person : session'[u] = "result" => u \in Wanted(copy, child)'
    BY <1>9, <2>3 DEF IInv, Screens
  <2>5. \A p \in Player : seat'[p] = None
    BY <1>4
  <2>6. Restored' => \A u \in Person : session'[u] = "absent" => u \notin claim'
    BY <1>1, <1>9, <2>3 DEF IInv, Screens
  <2>7. ASSUME Restored', copy' = record', child' = RunOf(record)', NEW u \in claim'
        PROVE  session'[u] = "result"
    <3>1. record.key # k
      <4>1. ASSUME record.key = k
            PROVE  FALSE
        <5>1. child = "over" /\ copy.key = k
          BY <1>1, <1>12, <2>7, <4>1
        <5> QED BY <1>1, <5>1 DEF IInv, RunsAreKnown
      <4> QED BY <4>1
    <3>2. session[u] = "result"
      BY <1>1, <1>9, <1>11, <2>7, <3>1 DEF IInv, Screens
    <3> QED BY <1>1, <1>2, <1>5, <2>7, <3>2 DEF DurableTypes
  <2> QED BY <2>1, <2>2, <2>4, <2>5, <2>6, <2>7 DEF Screens
<1> QED BY <1>6, <1>7, <1>8, <1>13, <1>14, <1>15 DEF IInv, TypeOK

\* Only a rematch that is over, and holds no seat, is forgotten.
LEMMA ChildRetiresKeeps ==
    ASSUME IInv, NEW k \in Rematch, ChildRetires(k)
    PROVE  IInv'
<1>1. /\ rematch[k] = "over" /\ playing' = playing \ {k} /\ UNCHANGED durableResult
      /\ UNCHANGED <<session, online, connections, clock, resultFaults>>
      /\ UNCHANGED <<serving, alive, copy, child, queue, stage, tries, resuming, expiry, restart>>
  BY DEF ChildRetires, viewersNow
<1>2. DurableTypes /\ Rows /\ WorkTypes /\ ViewTypes
  BY DEF IInv, TypeOK
<1>3. DurableTypes' /\ Rows'
  BY <1>1, <1>2, RowsStay
<1>4. WorkTypes' /\ ViewTypes'
  BY <1>1, <1>2 DEF WorkTypes, ViewTypes
<1>5. /\ UNCHANGED <<record, rematch, claim, seat, elsewhere>> /\ RunOf(record)' = RunOf(record)
      /\ Restored' = Restored
  BY <1>1 DEF durableResult, RunOf, Restored
<1>6. Pending(copy, child) => Pending(copy, child)'
  BY <1>1 DEF Pending
<1>7. Wanted(copy, child) \subseteq Wanted(copy, child)'
  BY <1>1, <1>6 DEF Wanted, ViewersOf
<1>8. StagesAreSound'
  BY <1>1, <1>5, <1>6 DEF IInv, StagesAreSound
<1>9. RunsAreKnown'
  BY <1>1, <1>5 DEF IInv, RunsAreKnown
<1>10. Screens'
  <2>1. \A p \in Player : seat[p] # k \/ seat[p] = None
    BY <1>1, <1>2 DEF Rows, SeatsAreRuns, Running
  <2>2. \A u \in Person : session'[u] = "child" => u \in Player /\ seat'[u] # None /\ seat'[u] \in playing'
    BY <1>1, <1>5, <2>1 DEF IInv, Screens
  <2> QED BY <1>1, <1>5, <1>7, <2>2 DEF IInv, Screens
<1> QED BY <1>3, <1>4, <1>8, <1>9, <1>10 DEF IInv, TypeOK

------------------------------------------------------------------------------
(* Restarts *)

LEMMA CrashKeeps ==
    ASSUME IInv, Crash
    PROVE  IInv'
<1>1. /\ UNCHANGED durableResult /\ Fault(1) /\ serving' = "down"
      /\ alive' = FALSE /\ playing' = {} /\ queue' = << >> /\ stage' = "idle" /\ tries' = 0
      /\ resuming' = FALSE /\ expiry' = Unset /\ restart' = FALSE
      /\ online' = [u \in Person |-> FALSE] /\ session' = [u \in Person |-> "absent"]
      /\ UNCHANGED <<connections, copy, child, clock>>
  BY DEF Crash
<1>2. DurableTypes /\ Rows /\ WorkTypes /\ ViewTypes
  BY DEF IInv, TypeOK
<1>3. DurableTypes' /\ Rows'
  BY <1>1, <1>2, RowsStay
<1>4. WorkTypes'
  BY <1>1, EmptySeq DEF WorkTypes, Stage
<1>5. ViewTypes'
  BY <1>1, <1>2, ResultAssumption DEF ViewTypes, Fault, Where
<1>6. StagesAreSound'
  BY <1>1, QuietStages
<1>7. RunsAreKnown'
  BY <1>1 DEF IInv, RunsAreKnown, durableResult
<1>8. Screens'
  BY <1>1 DEF Screens, Restored
<1> QED BY <1>3, <1>4, <1>5, <1>6, <1>7, <1>8 DEF IInv, TypeOK

\* What the process knows after a start is what the rows say.
LEMMA BootKeeps ==
    ASSUME IInv, Boot
    PROVE  IInv'
<1> DEFINE run == IF record'.key = None THEN "none" ELSE rematch'[record'.key]
<1>1. /\ serving = "down"
      /\ UNCHANGED durableResult \/ (MayAbort /\ Abort)
      /\ \A k \in Rematch : rematch[k] = "open" => MayAbort /\ Abort
      /\ playing' = {k \in Rematch : rematch[k] = "opened"}
      /\ alive' = (record'.status # "closed")
      /\ copy' = record' /\ child' = run
      /\ session' = [u \in Person |-> IF u \in elsewhere THEN "away"
                                      ELSE IF u \in Player /\ seat'[u] # None THEN "child" ELSE "absent"]
      /\ queue' = IF alive' THEN <<Plain("expire", Nobody), Plain("restore", Nobody)>> ELSE << >>
      /\ serving' = "restoring" /\ stage' = "idle" /\ tries' = 0
      /\ resuming' = FALSE /\ expiry' = Unset /\ restart' = FALSE
      /\ UNCHANGED <<online, connections, clock, resultFaults>>
  BY DEF Boot
<1>2. DurableTypes /\ Rows /\ WorkTypes /\ ViewTypes
  BY DEF IInv, TypeOK
<1>3. DurableTypes' /\ Rows' /\ elsewhere' = elsewhere
  BY <1>1, <1>2, RowsStay, Aborting DEF durableResult
<1>4. run = RunOf(record)' /\ run \in RunState /\ (run = "over" => record'.key # None)
  BY <1>3, RecordFields DEF RunOf, DurableTypes, RunState, Rematch, None
<1> HIDE DEF run
<1>5. ViewTypes'
  <2>1. session' \in [Person -> Where]
    BY <1>1 DEF Where
  <2>2. playing' \subseteq Rematch
    BY <1>1
  <2>3. copy' \in Record /\ child' \in RunState
    BY <1>1, <1>3, <1>4 DEF DurableTypes
  <2> QED BY <1>1, <1>2, <2>1, <2>2, <2>3 DEF ViewTypes
<1>6. WorkTypes'
  <2>1. Plain("expire", Nobody) \in Task /\ Plain("restore", Nobody) \in Task
    BY <1>2, PlainIsTask
  <2>2. queue' \in Seq(Task)
    BY <1>1, <2>1, EmptySeq
  <2>3. online' = online /\ alive' \in BOOLEAN
    BY <1>1
  <2> QED BY <1>1, <1>2, <2>2, <2>3 DEF WorkTypes, Stage
<1>7. StagesAreSound'
  BY <1>1, QuietStages
<1>8. RunsAreKnown'
  <2>1. \A k \in playing' : rematch'[k] # "none"
    <3>1. CASE UNCHANGED durableResult
      BY <1>1, <3>1 DEF durableResult
    <3>2. CASE MayAbort /\ Abort
      BY <1>1, <1>2, <3>2, Aborting
    <3> QED BY <1>1, <3>1, <3>2
  <2>2. child' = "over" => copy'.key # None /\ rematch'[copy'.key] = "over"
    BY <1>1, <1>4 DEF run
  <2> QED BY <2>1, <2>2 DEF RunsAreKnown
<1>9. Screens'
  <2>1. \A u \in Person : session'[u] = IF u \in elsewhere THEN "away"
                                        ELSE IF u \in Player /\ seat'[u] # None THEN "child" ELSE "absent"
    BY <1>1
  <2>2. \A u \in Person : session'[u] = "away" => u \in elsewhere'
    BY <1>3, <2>1
  <2>3. ASSUME NEW p \in Player, seat'[p] # None
        PROVE  seat'[p] \in playing'
    <3>1. CASE MayAbort /\ Abort
      BY <1>2, <2>3, <3>1, Aborting
    <3>2. CASE UNCHANGED durableResult /\ \A k \in Rematch : rematch[k] # "open"
      <4>1. seat[p] \in Rematch /\ Running(rematch[seat[p]])
        BY <1>2, <2>3, <3>2 DEF durableResult, Rows, SeatsAreRuns, DurableTypes, Rematch, None
      <4> QED BY <1>1, <3>2, <4>1 DEF durableResult, Running
    <3> QED BY <1>1, <3>1, <3>2
  <2>4. \A u \in Person : session'[u] = "child" => u \in Player /\ seat'[u] # None /\ seat'[u] \in playing'
    BY <2>1, <2>3
  <2>5. \A u \in Person : session'[u] # "result"
    BY <2>1
  <2>6. \A p \in Player : session'[p] = "absent" => seat'[p] = None
    BY <2>1 DEF Person
  <2>7. ~Restored'
    <3>1. CASE alive'
      <4>1. queue' = <<Plain("expire", Nobody), Plain("restore", Nobody)>>
        BY <1>1, <3>1
      <4>2. Len(queue') = 2 /\ queue'[2].kind = "restore"
        BY <4>1 DEF Plain
      <4>3. ~NoRestore(queue')
        BY <4>2 DEF NoRestore
      <4> QED BY <1>1, <4>3 DEF Restored
    <3>2. CASE ~alive'
      BY <3>2 DEF Restored
    <3> QED BY <3>1, <3>2
  <2> QED BY <2>2, <2>4, <2>5, <2>6, <2>7 DEF Screens
<1> QED BY <1>3, <1>5, <1>6, <1>7, <1>8, <1>9 DEF IInv, TypeOK

------------------------------------------------------------------------------
(* The theorems *)

LEMMA InitInv == ResultInit => IInv
<1> SUFFICES ASSUME ResultInit PROVE IInv
  OBVIOUS
<1>1. PICK audience \in SUBSET Spectator :
          /\ record = [status |-> "open", viewing |-> Player, requested |-> {}, watching |-> audience, key |-> None]
          /\ session = [u \in Person |-> IF u \in Player \cup audience THEN "result" ELSE "absent"]
          /\ online = [u \in Person |-> u \in Player \cup audience]
  BY DEF ResultInit
<1>2. /\ rematch = [k \in Rematch |-> "none"] /\ claim = ViewersOf(record) /\ seat = [p \in Player |-> None]
      /\ elsewhere = {} /\ receipts = FALSE /\ used = 0
      /\ serving = "serving" /\ alive = TRUE /\ copy = record /\ child = "none" /\ playing = {}
      /\ connections = [u \in Person |-> 0]
      /\ queue = << >> /\ stage = "idle" /\ tries = 0 /\ resuming = FALSE
      /\ expiry = Aim(record, "none") /\ restart = FALSE /\ clock = 0 /\ resultFaults \in 0..MaxResultFaults
  BY DEF ResultInit
<1>3. record \in Record /\ record.key = None /\ record.status = "open"
  BY <1>1, ResultAssumption DEF Record, Status, None
<1>4. claim = Player \cup audience /\ claim \subseteq Person
  BY <1>1, <1>2 DEF ViewersOf, Person
<1>5. DurableTypes
  <2>1. rematch \in [Rematch -> RunState]
    BY <1>2 DEF RunState
  <2>2. None \in 0..MaxRematches
    BY ResultAssumption DEF None
  <2>3. seat \in [Player -> 0..MaxRematches] /\ used \in 0..MaxRematches
    BY <1>2, <2>2 DEF None
  <2> QED BY <1>2, <1>3, <1>4, <2>1, <2>3 DEF DurableTypes
<1>6. WorkTypes
  <2>1. expiry \in {0, 1, Due, Unset}
    BY <1>2, AimIsDeadline
  <2>2. online \in [Person -> BOOLEAN]
    BY <1>1
  <2>3. queue \in Seq(Task)
    BY <1>2, EmptySeq
  <2> QED BY <1>2, <2>1, <2>2, <2>3 DEF WorkTypes, Stage
<1>7. ViewTypes
  BY <1>1, <1>2, <1>3, ResultAssumption DEF ViewTypes, RunState, Where, Due
<1>8. Rows
  BY <1>2, <1>3, <1>4 DEF Rows, ClaimsAreViews, HoldsOneThing, SeatsAreRuns, KeysAreFresh, Running
<1>9. StagesAreSound /\ RunsAreKnown
  BY <1>2 DEF StagesAreSound, Starting, RunsAreKnown
<1>10. Screens
  <2>1. \A u \in Person : session[u] = IF u \in claim THEN "result" ELSE "absent"
    BY <1>1, <1>4
  <2>2. claim \subseteq Wanted(copy, child)
    BY <1>2 DEF Wanted
  <2> QED BY <1>2, <1>4, <2>1, <2>2 DEF Screens
<1> QED BY <1>5, <1>6, <1>7, <1>8, <1>9, <1>10 DEF IInv, TypeOK

LEMMA StutterKeeps ==
    ASSUME IInv, UNCHANGED resultVars
    PROVE  IInv'
BY QueueingKeeps DEF resultVars, viewersNow, resultRuntime, IInv, TypeOK, WorkTypes, ViewTypes, Restored

LEMMA StepInv ==
    ASSUME IInv, [ResultNext]_resultVars
    PROVE  IInv'
<1>1. CASE Work
  BY <1>1, RefreshKeeps, CancelStepKeeps, ChangeStepKeeps, ConfirmStepKeeps, CreateStepKeeps, SeatStepKeeps,
     InstallStepKeeps, AbortStepKeeps, SettleStepKeeps DEF Work
<1>2. CASE ResultExpiryFires \/ RestartFires \/ Tick \/ Crash \/ Boot \/ Open
  BY <1>2, ExpiryFiresKeeps, RestartFiresKeeps, TickKeeps, CrashKeeps, BootKeeps, OpenKeeps
<1>3. CASE \E u \in Player \cup record.watching : ConnectViewer(u)
  <2>1. Player \cup record.watching \subseteq Person
    BY RecordFields DEF IInv, TypeOK, DurableTypes, Person
  <2> QED BY <1>3, <2>1, ConnectKeeps
<1>4. CASE \E u \in Person : Return(u) \/ SendCommand(u, "leave")
  BY <1>4, MovingKeeps, SendCommandKeeps
<1>5. CASE \E u \in Restless \cap Person : DisconnectViewer(u) \/ Depart(u)
  BY <1>5, MovingKeeps, DisconnectKeeps
<1>6. CASE \E p \in Player : SendCommand(p, "ask")
  BY <1>6, SendCommandKeeps DEF Person
<1>7. CASE \E k \in Rematch : ChildEnds(k) \/ ChildRetires(k)
  BY <1>7, ChildEndsKeeps, ChildRetiresKeeps
<1>8. CASE UNCHANGED resultVars
  BY <1>8, StutterKeeps
<1>9. Restless \subseteq Person
  BY ResultAssumption DEF Person
<1> QED BY <1>1, <1>2, <1>3, <1>4, <1>5, <1>6, <1>7, <1>8, <1>9 DEF ResultNext

THEOREM Invariance == ResultSpec => []IInv
<1>1. IInv /\ [ResultNext]_resultVars => IInv'
  BY StepInv
<1> QED BY InitInv, <1>1, PTL DEF ResultSpec

\* The rows and the process keep their types: records name only people who were
\* there, keys stay within those drawn, and queued work is work.
THEOREM ResultTypes == ResultSpec => []TypeOK
<1>1. IInv => TypeOK
  BY DEF IInv
<1> QED BY Invariance, <1>1, PTL

\* Nobody ever holds two of: a view of the result, a seat in its rematch, something
\* else.  (saveViewers, assertPlayersAvailable, releaseGamePlayers)
THEOREM PeopleHoldOneThing == ResultSpec => []HoldsOneThing
<1>1. IInv => HoldsOneThing
  BY DEF IInv, Rows
<1> QED BY Invariance, <1>1, PTL

\* Once a result's copy is its record and no work waits, those who are shown the
\* result are those who hold a claim on it or wait for its rematch.  (refreshResult)
THEOREM ScreensAreTrue == ResultSpec => []ScreensFollowClaims
<1>1. ASSUME IInv
      PROVE  ScreensFollowClaims
  <2>1. SUFFICES ASSUME serving = "serving", alive, copy = record, child = RunOf(record), NEW u \in Person
                 PROVE  /\ session[u] = "result" => u \in Wanted(record, child)
                        /\ u \in claim => session[u] \in {"result", "absent"}
    BY DEF ScreensFollowClaims
  <2>2. Restored
    BY <2>1 DEF Restored
  <2> QED BY <1>1, <2>1, <2>2 DEF IInv, Screens
<1> QED BY Invariance, <1>1, PTL

\* Both together: what people are shown is what they hold, and they hold one thing.
\* (refreshResult, saveViewers, assertPlayersAvailable, releaseGamePlayers)
THEOREM PlacesAreKept == ResultSpec => []PlacesAreOnesOwn
BY PeopleHoldOneThing, ScreensAreTrue, PTL DEF PlacesAreOnesOwn

\* Nobody is taken to a rematch's board who has dropped or looked elsewhere since
\* consenting.  (resumeResultRematch, createGameInRuntime)
THEOREM NobodyIsDraggedAlong == ResultSpec => NobodyIsSeatedInAbsence
<1>1. ASSUME IInv, [ResultNext]_resultVars, serving = "serving",
             NEW p \in Player, session[p] # "child", session'[p] = "child"
      PROVE  online[p] /\ session[p] = "result"
  <2>1. session \in [Person -> Where] /\ p \in Person
    BY <1>1 DEF IInv, TypeOK, ViewTypes, Person
  <2>2. CASE InstallStep
    BY <2>2 DEF InstallStep, StillThere, Attending
  <2>3. CASE Refresh
    <3>1. CASE UNCHANGED session
      BY <1>1, <3>1
    <3>2. CASE session' = Shown(record, RunOf(record), Head(queue).kind = "restore")
      BY <1>1, <2>1, <3>2 DEF Shown
    <3> QED BY <2>3, <3>1, <3>2 DEF Refresh
  <2>4. CASE CancelStep \/ ChangeStep \/ ConfirmStep \/ CreateStep \/ SeatStep \/ AbortStep \/ SettleStep
    BY <1>1, <2>4 DEF CancelStep, ChangeStep, ConfirmStep, CreateStep, SeatStep, AbortStep, SettleStep
  <2>5. CASE ResultExpiryFires \/ RestartFires \/ Tick \/ Open
    BY <1>1, <2>5 DEF ResultExpiryFires, RestartFires, Tick, Open, viewersNow
  <2>6. CASE Crash
    BY <1>1, <2>1, <2>6 DEF Crash
  <2>7. CASE Boot
    BY <1>1, <2>7 DEF Boot
  <2>8. CASE \E u \in Player \cup record.watching : ConnectViewer(u)
    BY <1>1, <2>1, <2>8 DEF ConnectViewer
  <2>9. CASE \E u \in Person \cup Restless : Return(u) \/ SendCommand(u, "leave") \/ DisconnectViewer(u) \/ Depart(u)
    BY <1>1, <2>1, <2>9 DEF Return, SendCommand, DisconnectViewer, Depart, viewersNow
  <2>10. CASE \E u \in Player : SendCommand(u, "ask")
    BY <1>1, <2>10 DEF SendCommand, viewersNow
  <2>11. CASE \E k \in Rematch : ChildEnds(k) \/ ChildRetires(k)
    BY <1>1, <2>1, <2>11 DEF ChildEnds, ChildRetires, viewersNow
  <2>12. CASE UNCHANGED resultVars
    BY <1>1, <2>12 DEF resultVars, viewersNow
  <2> QED BY <1>1, <2>2, <2>3, <2>4, <2>5, <2>6, <2>7, <2>8, <2>9, <2>10, <2>11, <2>12 DEF ResultNext, Work
<1>2. IInv /\ [ResultNext]_resultVars =>
        [serving = "serving" =>
            \A p \in Player : session[p] # "child" /\ session'[p] = "child" => online[p] /\ session[p] = "result"]_resultVars
  BY <1>1
<1> QED BY Invariance, <1>2, PTL DEF ResultSpec, NobodyIsSeatedInAbsence
==============================================================================
