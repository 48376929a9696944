------------------------------ MODULE BrowserReads ------------------------------
(***************************************************************************)
(* What the page shows of data the server owns: views that read it again   *)
(* after hints, actions and changes of account.  Three kinds of client: a  *)
(* feed that reads (the game log), a client that also acts (friends; shop  *)
(* and treasury, which are not told of changes), and the list of rooms,    *)
(* which is read once and then follows a numbered stream of changes.       *)
(* Everything the clients read is one number here: how many changes it has *)
(* seen.                                                                   *)
(***************************************************************************)
EXTENDS Integers, Sequences

CONSTANTS
    MaxChanges,     \* bound: changes on the server
    MaxReads,       \* bound: reads of one view
    MaxBreaks       \* bound: broken connections, changes of account and closed views

ASSUME BrowserReadsAssumption == {MaxChanges, MaxReads, MaxBreaks} \subseteq Nat

VARIABLES
    client,         \* which kind it is: "feed", "actor", "unhinted" or "rooms"
    facts,          \* the changes on the server
    wire,           \* the socket: connected, and the events on their way, in order
    view,           \* ReadResource: what is shown
    owner,          \* GameLogFeed, FriendsClient, TreasuryClient, ShopClient; missed is a history variable
    journal,        \* of friendship actions, shared by all friends views: empty, keeps one, sends this view's, sends another
    loads,          \* reads on their way
    list,           \* RoomListClient
    account, reads, breaks

readVars == <<client, facts, wire, view, owner, journal, loads, list, account, reads, breaks>>

None == 0 - 1

FreshView == [sequence |-> 0, status |-> "idle", data |-> None, of |-> 0]
IdleOwner == [dirty |-> FALSE, action |-> "none", since |-> 0, missed |-> FALSE]
OfflineList == [generation |-> 0, loading |-> FALSE, error |-> FALSE, revision |-> None, seen |-> {}, buffered |-> {}, known |-> FALSE]

ReadsInit ==
    /\ client \in {"feed", "actor", "unhinted", "rooms"} /\ facts = 0 /\ wire = [up |-> TRUE, events |-> << >>]
    /\ view = FreshView /\ owner = IdleOwner
    /\ journal = "empty" /\ loads = {} /\ list = OfflineList /\ account = 0 /\ reads = 0 /\ breaks = 0

------------------------------------------------------------------------------
(* The server and the socket *)

\* The socket names no change but the list's; the others are only told that there is one.
Happens ==
    /\ facts < MaxChanges /\ facts' = facts + 1
    /\ wire' = IF wire.up /\ client # "unhinted" THEN [wire EXCEPT !.events = Append(@, [is |-> "change", number |-> facts + 1])] ELSE wire

Change ==
    /\ Happens
    /\ UNCHANGED <<client, view, owner, journal, loads, list, account, reads, breaks>>

\* The server reads for one request, whether or not the page still waits for it.
ServeRead ==
    /\ client # "rooms" /\ \E l \in loads : l.data = None /\ loads' = (loads \ {l}) \cup {[l EXCEPT !.data = facts]}
    /\ UNCHANGED <<client, facts, wire, view, owner, journal, list, account, reads, breaks>>

------------------------------------------------------------------------------
(* ReadResource *)

\* refresh: a newer read, or another account, invalidates an older one.
Reading(v) == [v EXCEPT !.sequence = @ + 1, !.status = "loading", !.of = account]
Load(v) == [sequence |-> v.sequence, of |-> v.of, data |-> None]

RefreshView ==
    /\ reads < MaxReads /\ reads' = reads + 1
    /\ view' = Reading(view) /\ loads' = loads \cup {Load(Reading(view))}

KeepView == UNCHANGED <<view, loads, reads>>

\* Mutant: an answer is shown whichever read it was for.
AnyLoad(l) == view.status = "loading"

CurrentLoad(l) == l.sequence = view.sequence /\ l.of = account

------------------------------------------------------------------------------
(* GameLogFeed.refresh, FriendsClient.invalidate and drainInvalidation *)

\* Hints during a read, or during an action, are kept for one more read.
Occupied == view.status = "loading" \/ owner.action # "none"

\* isBusy: the journal sends an action, whosever it is.
Busy == journal \in {"own", "other"}

\* The view is told to read again, and has then seen the first n changes.
Invalidate(n) ==
    IF Occupied THEN owner' = [owner EXCEPT !.dirty = TRUE, !.since = n] /\ KeepView
    ELSE RefreshView /\ owner' = [owner EXCEPT !.dirty = FALSE, !.since = n, !.missed = FALSE]

\* A friends view does not hear it while the journal is busy, or the document is hidden, which
\* may be at any time (isVisible).
Hint ==
    \/ ~Busy /\ Invalidate(owner.since)
    \/ client = "actor" /\ owner' = [owner EXCEPT !.missed = TRUE] /\ KeepView

\* presence:stats: about every ten seconds a friends view reads again, whatever it was told.
Heartbeat ==
    /\ client = "actor" /\ wire.up /\ view.status # "loading" /\ ~Busy /\ Invalidate(facts)
    /\ UNCHANGED <<client, facts, wire, journal, list, account, breaks>>

\* The window is focused again.
Focus ==
    /\ client = "actor" /\ ~Busy /\ Invalidate(owner.since)
    /\ UNCHANGED <<client, facts, wire, journal, list, account, breaks>>

Refresh ==
    /\ client # "rooms" /\ ~Occupied /\ RefreshView /\ owner' = [owner EXCEPT !.dirty = FALSE, !.missed = FALSE]
    /\ UNCHANGED <<client, facts, wire, journal, list, account, breaks>>

\* A read ends, and ends the action it confirmed; what was kept is read next.
Ended(v, o) ==
    LET free == [o EXCEPT !.action = "none"]
        rest == {l \in loads : ~CurrentLoad(l)} IN
    IF o.dirty /\ reads < MaxReads
    THEN /\ reads' = reads + 1 /\ view' = Reading(v) /\ loads' = rest \cup {Load(Reading(v))}
         /\ owner' = [free EXCEPT !.dirty = FALSE, !.missed = FALSE]
    ELSE view' = v /\ loads' = rest /\ owner' = free /\ reads' = reads

Loaded ==
    /\ \E l \in loads :
           /\ l.data # None
           /\ IF CurrentLoad(l) THEN Ended([view EXCEPT !.status = "ready", !.data = l.data], owner)
              ELSE loads' = loads \ {l} /\ UNCHANGED <<view, owner, reads>>
    /\ UNCHANGED <<client, facts, wire, journal, list, account, breaks>>

LoadFailed ==
    /\ view.status = "loading" /\ Ended([view EXCEPT !.status = "error"], owner)
    /\ UNCHANGED <<client, facts, wire, journal, list, account, breaks>>

\* act, claim: performed on the server, and confirmed by a read; one action at a time.  A
\* friends view starts none while the journal keeps one, and sends it through the journal
\* unless it is a tip.
BeginAct ==
    /\ client \in {"actor", "unhinted"} /\ view.status = "ready" /\ owner.action = "none" /\ journal = "empty"
    /\ owner' = [owner EXCEPT !.action = "performing", !.since = facts]
    /\ \/ client = "actor" /\ journal' = "own"
       \/ UNCHANGED journal
    /\ UNCHANGED <<client, facts, wire, view, loads, list, account, reads, breaks>>

Perform ==
    /\ owner.action = "performing" /\ Happens
    /\ owner' = [owner EXCEPT !.action = "performed", !.since = facts + 1]
    /\ UNCHANGED <<client, view, journal, loads, list, account, reads, breaks>>

\* How the journal is left: the action is confirmed or refused, or its outcome is not known.
Left == journal' \in {"empty", "kept"}

\* The receipt, or an error that may hide a commit: either way the view is read again.
ConfirmAct ==
    /\ owner.action \in {"performing", "performed"}
    /\ RefreshView
    /\ owner' = [owner EXCEPT !.action = "reading", !.missed = FALSE]
    /\ IF journal = "own" THEN Left ELSE UNCHANGED journal
    /\ UNCHANGED <<client, facts, wire, list, account, breaks>>

\* Another view acts, or a kept action is sent once more, from this view or another.
OtherSends ==
    /\ client = "actor" /\ journal \in {"empty", "kept"} /\ journal' = "other"
    /\ UNCHANGED <<client, facts, wire, view, owner, loads, list, account, reads, breaks>>

OtherEnds ==
    /\ client = "actor" /\ journal = "other" /\ Left
    /\ UNCHANGED <<client, facts, wire, view, owner, loads, list, account, reads, breaks>>

\* confirmed: what this view had kept, in the journal or the wallet's, is confirmed at last; it reads again.
ConfirmedLater ==
    /\ client = "actor" /\ owner.action = "none"
    /\ RefreshView /\ owner' = [owner EXCEPT !.missed = FALSE]
    /\ \/ journal = "other" /\ journal' = "empty"
       \/ UNCHANGED journal
    /\ UNCHANGED <<client, facts, wire, list, account, breaks>>

\* reset, when the account or the query changes: nothing of the old one is shown.
SwitchAccount ==
    /\ client # "rooms" /\ breaks < MaxBreaks /\ breaks' = breaks + 1 /\ account' = account + 1
    /\ reads < MaxReads /\ reads' = reads + 1
    /\ LET v == [view EXCEPT !.sequence = @ + 2, !.status = "loading", !.data = None, !.of = account + 1] IN
       view' = v /\ loads' = loads \cup {Load(v)}
    /\ owner' = IdleOwner /\ IF client = "actor" THEN Left ELSE UNCHANGED journal
    /\ UNCHANGED <<client, facts, wire, list>>

------------------------------------------------------------------------------
(* RoomListClient *)

\* refresh: an acknowledged list, during which changes are kept.
ReadList(l) == [l EXCEPT !.generation = @ + 1, !.revision = None, !.buffered = {}, !.loading = TRUE, !.error = FALSE]

\* apply: changes in order, onto a list that is there
Applied(l, number) == IF number <= l.revision \/ ~l.known THEN l ELSE [l EXCEPT !.revision = number, !.seen = @ \cup {number}]

RefreshList ==
    /\ client = "rooms" /\ wire.up /\ reads < MaxReads /\ reads' = reads + 1 /\ list' = ReadList(list)
    /\ loads' = loads \cup {[sequence |-> list.generation + 1, of |-> 0, data |-> None]}
    /\ UNCHANGED <<client, facts, wire, view, owner, journal, account, breaks>>

\* The list is read and acknowledged on the same socket as the changes.
ServeList ==
    /\ client = "rooms" /\ wire.up
    /\ \E l \in loads : loads' = loads \ {l} /\ wire' = [wire EXCEPT !.events = Append(@, [is |-> "list", number |-> facts, generation |-> l.sequence])]
    /\ UNCHANGED <<client, facts, view, owner, journal, list, account, reads, breaks>>

TakeList(number) ==
    LET held == [list EXCEPT !.revision = number, !.seen = 1..number, !.known = TRUE, !.loading = FALSE, !.error = FALSE, !.buffered = {}]
        newer == {n \in list.buffered : n > number} IN
    IF newer = {} THEN held ELSE [held EXCEPT !.revision = CHOOSE n \in newer : \A k \in newer : k <= n, !.seen = @ \cup newer]

TimeOut ==
    /\ list.loading /\ list' = [list EXCEPT !.generation = @ + 1, !.buffered = {}, !.loading = FALSE, !.error = TRUE]
    /\ UNCHANGED <<client, facts, wire, view, owner, journal, loads, account, reads, breaks>>

------------------------------------------------------------------------------
(* Events of the socket reach the clients in order; a broken connection loses those on their way *)

Event ==
    /\ wire.events # << >> /\ wire' = [wire EXCEPT !.events = Tail(@)]
    /\ LET e == Head(wire.events) IN
       IF client = "rooms"
       THEN /\ list' = IF e.is = "list" THEN IF e.generation = list.generation THEN TakeList(e.number) ELSE list
                       ELSE Applied([list EXCEPT !.buffered = IF list.loading THEN @ \cup {e.number} ELSE @], e.number)
            /\ KeepView /\ owner' = owner
       ELSE Hint /\ list' = list
    /\ UNCHANGED <<client, facts, journal, account, breaks>>

Break ==
    /\ wire.up /\ breaks < MaxBreaks /\ breaks' = breaks + 1 /\ wire' = [up |-> FALSE, events |-> << >>]
    /\ list' = IF client = "rooms" THEN [list EXCEPT !.generation = @ + 1, !.buffered = {}, !.loading = FALSE, !.error = TRUE] ELSE list
    /\ loads' = IF client = "rooms" THEN {} ELSE loads
    /\ UNCHANGED <<client, facts, view, owner, journal, account, reads>>

\* connect: every client reads again.
Reopen ==
    /\ ~wire.up /\ wire' = [wire EXCEPT !.up = TRUE]
    /\ IF client = "rooms"
       THEN /\ reads < MaxReads /\ reads' = reads + 1 /\ list' = ReadList(list)
            /\ loads' = {[sequence |-> list.generation + 1, of |-> 0, data |-> None]} /\ UNCHANGED <<view, owner>>
       ELSE list' = list /\ IF client = "unhinted" THEN KeepView /\ owner' = owner ELSE Hint
    /\ UNCHANGED <<client, facts, journal, account, breaks>>

ReadsNext ==
    \/ Change \/ ServeRead \/ Refresh \/ Loaded \/ LoadFailed \/ Heartbeat \/ Focus
    \/ BeginAct \/ Perform \/ ConfirmAct \/ OtherSends \/ OtherEnds \/ ConfirmedLater \/ SwitchAccount
    \/ RefreshList \/ ServeList \/ TimeOut \/ Event \/ Break \/ Reopen

ReadsSpec == ReadsInit /\ [][ReadsNext]_readVars

------------------------------------------------------------------------------
(* Properties *)

\* Nothing is on its way to the page and nothing failed that the page says failed.
ViewSettled == wire.up /\ wire.events = << >> /\ view.status = "ready" /\ owner.action = "none"

\* A view that is told of changes shows the last one when it has settled, unless the bound on
\* reads was met.  A friends view may have been told while it did not listen.
HintsAreNotLost ==
    client \in {"feed", "actor"} /\ ViewSettled /\ reads < MaxReads /\ ~owner.missed => view.data = facts

\* No view shows what another account was shown, and every view shows its own action once it is
\* confirmed.  A friends view shows whatever had happened when it last heard a heartbeat.
ViewsAreOwn ==
    /\ view.status = "ready" => view.of = account
    /\ client # "rooms" /\ view.status = "ready" /\ owner.action = "none" => view.data >= owner.since

\* The list of rooms is never one with a change missing from the middle; a settled list is the server's.
ListIsComplete ==
    client = "rooms" /\ list.known /\ ~list.loading /\ ~list.error =>
        /\ \E n \in 0..facts : list.seen = 1..n
        /\ wire.events = << >> => list.seen = 1..facts

\* However reads, hints, actions and connections overlap, what is shown is current, or said not to
\* be; a friends view that was told of a change while it was hidden or the journal was busy is
\* current from the next heartbeat on (docs/friends-state.md).
\* (ReadResource, GameLogFeed, FriendsClient, RoomListClient)
ReadsAreCurrent == HintsAreNotLost /\ ViewsAreOwn /\ ListIsComplete
==============================================================================
