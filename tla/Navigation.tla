------------------------------- MODULE Navigation -------------------------------
(***************************************************************************)
(* Where the page is.  The NavigationController keeps what the player      *)
(* asked for (the intent), follows the accepted session snapshots, joins   *)
(* the room of an invitation, sends challenges and loads replays, and      *)
(* makes both the screen and the address from one projection.              *)
(***************************************************************************)
EXTENDS Integers

CONSTANTS
    Tab,                \* BROWSE_TABS
    Lobby,              \* 'lobby', one of them
    Replay, Code,       \* replays, invitation codes
    Nil,                \* null
    MaxVisits,          \* bound: addresses opened and tabs chosen
    MaxSessions         \* bound: changes of the session or of the account

ASSUME NavigationAssumption == Lobby \in Tab /\ Nil \notin Tab \cup Replay \cup Code /\ {MaxVisits, MaxSessions} \subseteq Nat

VARIABLES
    nav,            \* NavigationController
    promises,       \* what it awaits: invitations looked up, commands, replays
    place,          \* the address in the browser
    visits, sessions,
    challenged      \* challenges opened less challenges sent

navigationVars == <<nav, promises, place, visits, sessions, challenged>>

------------------------------------------------------------------------------
(* navigationPolicy *)

Browse(t) == [kind |-> "browse", of |-> t]
InSession == [kind |-> "session", of |-> Nil]
Challenge == [kind |-> "challenge", of |-> Nil]
Invite(c) == [kind |-> "invite", of |-> c]
Intent == {Browse(t) : t \in Tab} \cup {InSession, Challenge} \cup {[kind |-> "replay", of |-> r] : r \in Replay} \cup {Invite(c) : c \in Code}

\* A snapshot is its phase and what it is in; a spectated room may have no game.
SessionSnapshot == {[phase |-> "idle", of |-> 0], [phase |-> "in-room", of |-> 1], [phase |-> "matchmaking", of |-> 0],
             [phase |-> "in-game", of |-> 1], [phase |-> "spectating", of |-> 0]}
\* No snapshot is null.
ASSUME SnapshotAssumption == Nil \notin SessionSnapshot
NoSession == [snapshot |-> Nil, ready |-> FALSE, pending |-> FALSE]

ScreenOf(snapshot, intent) ==
    IF snapshot.phase = "in-game" \/ (snapshot.phase = "spectating" /\ snapshot.of # 0) THEN "game"
    ELSE IF snapshot.phase = "spectating" THEN "room-waiting"
    ELSE IF intent.kind = "replay" THEN "replay"
    ELSE IF intent.kind = "browse" THEN "none"
    ELSE CASE snapshot.phase = "in-room" -> "room-waiting"
           [] snapshot.phase = "matchmaking" -> "search"
           [] OTHER -> "none"

Projection(snapshot, intent, lastTab) ==
    LET screen == ScreenOf(snapshot, intent) IN
    [screen |-> screen, tab |-> IF intent.kind = "browse" THEN intent.of ELSE lastTab,
     replay |-> IF screen = "replay" THEN intent.of ELSE Nil, member |-> snapshot]

NoView == [screen |-> "none", tab |-> Lobby, replay |-> Nil, member |-> Nil]

\* The projection as an address: the tab matters when there is no screen.
Address(view) == IF view.screen = "none" THEN view ELSE [view EXCEPT !.tab = Nil]

------------------------------------------------------------------------------
(* NavigationController *)

NoInvite == [code |-> Nil, begun |-> 0, generation |-> 0, stage |-> "none"]

NavigationInit ==
    /\ \E i \in Intent :
           nav = [intent |-> i, lastTab |-> Lobby, generation |-> 1, identity |-> 0, session |-> NoSession, view |-> NoView,
                  data |-> Nil, loading |-> FALSE, error |-> FALSE, invitation |-> NoInvite, fetching |-> Nil]
    /\ promises = {} /\ place = NoView /\ visits = 1 /\ sessions = 0
    /\ challenged = IF nav.intent = Challenge THEN 1 ELSE 0

\* The controller, its promises and the challenges it sent, as reconcile leaves them.
Result(n, p, c) == [nav |-> n, promises |-> p, challenged |-> c]

Standing(n) == n.session.ready /\ ~n.session.pending
Fetch(id, n) == [kind |-> "replay", of |-> id, generation |-> n.generation, stage |-> "loading"]

\* The last part of reconcile: screen, address, and the replay it calls for.
ViewOf(r) ==
    LET n == r.nav
        view == Projection(n.session.snapshot, n.intent, n.lastTab)
        fetches == view.replay # Nil /\ n.fetching # view.replay IN
    Result([n EXCEPT !.view = view, !.fetching = IF fetches THEN view.replay ELSE @,
                     !.data = IF fetches THEN Nil ELSE @, !.loading = @ \/ fetches, !.error = @ /\ ~fetches],
           IF fetches THEN r.promises \cup {Fetch(view.replay, n)} ELSE r.promises, r.challenged)

JoinInvite(r) ==
    LET request == [code |-> r.nav.intent.of, begun |-> r.nav.generation, generation |-> r.nav.generation, stage |-> "checking"] IN
    Result([r.nav EXCEPT !.invitation = request, !.loading = TRUE, !.error = FALSE],
           r.promises \cup {[kind |-> "invite", of |-> request.code, generation |-> request.generation, stage |-> "checking"]}, r.challenged)

\* reconcile: a link keeps until there is an identity and a snapshot it can act on.
Reconciled(r) ==
    LET n == r.nav
        idle == n.session.snapshot.phase = "idle"
        inSession == [n EXCEPT !.intent = InSession, !.error = @ \/ ~idle] IN
    IF n.identity = 0 THEN Result([n EXCEPT !.view = [@ EXCEPT !.screen = "none"], !.data = Nil], r.promises, r.challenged)
    ELSE IF n.session.snapshot = Nil THEN r
    ELSE IF n.intent = Challenge THEN
         IF ~Standing(n) THEN r
         ELSE ViewOf(Result(inSession, r.promises, IF idle THEN r.challenged - 1 ELSE r.challenged))
    ELSE IF n.intent.kind = "invite" THEN
         IF ~Standing(n) \/ n.invitation # NoInvite THEN r
         ELSE IF idle THEN JoinInvite(r) ELSE ViewOf(Result(inSession, r.promises, r.challenged))
    ELSE ViewOf(r)

\* Every handler ends so; the address is written when it differs.
Becomes(r) ==
    LET final == Reconciled(r) IN
    /\ nav' = final.nav /\ promises' = final.promises /\ challenged' = final.challenged
    /\ place' = IF final.nav.identity # 0 /\ final.nav.view # nav.view THEN Address(final.nav.view) ELSE place

\* A new intent forgets the replay and what was said about the last one.
Turn(n, intent) ==
    [n EXCEPT !.generation = @ + 1, !.fetching = Nil, !.intent = intent, !.data = Nil, !.loading = FALSE, !.error = FALSE,
              !.lastTab = IF intent.kind = "browse" THEN intent.of ELSE @]

\* locationChanged, browse, openSession, openReplay, closeReplay.  That locationChanged does
\* nothing for the address shown already is a step that changes nothing.
Visit(intent) ==
    /\ visits < MaxVisits /\ visits' = visits + 1 /\ sessions' = sessions
    /\ Becomes(Result(Turn(nav, intent), promises, challenged + (IF intent = Challenge THEN 1 ELSE 0)))

\* abandonInvite
Abandon(code) ==
    /\ nav.intent = Invite(code) /\ visits < MaxVisits /\ visits' = visits + 1 /\ sessions' = sessions
    /\ Becomes(Result([Turn(nav, Browse(Lobby)) EXCEPT !.invitation = NoInvite, !.fetching = nav.fetching, !.data = nav.data], promises, challenged))

\* setIdentity: another account starts from the lobby.
SetIdentity(id) ==
    LET fresh == [Turn(nav, Browse(Lobby)) EXCEPT !.identity = id, !.invitation = NoInvite, !.session = NoSession, !.view = NoView] IN
    /\ id # nav.identity /\ sessions < MaxSessions /\ sessions' = sessions + 1 /\ visits' = visits
    /\ Becomes(Result(IF nav.identity # 0 THEN fresh ELSE [nav EXCEPT !.identity = id], promises, challenged))

\* Mutant: a change of membership leaves the player where they were.
SessionKept(session) == [nav EXCEPT !.session = session]

\* setSession: a change of membership is where the player now is, whatever was asked before; an
\* invitation whose command is under way goes on.
SessionTaken(session) ==
    LET moved == nav.session.snapshot # Nil /\ session.snapshot # Nil /\ nav.session.snapshot # session.snapshot
        completing == nav.invitation.stage = "sending" /\ nav.intent.kind = "invite"
        there == [nav EXCEPT !.session = session, !.generation = @ + 1, !.fetching = Nil, !.intent = InSession, !.data = Nil,
                             !.loading = FALSE, !.error = FALSE, !.invitation.generation = IF completing THEN nav.generation + 1 ELSE @] IN
    IF moved THEN there ELSE [nav EXCEPT !.session = session]

SetSession ==
    /\ nav.identity # 0 /\ sessions < MaxSessions /\ sessions' = sessions + 1 /\ visits' = visits
    /\ \E snapshot \in SessionSnapshot, ready, pending \in BOOLEAN :
           Becomes(Result(SessionTaken([snapshot |-> snapshot, ready |-> ready, pending |-> pending]), promises, challenged))

\* fetchReplay: the replay, or an error, if it is still the one asked for
ReplayLoaded(p) ==
    LET current == nav.fetching = p.of /\ nav.generation = p.generation IN
    /\ p.kind = "replay" /\ promises' = promises \ {p}
    /\ \E found \in BOOLEAN :
           nav' = IF ~current THEN nav ELSE [nav EXCEPT !.data = IF found THEN p.of ELSE @, !.error = @ \/ ~found, !.loading = FALSE]
    /\ UNCHANGED <<place, visits, sessions, challenged>>

\* The end of joinInvite
InviteDone(n, p) ==
    Becomes(Result([n EXCEPT !.invitation = NoInvite, !.loading = IF n.generation = nav.invitation.generation THEN FALSE ELSE @],
                   promises \ {p}, challenged))

Mine(p) == nav.intent = Invite(p.of)
OwnInvite(p) == nav.invitation.begun = p.generation

\* joinInvite, once the invitation has been looked up: it may be gone, or the lookup fail.
InviteChecked(p) ==
    /\ p.kind = "invite" /\ p.stage = "checking" /\ UNCHANGED <<visits, sessions>>
    /\ IF ~OwnInvite(p) THEN UNCHANGED <<nav, place, challenged>> /\ promises' = promises \ {p}
       ELSE \/ Mine(p) /\ nav.generation = p.generation /\ InviteDone([nav EXCEPT !.intent = Browse(nav.lastTab)], p)
            \/ nav.generation = p.generation /\ InviteDone([nav EXCEPT !.intent = InSession, !.error = TRUE], p)
            \/ /\ ~(Mine(p) /\ nav.generation = p.generation /\ Standing(nav) /\ nav.session.snapshot.phase = "idle")
               /\ InviteDone(nav, p)
            \/ /\ Mine(p) /\ nav.generation = p.generation /\ Standing(nav) /\ nav.session.snapshot.phase = "idle"
               /\ nav' = [nav EXCEPT !.invitation.stage = "sending"] /\ promises' = (promises \ {p}) \cup {[p EXCEPT !.stage = "sending"]}
               /\ UNCHANGED <<place, challenged>>

\* ... and after the command that joins or watches the room
InviteAnswered(p) ==
    /\ p.kind = "invite" /\ p.stage = "sending" /\ UNCHANGED <<visits, sessions>>
    /\ LET there == IF Mine(p) THEN [nav EXCEPT !.intent = InSession] ELSE nav IN
       IF ~OwnInvite(p) THEN UNCHANGED <<nav, place, challenged>> /\ promises' = promises \ {p}
       ELSE \E ok \in BOOLEAN : InviteDone([there EXCEPT !.error = @ \/ (~ok /\ nav.generation = nav.invitation.generation)], p)

NavigationNext ==
    \/ \E intent \in Intent : Visit(intent)
    \/ \E code \in Code : Abandon(code)
    \/ \E id \in 0..2 : SetIdentity(id)
    \/ SetSession
    \/ \E p \in promises : ReplayLoaded(p) \/ InviteChecked(p) \/ InviteAnswered(p)

NavigationSpec == NavigationInit /\ [][NavigationNext]_navigationVars

------------------------------------------------------------------------------
(* Properties *)

\* Screen and address are those of the membership and the intent, once a link has been acted on.
ScreenFollowsSession ==
    nav.identity # 0 /\ nav.session.snapshot # Nil /\ nav.intent.kind \notin {"invite", "challenge"} =>
        /\ nav.view = Projection(nav.session.snapshot, nav.intent, nav.lastTab)
        /\ place = Address(nav.view)

\* The replay shown is the one that was asked for last.
ReplayIsTheOne == nav.data # Nil => nav.view.screen = "replay" /\ nav.data = nav.view.replay

\* The page says it is loading only while something that ends it is awaited.
LoadingEnds ==
    nav.loading => \/ \E p \in promises : p.kind = "replay" /\ p.of = nav.fetching /\ p.generation = nav.generation
                   \/ nav.invitation # NoInvite /\ nav.invitation.generation = nav.generation

\* One invitation is acted on at a time, and a challenge that was opened is sent at most once.
LinksActOnce ==
    /\ challenged >= 0
    /\ \A p, q \in promises : p.stage = "sending" /\ q.stage = "sending" /\ OwnInvite(p) /\ OwnInvite(q) => p = q

\* However answers, snapshots, accounts and the player's own steps interleave, the page is where
\* the session is, loading ends and links act once. (NavigationController)
NavigationIsSound == ScreenFollowsSession /\ ReplayIsTheOne /\ LoadingEnds /\ LinksActOnce
==============================================================================
