-------------------------------- MODULE Sessions --------------------------------
(***************************************************************************)
(* One person's session in the memory of the server: its connection, its   *)
(* phase, the deadline of its search, and the notice it shows of what      *)
(* happened while the person was away.  Notices are rows of the database,  *)
(* appended by the transitions they belong to; readings of the latest one  *)
(* are taken by different work and applied whenever they arrive.           *)
(***************************************************************************)
EXTENDS Naturals, Sequences, FiniteSets

CONSTANTS
    Wait,           \* botFallbackMs, in moments
    Allowances      \* bound: how many notices are appended, connections opened, searches begun and
                    \* changes of phase made, how often the database fails or does not answer, and
                    \* how long time goes on

ASSUME SessionsAssumption ==
    /\ Wait \in Nat \ {0}
    /\ Allowances \subseteq [notices: Nat, links: Nat, searches: Nat, moves: Nat, faults: Nat, moments: Nat]

VARIABLES
    session,    \* UserSession
    notices,    \* SessionNotice of this person, in the order of their sequence: dismissed or not
    readings,   \* the latest notices that were read and are not applied yet
    owing,      \* transitions that appended a notice and have not read it yet
    dismissing, \* the dismissal under way: its notice, connection and attempt
    shownPage,  \* the last snapshot sent on this connection
    dismissals, \* those that were confirmed, and whether one was not
    moment,
    left        \* of the allowances

sessionVars == <<session, notices, readings, owing, dismissing, shownPage, dismissals, moment, left>>

NoContext == [joined |-> 0, fallback |-> 0, timer |-> 0]
NewSession == [phase |-> "idle", link |-> 0, restoring |-> FALSE, notice |-> 0, cursor |-> [sequence |-> 0, dismissed |-> FALSE], search |-> NoContext]
NoDismissal == [notice |-> 0, link |-> 0, attempt |-> 0]
NoPage == [phase |-> "none", open |-> FALSE]

SessionsInit ==
    /\ session = NewSession /\ notices = << >> /\ readings = {} /\ owing = {} /\ dismissing = NoDismissal
    /\ shownPage = NoPage /\ dismissals = [confirmed |-> {}, doubt |-> FALSE] /\ moment = 1 /\ left \in Allowances

------------------------------------------------------------------------------
(* The session, and who is told of it *)

\* buildSyncPayload, emitted only to a connection that is restored
PageOf(s) == [phase |-> s.phase, open |-> s.phase = "searching" /\ moment >= s.search.fallback]
Published(s) == IF s.link # 0 /\ ~s.restoring THEN PageOf(s) ELSE shownPage

\* setPhase and forceIdle: the context is cleared, the timer with it.
Entered(s, phase) == [s EXCEPT !.phase = phase, !.search = NoContext]

Allowed == [idle |-> {"in-room", "searching", "in-game", "spectating"}, in_room |-> {"in-game", "idle"},
            searching |-> {"in-room", "in-game", "idle"}, in_game |-> {"idle"}, spectating |-> {"idle", "spectating"}]

May(what) == left[what] > 0 /\ left' = [left EXCEPT ![what] = @ - 1]
MoveTo(s) == session' = s /\ shownPage' = Published(s)

\* Rooms, games and results move the session; what the table of transitions does not allow, they do not.
Moves(from) == CASE from = "in-room" -> Allowed.in_room [] from = "in-game" -> Allowed.in_game [] OTHER -> Allowed[from]
Enter(phase) ==
    /\ phase \in Moves(session.phase) /\ phase # "searching"
    /\ May("moves") /\ MoveTo(Entered(session, phase))
    /\ UNCHANGED <<notices, readings, owing, dismissing, dismissals, moment>>

ForceIdle ==
    /\ session.phase # "idle" /\ May("moves") /\ MoveTo(Entered(session, "idle"))
    /\ UNCHANGED <<notices, readings, owing, dismissing, dismissals, moment>>

------------------------------------------------------------------------------
(* setMatchmakingDeadline *)

Woken(s) == IF moment < s.search.fallback THEN s ELSE [s EXCEPT !.search.timer = 0]

\* matchmaking:join; alone, there is nothing to wait for.
BeginSearch ==
    /\ session.link # 0 /\ ~session.restoring /\ "searching" \in Moves(session.phase)
    /\ May("searches")
    /\ \E after \in {0, Wait} :
        MoveTo([Entered(session, "searching") EXCEPT
                    !.search = [joined |-> moment, fallback |-> moment + after, timer |-> IF after = 0 THEN 0 ELSE left.searches]])
    /\ UNCHANGED <<notices, readings, owing, dismissing, dismissals, moment>>

\* The timer wakes, perhaps before its time; at the deadline the session is published.
TimerWakes ==
    /\ session.search.timer # 0
    /\ session' = Woken(session)
    /\ shownPage' = IF moment < session.search.fallback THEN shownPage ELSE Published(session')
    /\ UNCHANGED <<notices, readings, owing, dismissing, dismissals, moment, left>>

Moment ==
    /\ May("moments") /\ moment' = moment + 1
    /\ UNCHANGED <<session, notices, readings, owing, dismissing, dismissals, shownPage>>

------------------------------------------------------------------------------
(* Notices *)

Latest == IF notices = << >> THEN [sequence |-> 0, dismissed |-> FALSE] ELSE [sequence |-> Len(notices), dismissed |-> notices[Len(notices)].dismissed]

\* appendSessionNotice, with the transition it belongs to, whose work then reads the account.
AppendNotice ==
    /\ May("notices")
    /\ notices' = Append(notices, [dismissed |-> FALSE]) /\ owing' = owing \cup {Len(notices) + 1}
    /\ UNCHANGED <<session, readings, dismissing, dismissals, shownPage, moment>>

ReadAccount(n) ==
    /\ owing' = owing \ {n} /\ readings' = readings \cup {Latest}
    /\ UNCHANGED <<session, notices, dismissing, dismissals, shownPage, moment, left>>

\* Mutant: only what is older than the cursor is out of date.
OlderOnly(r) == r.sequence < session.cursor.sequence

Outdated(r) == r.sequence < session.cursor.sequence \/ (r.sequence = session.cursor.sequence /\ session.cursor.dismissed)

\* applySessionNotice
Noticed(s, r) == IF r.sequence = 0 \/ Outdated(r) THEN s ELSE [s EXCEPT !.cursor = r, !.notice = IF r.dismissed THEN 0 ELSE r.sequence]

ApplyReading(r) ==
    /\ readings' = readings \ {r} /\ session' = Noticed(session, r)
    /\ UNCHANGED <<notices, owing, dismissing, dismissals, shownPage, moment, left>>

\* notice:dismiss, of the notice that is shown or of an earlier one a page still shows
Dismiss(n) ==
    /\ session.link # 0 /\ ~session.restoring /\ dismissing = NoDismissal
    /\ dismissing' = [notice |-> n, link |-> session.link, attempt |-> 1]
    /\ UNCHANGED <<session, notices, readings, owing, dismissals, shownPage, moment, left>>

Dismissed(n) == [notices EXCEPT ![n].dismissed = TRUE]
Attempted == IF dismissing.attempt = 1 THEN [dismissing EXCEPT !.attempt = 2] ELSE NoDismissal

\* dismissSessionNotice; a failure or a lost answer is followed by one more attempt.
DismissOnce ==
    LET n == dismissing.notice IN
    /\ dismissing # NoDismissal
    /\ \/ /\ dismissing.link = session.link /\ notices' = Dismissed(n)
          /\ session' = Noticed(session, Latest')
          /\ dismissals' = [confirmed |-> dismissals.confirmed \cup {n}, doubt |-> FALSE]
          /\ dismissing' = NoDismissal /\ UNCHANGED left
       \/ /\ dismissing.link # session.link /\ dismissing' = Attempted /\ UNCHANGED <<notices, session, dismissals, left>>
       \/ /\ May("faults") /\ dismissing' = Attempted /\ UNCHANGED session
          /\ notices' \in {notices, Dismissed(n)} /\ dismissals' = [dismissals EXCEPT !.doubt = TRUE]
    /\ UNCHANGED <<readings, owing, shownPage, moment>>

------------------------------------------------------------------------------
(* Connections *)

\* A new connection replaces the former; its membership is restored before it is told anything.
OpenConnection ==
    /\ May("links")
    /\ session' = [session EXCEPT !.link = left.links, !.restoring = TRUE]
    /\ shownPage' = NoPage
    /\ UNCHANGED <<notices, readings, owing, dismissing, dismissals, moment>>

\* restoreMembership ends with the notice; then the first snapshot is sent.  Or it fails and the connection is closed.
Disconnected(s) == [IF s.phase = "searching" THEN Entered(s, "idle") ELSE s EXCEPT !.link = 0, !.restoring = FALSE]
RestoreNotice ==
    /\ session.restoring
    /\ \/ /\ session' = [Noticed(session, Latest) EXCEPT !.restoring = FALSE]
          /\ shownPage' = PageOf(session') /\ dismissals' = [dismissals EXCEPT !.doubt = FALSE] /\ UNCHANGED left
       \/ /\ May("faults") /\ UNCHANGED dismissals
          /\ session' = Disconnected(session) /\ shownPage' = NoPage
    /\ UNCHANGED <<notices, readings, owing, dismissing, moment>>

\* handleDisconnect of the connection the session has; those it replaced are not listened to.
CloseConnection ==
    /\ session.link # 0
    /\ session' = Disconnected(session) /\ shownPage' = NoPage
    /\ UNCHANGED <<notices, readings, owing, dismissing, dismissals, moment, left>>

SessionsNext ==
    \/ \E phase \in {"idle", "in-room", "in-game", "spectating"} : Enter(phase)
    \/ ForceIdle \/ BeginSearch \/ TimerWakes \/ Moment \/ AppendNotice
    \/ \E n \in owing : ReadAccount(n)
    \/ \E r \in readings : ApplyReading(r)
    \/ \E n \in DOMAIN notices : Dismiss(n)
    \/ DismissOnce \/ OpenConnection \/ RestoreNotice \/ CloseConnection

SessionsSpec == SessionsInit /\ [][SessionsNext]_sessionVars

------------------------------------------------------------------------------
(* Properties *)

\* A notice whose dismissal was confirmed is not shown again, whatever was read before.
DismissedStaysAway == session.notice \notin dismissals.confirmed

\* Once all that was read is applied, the session shows the latest notice unless it is
\* dismissed; a dismissal whose outcome nobody learned is caught up with on connecting.
NoticeIsLatest ==
    owing = {} /\ readings = {} /\ ~dismissals.doubt /\ dismissing = NoDismissal =>
        session.notice = IF notices = << >> \/ Latest.dismissed THEN 0 ELSE Latest.sequence

\* A search whose deadline is not on the page yet has a timer for it, which no
\* earlier search, no early wakening and no other connection takes away.
FallbackIsKept ==
    session.phase = "searching" /\ session.link # 0 => session.search.timer # 0 \/ session.restoring \/ shownPage.open

SessionIsSound == DismissedStaysAway /\ NoticeIsLatest /\ FallbackIsKept

------------------------------------------------------------------------------
(* What the proofs need besides *)

Reading == [sequence : Nat, dismissed : BOOLEAN]

\* The shape of every variable.
SessionTypeOK ==
    /\ session \in [phase : {"idle", "in-room", "searching", "in-game", "spectating"}, link : Nat, restoring : BOOLEAN,
                    notice : Nat, cursor : Reading, search : [joined : Nat, fallback : Nat, timer : Nat]]
    /\ notices \in Seq([dismissed : BOOLEAN]) /\ readings \subseteq Reading /\ owing \subseteq Nat
    /\ dismissing \in [notice : Nat, link : Nat, attempt : Nat]
    /\ shownPage \in [phase : {"none", "idle", "in-room", "searching", "in-game", "spectating"}, open : BOOLEAN]
    /\ dismissals \in [confirmed : SUBSET Nat, doubt : BOOLEAN]
    /\ moment \in Nat
    /\ left \in [notices : Nat, links : Nat, searches : Nat, moves : Nat, faults : Nat, moments : Nat]

\* A reading was true: what it says was dismissed is.
Truly(r) == r.sequence <= Len(notices) /\ (r.dismissed => r.sequence # 0 /\ notices[r.sequence].dismissed)
ReadingsAreTrue == \A r \in readings : Truly(r)
CursorIsTrue == Truly(session.cursor) /\ session.notice = IF session.cursor.dismissed THEN 0 ELSE session.cursor.sequence

\* A notice is being dismissed that is there; the cursor has passed those that were.
DismissalIsOfANotice == dismissing # NoDismissal => dismissing.notice \in DOMAIN notices
CursorPassed(n) == n <= session.cursor.sequence /\ (n = session.cursor.sequence => session.cursor.dismissed)
ConfirmedArePassed == \A n \in dismissals.confirmed : n \in DOMAIN notices /\ notices[n].dismissed /\ CursorPassed(n)

\* The latest state of the notices is known, unless it is still to be read or applied.
LatestIsKnown == session.cursor = Latest \/ owing # {} \/ dismissals.doubt \/ Latest \in readings

SearchIsTimed == session.phase = "searching" /\ moment < session.search.fallback => session.search.timer # 0

SessionInv ==
    /\ SessionTypeOK /\ ReadingsAreTrue /\ CursorIsTrue /\ DismissalIsOfANotice /\ ConfirmedArePassed
    /\ LatestIsKnown /\ SearchIsTimed /\ FallbackIsKept
==============================================================================
