-------------------------------- MODULE Accounts --------------------------------
(***************************************************************************)
(* Accounts: guests, which expire, are renewed by use and retired by a     *)
(* cleanup that runs beside them; registered players; and one page, whose  *)
(* identity is read, renewed, converted, replaced and dropped by requests  *)
(* that may be answered late, out of order or not at all.                  *)
(***************************************************************************)
EXTENDS Integers

CONSTANTS
    Player, Guest,      \* the accounts, and those that begin as guests
    NoOne,              \* no account
    Lifetime, Renewal,  \* GUEST_LIFETIME_MS, GUEST_TOKEN_RENEW_MS, in days
    EventDay,           \* bound: the days on which something happens
    MaxSent,            \* bound: requests of the page
    MaxScopes           \* bound: generations of the page's identity

ASSUME AccountsAssumption ==
    /\ Guest \subseteq Player /\ NoOne \notin Player
    /\ {Lifetime, Renewal, MaxSent, MaxScopes} \cup EventDay \subseteq Nat /\ 0 < Renewal /\ Renewal < Lifetime /\ 0 \in EventDay

VARIABLES
    row,        \* User
    grants,     \* STARTER_GRANT transactions
    days,       \* the server's clock
    admitted,   \* accounts whose handshake was authorized, ...
    online,     \* ... and whose socket is connected
    cleanup,    \* the guest whose row the cleanup has locked
    tab,        \* AccountSession
    flow,       \* what each flow of the page awaits
    requests,   \* requests on their way
    asked,
    told,       \* what the page said of the conversion of which account
    dropped,    \* the token the bootstrap found rejected, and the one it cleared
    chosen      \* the last privacy choice to take effect in each account, and whether it overruled a later one

accountsVars == <<row, grants, days, admitted, online, cleanup, tab, flow, requests, asked, told, dropped, chosen>>
databaseVars == <<row, grants, days, admitted, online, cleanup>>

Forever == 1000
Flow == {"boot", "upgrade", "auth", "profile", "settings"}

\* Every update of a row advances its profileVersion (a trigger of the database).
Updated(r) == [r EXCEPT !.version = @ + 1]

NoToken == [of |-> NoOne, guest |-> FALSE, exp |-> 0]
NoProfile == [id |-> NoOne, guest |-> FALSE, version |-> 0]
SignToken(u, r) == [of |-> u, guest |-> r.guest, exp |-> IF r.guest THEN days + Lifetime ELSE Forever]
Profile(u, r) == [id |-> u, guest |-> r.guest, version |-> r.version]

\* A request that timed out, failed on the way or found the server unavailable.
Unconfirmed == [status |-> 0, user |-> NoProfile, token |-> NoToken]
Denied(status) == [Unconfirmed EXCEPT !.status = status]
Idling == [stage |-> "off", call |-> 0, scope |-> [generation |-> 0, token |-> NoToken, id |-> NoOne], refused |-> FALSE]

Capture == [generation |-> tab.generation, token |-> tab.token, id |-> tab.user.id]

Request(kind, token) == [number |-> asked + 1, kind |-> kind, token |-> token, expected |-> tab.user.version, served |-> FALSE, answer |-> Unconfirmed]

\* A guest's page: the row was renewed since its token was signed; a choice of privacy may be on its way.
AccountsInit ==
    /\ row = [u \in Player |-> [guest |-> u \in Guest, expires |-> IF u \in Guest THEN Lifetime ELSE Forever, retired |-> FALSE, version |-> 0]]
    /\ grants = [u \in Player |-> IF u \in Guest THEN 0 ELSE 1]
    /\ days = 0 /\ admitted = {} /\ online = {} /\ cleanup = NoOne
    /\ \E u \in Guest : \E shown \in {NoProfile, Profile(u, row[u])} :
           tab = [token |-> [SignToken(u, row[u]) EXCEPT !.exp = @ - Renewal], user |-> shown, generation |-> 0]
    /\ asked = 0
    /\ \/ flow = [f \in Flow |-> Idling] /\ requests = {}
       \/ /\ tab.user # NoProfile /\ requests = {[Request("privacy", tab.token) EXCEPT !.number = 0]}
          /\ flow = [f \in Flow |-> IF f = "settings" THEN [Idling EXCEPT !.stage = "needsRefresh", !.scope = Capture] ELSE Idling]
    /\ told = [of |-> NoOne, is |-> "nothing"] /\ dropped = [rejected |-> NoToken, cleared |-> NoToken] /\ chosen = [u \in Player |-> [applied |-> 0, overruling |-> FALSE]]

------------------------------------------------------------------------------
(* The server *)

\* Mutant: a renewed token is not backed by the row.
AuthorizedBriefly(r, renew) ==
    IF r.guest /\ r.expires <= days + Renewal THEN Updated([r EXCEPT !.expires = days + Lifetime]) ELSE r

\* authorizeAccount, of an account that is not retired
Authorized(r, renew) ==
    IF r.guest /\ r.expires <= days + (IF renew THEN Lifetime ELSE Renewal)
    THEN Updated([r EXCEPT !.expires = days + Lifetime]) ELSE r

ValidToken(t) == t.exp > days /\ ~row[t.of].retired

\* GET /auth/me: an aging token, or one with an obsolete identity, is replaced.
Me(c, r) ==
    LET renews == c.token.exp - days < Renewal \/ c.token.guest # r.guest
        new == IF renews THEN Authorized(r, TRUE) ELSE r IN
    [row |-> new, grant |-> 0,
     answer |-> [status |-> 200, user |-> Profile(c.token.of, new), token |-> IF renews THEN SignToken(c.token.of, new) ELSE NoToken]]

Unchanged(r, status) == [row |-> r, grant |-> 0, answer |-> Denied(status)]

\* upgradeGuest: the row is converted, and the starter grant is a second update of it.
Upgrade(c, r) ==
    LET new == Updated(Updated([r EXCEPT !.guest = FALSE, !.expires = Forever])) IN
    IF ~r.guest THEN Unchanged(r, 400)
    ELSE [row |-> new, grant |-> 1,
          answer |-> [status |-> 200, user |-> Profile(c.token.of, new), token |-> SignToken(c.token.of, new)]]

\* updateProfilePrivacy
Privacy(c, r) ==
    IF r.version # c.expected THEN Unchanged(r, 409)
    ELSE [row |-> Updated(r), grant |-> 0, answer |-> [Denied(200) EXCEPT !.user = Profile(c.token.of, Updated(r))]]

\* POST /auth/login
Login(c, r) ==
    IF r.guest THEN Unchanged(r, 400)
    ELSE [row |-> r, grant |-> 0, answer |-> [status |-> 200, user |-> Profile(c.token.of, r), token |-> SignToken(c.token.of, r)]]

\* What a request does and answers; the name or email of an upgrade may be taken.
Outcomes(c) ==
    LET u == c.token.of
        r == Authorized(row[u], FALSE) IN
    IF c.kind = "login" THEN IF row[u].retired THEN {Unchanged(row[u], 401)} ELSE {Login(c, row[u])}
    ELSE IF ~ValidToken(c.token) THEN {Unchanged(row[u], 401)}
    ELSE IF c.kind = "upgrade" THEN {Upgrade(c, r), Unchanged(r, 409)}
    ELSE IF c.kind = "privacy" THEN {Privacy(c, r)} ELSE {Me(c, r)}

\* The cleanup's transaction and these wait for each other at the row.
ServeRequest ==
    /\ \E c \in requests :
           /\ ~c.served /\ cleanup # c.token.of
           /\ \E o \in Outcomes(c) :
                  /\ row' = [row EXCEPT ![c.token.of] = o.row] /\ grants' = [grants EXCEPT ![c.token.of] = @ + o.grant]
                  /\ requests' = (requests \ {c}) \cup {[c EXCEPT !.served = TRUE, !.answer = o.answer]}
                  /\ chosen' = IF c.kind # "privacy" \/ o.answer.status # 200 THEN chosen
                              ELSE [chosen EXCEPT ![c.token.of] = [applied |-> c.number, overruling |-> @.overruling \/ c.number < @.applied]]
    /\ UNCHANGED <<days, admitted, online, cleanup, tab, flow, asked, told, dropped>>

\* Another page of the account converts it.
ConvertElsewhere(u) ==
    /\ cleanup # u /\ row[u].guest /\ ~row[u].retired
    /\ LET done == Upgrade([token |-> SignToken(u, row[u])], row[u]) IN
       row' = [row EXCEPT ![u] = done.row] /\ grants' = [grants EXCEPT ![u] = @ + done.grant]
    /\ UNCHANGED <<days, admitted, online, cleanup, tab, flow, requests, asked, told, dropped, chosen>>

\* The handshake of the page's socket: io.use authorizes, then the connection event registers it.
Handshake ==
    /\ admitted \cup online = {} /\ tab.token # NoToken /\ ValidToken(tab.token) /\ cleanup # tab.token.of
    /\ row' = [row EXCEPT ![tab.token.of] = Authorized(@, FALSE)] /\ admitted' = admitted \cup {tab.token.of}
    /\ UNCHANGED <<grants, days, online, cleanup, tab, flow, requests, asked, told, dropped, chosen>>

Register(u) ==
    /\ u \in admitted /\ admitted' = admitted \ {u} /\ online' = online \cup {u}
    /\ UNCHANGED <<row, grants, days, cleanup, tab, flow, requests, asked, told, dropped, chosen>>

HangUp(u) ==
    /\ u \in online /\ online' = online \ {u}
    /\ UNCHANGED <<row, grants, days, admitted, cleanup, tab, flow, requests, asked, told, dropped, chosen>>

\* A handshake takes less than a day.
NextDay ==
    /\ admitted = {} /\ \E d \in EventDay : d > days /\ (\A e \in EventDay : e > days => d <= e) /\ days' = d
    /\ UNCHANGED <<row, grants, admitted, online, cleanup, tab, flow, requests, asked, told, dropped, chosen>>

\* retireExpiredGuest: the row is locked, read and found expired and unused, ...
LockGuest(u) ==
    /\ cleanup = NoOne /\ row[u].guest /\ ~row[u].retired /\ row[u].expires < days
    /\ u \notin online /\ cleanup' = u
    /\ UNCHANGED <<row, grants, days, admitted, online, tab, flow, requests, asked, told, dropped, chosen>>

\* ... and retired, unless it came back while its history was read.
RetireGuest ==
    /\ cleanup # NoOne /\ cleanup' = NoOne
    /\ row' = IF cleanup \in online THEN row ELSE [row EXCEPT ![cleanup] = Updated([@ EXCEPT !.retired = TRUE])]
    /\ UNCHANGED <<grants, days, admitted, online, tab, flow, requests, asked, told, dropped, chosen>>

------------------------------------------------------------------------------
(* The page *)

IsCurrent(scope) == scope.generation = tab.generation
SameIdentity(scope) == Capture = scope

\* A flow sends a request, with the token of its scope, and awaits it.
Dispatch(f, stage, kind, scope, refused) ==
    /\ asked < MaxSent /\ asked' = asked + 1
    /\ flow' = [flow EXCEPT ![f] = [stage |-> stage, call |-> asked + 1, scope |-> scope, refused |-> refused]]

\* What a flow may learn of its request: the answer, or nothing, and the request goes on.
Learned(f) == {Unconfirmed} \cup {c.answer : c \in {d \in requests : d.number = flow[f].call /\ d.served}}
CallsWithout(f) == {c \in requests : c.number # flow[f].call \/ ~c.served}

Off(f) == flow' = [flow EXCEPT ![f] = Idling] /\ asked' = asked

\* accept: never an older revision, never another account's, and a token only for its own renewal.
Accept(a, scope) ==
    IF ~IsCurrent(scope) \/ scope.token = NoToken \/ tab.token = NoToken THEN tab
    ELSE IF tab.user.id \notin {NoOne, a.user.id} \/ (tab.user.id # NoOne /\ a.user.version < tab.user.version) THEN tab
    ELSE [tab EXCEPT !.user = IF @.id = NoOne \/ a.user.version > @.version THEN a.user ELSE @,
                     !.token = IF a.token # NoToken /\ scope.token = @ THEN a.token ELSE @]

\* AppBootstrap.start restores the stored account, ...
Boot ==
    /\ flow["boot"].stage = "off" /\ tab.token # NoToken /\ tab.user = NoProfile
    /\ Dispatch("boot", "restore", "me", Capture, FALSE) /\ requests' = requests \cup {Request("me", tab.token)}
    /\ UNCHANGED <<databaseVars, tab, told, dropped, chosen>>

\* ... and signs out one that is no longer accepted, unless another has been chosen meanwhile.
Booted ==
    /\ flow["boot"].stage = "restore"
    /\ \E a \in Learned("boot") :
           LET scope == flow["boot"].scope
               clears == a.status = 401 /\ IsCurrent(scope) /\ tab.token = scope.token IN
           /\ clears => tab.generation < MaxScopes
           /\ tab' = IF clears THEN [token |-> NoToken, user |-> NoProfile, generation |-> tab.generation + 1]
                     ELSE IF a.status = 200 THEN Accept(a, scope) ELSE tab
           /\ dropped' = IF clears THEN [rejected |-> scope.token, cleared |-> tab.token] ELSE dropped
    /\ requests' = CallsWithout("boot") /\ Off("boot")
    /\ UNCHANGED <<databaseVars, told, chosen>>

\* AuthenticationFlow.submit of a registered account
Submit(u) ==
    /\ flow["auth"].stage = "off" /\ tab.generation < MaxScopes /\ tab' = [tab EXCEPT !.generation = @ + 1]
    /\ Dispatch("auth", "submit", "login", [Capture EXCEPT !.generation = @ + 1], FALSE)
    /\ requests' = requests \cup {Request("login", [NoToken EXCEPT !.of = u])}
    /\ UNCHANGED <<databaseVars, told, dropped, chosen>>

\* establish, or the error; leaving the form cancels the request.
Submitted ==
    /\ flow["auth"].stage = "submit"
    /\ \E a \in Learned("auth") :
           LET establishes == a.status = 200 /\ IsCurrent(flow["auth"].scope) IN
           /\ establishes => tab.generation < MaxScopes
           /\ tab' = IF establishes THEN [token |-> a.token, user |-> a.user, generation |-> tab.generation + 1] ELSE tab
    /\ requests' = CallsWithout("auth") /\ Off("auth")
    /\ UNCHANGED <<databaseVars, told, dropped, chosen>>

SignOut ==
    /\ tab.token # NoToken /\ tab.generation < MaxScopes
    /\ tab' = [token |-> NoToken, user |-> NoProfile, generation |-> tab.generation + 1]
    /\ UNCHANGED <<databaseVars, flow, requests, asked, told, dropped, chosen>>

\* A hint that the row has a newer revision: the profile is read again.
Observe ==
    /\ flow["profile"].stage = "off" /\ tab.user # NoProfile /\ row[tab.user.id].version > tab.user.version
    /\ Dispatch("profile", "read", "me", Capture, FALSE) /\ requests' = requests \cup {Request("me", tab.token)}
    /\ UNCHANGED <<databaseVars, tab, told, dropped, chosen>>

ProfileReconciled ==
    /\ flow["profile"].stage = "read"
    /\ \E a \in Learned("profile") : tab' = IF a.status = 200 THEN Accept(a, flow["profile"].scope) ELSE tab
    /\ requests' = CallsWithout("profile") /\ Off("profile")
    /\ UNCHANGED <<databaseVars, told, dropped, chosen>>

\* ProfileSettingsClient.change: an absolute choice, made on the revision that is shown
Choose ==
    /\ flow["settings"].stage = "off" /\ tab.user # NoProfile
    /\ Dispatch("settings", "write", "privacy", Capture, FALSE) /\ requests' = requests \cup {Request("privacy", tab.token)}
    /\ UNCHANGED <<databaseVars, tab, told, dropped, chosen>>

\* Whatever the answer, the profile is read before another choice can be made.
ReadSettings ==
    /\ \/ flow["settings"].stage = "write" /\ requests' = CallsWithout("settings") \cup {Request("me", tab.token)}
       \/ flow["settings"].stage = "needsRefresh" /\ requests' = requests \cup {Request("me", tab.token)}
    /\ IsCurrent(flow["settings"].scope) /\ tab.token # NoToken
    /\ Dispatch("settings", "read", "me", Capture, FALSE)
    /\ UNCHANGED <<databaseVars, tab, told, dropped, chosen>>

SettingsRead ==
    /\ flow["settings"].stage = "read" /\ IsCurrent(flow["settings"].scope)
    /\ \E a \in Learned("settings") :
           IF a.status = 200 THEN tab' = Accept(a, flow["settings"].scope) /\ Off("settings")
           ELSE tab' = tab /\ asked' = asked /\ flow' = [flow EXCEPT !["settings"].stage = "needsRefresh"]
    /\ requests' = CallsWithout("settings")
    /\ UNCHANGED <<databaseVars, told, dropped, chosen>>

\* reset, when the account changes
ResetSettings ==
    /\ flow["settings"].stage # "off" /\ ~IsCurrent(flow["settings"].scope) /\ Off("settings")
    /\ UNCHANGED <<databaseVars, tab, requests, told, dropped, chosen>>

------------------------------------------------------------------------------
(* createAccountUpgrade: the account is read, converted and read again *)

Check ==
    /\ flow["upgrade"].stage = "off" /\ tab.user.guest
    /\ Dispatch("upgrade", "check", "me", Capture, FALSE) /\ requests' = requests \cup {Request("me", tab.token)}
    /\ UNCHANGED <<databaseVars, tab, told, dropped, chosen>>

Tell(what) == told' = [of |-> flow["upgrade"].scope.id, is |-> what]

\* confirm, of an account that is registered
ConfirmSaved(a) == tab' = Accept(a, flow["upgrade"].scope) /\ Tell("saved") /\ Off("upgrade") /\ requests' = CallsWithout("upgrade")

\* What a guest's answer brings: a renewed token, on which the next request depends.
Renewed(a) ==
    IF a.status = 200 /\ a.token \notin {NoToken, flow["upgrade"].scope.token} THEN Accept(a, flow["upgrade"].scope) ELSE tab

EndUpgrade(kept, what) == tab' = kept /\ Tell(what) /\ Off("upgrade") /\ requests' = CallsWithout("upgrade")

Proceed(a, stage, kind, refused) ==
    LET renewed == Renewed(a) IN
    /\ tab' = renewed /\ told' = told
    /\ Dispatch("upgrade", stage, kind, [generation |-> renewed.generation, token |-> renewed.token, id |-> renewed.user.id], refused)
    /\ requests' = CallsWithout("upgrade") \cup {Request(kind, renewed.token)}

UpgradeStep ==
    /\ flow["upgrade"].stage # "off"
    /\ \E a \in Learned("upgrade") :
           LET stage == flow["upgrade"].stage
               shown == a.status = 200
               saved == shown /\ ~a.user.guest IN
           IF ~SameIdentity(flow["upgrade"].scope) THEN EndUpgrade(tab, "superseded")
           ELSE IF saved THEN ConfirmSaved(a)
           ELSE IF stage = "check" THEN IF shown THEN Proceed(a, "post", "upgrade", FALSE) ELSE EndUpgrade(tab, "pending")
           ELSE IF stage = "post" THEN Proceed(a, "confirm", "me", a.status \in 400..499)
           ELSE EndUpgrade(Renewed(a), IF shown /\ flow["upgrade"].refused THEN "rejected" ELSE "pending")
    /\ UNCHANGED <<databaseVars, dropped, chosen>>

AccountsNext ==
    \/ ServeRequest \/ Handshake \/ NextDay \/ RetireGuest
    \/ \E u \in Player : Register(u) \/ HangUp(u) \/ LockGuest(u) \/ Submit(u) \/ ConvertElsewhere(u)
    \/ Boot \/ Booted \/ Submitted \/ SignOut \/ Observe \/ ProfileReconciled
    \/ Choose \/ ReadSettings \/ SettingsRead \/ ResetSettings \/ Check \/ UpgradeStep

AccountsSpec == AccountsInit /\ [][AccountsNext]_accountsVars

------------------------------------------------------------------------------
(* Properties *)

\* A guest is retired only when no token opens the account any more and it is not connected.
RetiredGuestsAreGone ==
    \A u \in Player : row[u].retired => u \notin online \cup admitted /\ ~(tab.token.of = u /\ tab.token.exp > days)

\* An account is converted once, with one grant, and the page never says it is saved when it is not.
ConversionsAreTrue ==
    /\ \A u \in Player : grants[u] = (IF row[u].guest THEN 0 ELSE 1)
    /\ told.is = "saved" => ~row[told.of].guest

\* The page never mixes accounts, shows no future, and its bootstrap drops only the token it found rejected.
IdentityIsWhole ==
    /\ tab.user.id \in {NoOne, tab.token.of}
    /\ tab.user.id # NoOne => tab.user.version <= row[tab.user.id].version
    /\ dropped.cleared = dropped.rejected

\* No choice of privacy takes effect after a later one did.
ChoicesStand == \A u \in Player : ~chosen[u].overruling

\* Whatever is answered late, lost or overtaken, and however the cleanup interleaves with
\* a guest's return, accounts are neither lost, granted twice nor mixed.
\* (guestCleanup, authorizeAccount, upgradeGuest, AccountSession, createAccountUpgrade)
AccountsAreSound == RetiredGuestsAreGone /\ ConversionsAreTrue /\ IdentityIsWhole /\ ChoicesStand
==============================================================================
