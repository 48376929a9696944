----------------------------- MODULE AccountActions -----------------------------
(***************************************************************************)
(* What an account asks to be done once: shop purchases, selections and    *)
(* tips, friendships, administration.  One browser tab keeps the intent of *)
(* each journal in its session storage before it is sent, retries it under *)
(* the same request id, and changes accounts while replies are on their    *)
(* way; the server applies an intent and writes its receipt in one         *)
(* transaction.  The vault pays rewards, or owes them.                     *)
(***************************************************************************)
EXTENDS Naturals, Sequences, FiniteSets, SequencesExt

CONSTANTS
    Account,            \* the two people whom a friendship, a tip and a grant concern
    Nobody,
    Admin,              \* the account that is an administrator at first
    Price, VaultShare,  \* calculateShopSplit of the item's price
    Tip, Grant, Reward, \* amounts
    InitialCoins,
    MaxIntents,         \* bound: actions asked for
    MaxCalls,           \* bound: requests sent for them
    MaxIdentities       \* bound: account changes and reloads of the tab

ASSUME AccountActionsAssumption ==
    /\ \E other \in Account \ {Admin} : Account = {Admin, other}
    /\ Nobody \notin Account
    /\ Price \in Nat /\ VaultShare \in 0..Price /\ {Tip, Grant, Reward, InitialCoins} \subseteq Nat
    /\ {MaxIntents, MaxCalls, MaxIdentities} \subseteq Nat

VARIABLES
    identity,       \* the account of the tab
    generation,     \* ActionJournal.generation, one for all journals
    saved,          \* sessionStorage: the intent of each account and journal, 0 for none
    held,           \* ActionJournal.pending
    intents, calls, \* what was asked for, and the requests sent for it
    coins, vault, owners, wearers, friendship, admins, rewards,
    receipts,       \* walletOperation, friendshipOperation and adminOperation
    denied          \* intents that the rules refused after they had taken effect

tabVars == <<identity, generation, saved, held>>
serverVars == <<coins, vault, owners, wearers, friendship, admins, rewards, receipts, denied>>
accountVars == <<tabVars, intents, calls, serverVars>>

Journals == [wallet |-> {"purchase", "equip", "tip"},
             friendships |-> {"request", "accept", "remove"},
             admin |-> {"give-coins", "revoke"}]
JournalOf(kind) == CHOOSE j \in DOMAIN Journals : kind \in Journals[j]
NoIntents == [j \in DOMAIN Journals |-> 0]
NoFriendship == [id |-> 0, from |-> Nobody, status |-> "NONE"]

AccountInit ==
    /\ identity = Admin /\ generation = 0
    /\ saved = [u \in Account |-> NoIntents] /\ held = NoIntents
    /\ intents = << >> /\ calls = << >>
    /\ coins = [u \in Account |-> InitialCoins] /\ vault = 0
    /\ owners = {} /\ wearers = {} /\ admins = {Admin}
    /\ friendship \in {NoFriendship, [id |-> 1, from |-> Admin, status |-> "ACCEPTED"]}
    /\ rewards = [u \in Account |-> "none"]
    /\ receipts = {} /\ denied = {}

Other(u) == CHOOSE v \in Account : v # u

------------------------------------------------------------------------------
(* The tab *)

Busy(j) ==
    \E n \in DOMAIN calls :
        /\ calls[n].awaits \in {"reply", "confirmation"} /\ calls[n].generation = generation
        /\ JournalOf(intents[calls[n].intent].kind) = j

CallFor(i) == [intent |-> i, generation |-> generation, awaits |-> "reply", answer |-> "none"]

\* start: the intent is saved before it is sent.
Start(kind) ==
    LET j == JournalOf(kind)
        i == Len(intents) + 1 IN
    /\ identity # Nobody /\ held[j] = 0 /\ ~Busy(j)
    /\ i <= MaxIntents /\ Len(calls) < MaxCalls
    /\ intents' = Append(intents, [kind |-> kind, user |-> identity, friendship |-> friendship.id])
    /\ saved' = [saved EXCEPT ![identity][j] = i] /\ held' = [held EXCEPT ![j] = i]
    /\ calls' = Append(calls, CallFor(i))
    /\ UNCHANGED <<identity, generation, serverVars>>

Retry(j) ==
    /\ held[j] # 0 /\ ~Busy(j) /\ Len(calls) < MaxCalls
    /\ calls' = Append(calls, CallFor(held[j]))
    /\ UNCHANGED <<tabVars, intents, serverVars>>

Answered(n, next) == calls' = [calls EXCEPT ![n].awaits = next]

\* clear, of the journal as it is now
ClearJournal(j) ==
    /\ held' = [held EXCEPT ![j] = 0]
    /\ saved' = IF identity = Nobody THEN saved ELSE [saved EXCEPT ![identity][j] = 0]

\* Mutant: a reply is taken whichever account it was asked for.
FreshForAnyone(c) == TRUE

\* A reply counts only for the identity that asked.
Fresh(c) == c.generation = generation

\* withDeadline runs out, or the connection fails: the outcome stays open.
GiveUp(n) ==
    /\ calls[n].awaits = "reply" /\ Answered(n, "nothing any more")
    /\ UNCHANGED <<tabVars, intents, serverVars>>

TakeReply(n) ==
    LET c == calls[n] IN
    /\ c.awaits = "reply" /\ c.answer # "none"
    /\ IF ~Fresh(c) THEN Answered(n, "nothing any more") /\ UNCHANGED tabVars
       ELSE IF c.answer = "receipt" THEN Answered(n, "confirmation") /\ UNCHANGED tabVars
       ELSE Answered(n, "nothing") /\ ClearJournal(JournalOf(intents[c.intent].kind)) /\ UNCHANGED <<identity, generation>>
    /\ UNCHANGED <<intents, serverVars>>

\* confirm has refreshed the account, or failed to.
Confirm(n) ==
    /\ calls[n].awaits = "confirmation"
    /\ IF Fresh(calls[n])
       THEN /\ Answered(n, "nothing") /\ ClearJournal(JournalOf(intents[calls[n].intent].kind))
            /\ UNCHANGED <<identity, generation>>
       ELSE Answered(n, "nothing any more") /\ UNCHANGED tabVars
    /\ UNCHANGED <<intents, serverVars>>

\* setIdentity: another account, or none; or the same one after a reload, which forgets the replies awaited.
Identify(u, reload) ==
    /\ generation < MaxIdentities /\ reload = (u = identity)
    /\ generation' = generation + 1 /\ identity' = u
    /\ held' = IF u = Nobody THEN NoIntents ELSE saved[u]
    /\ calls' = [n \in DOMAIN calls |-> IF reload /\ calls[n].awaits # "nothing"
                                        THEN [calls[n] EXCEPT !.awaits = "nothing any more"] ELSE calls[n]]
    /\ UNCHANGED <<saved, intents, serverVars>>

------------------------------------------------------------------------------
(* The server: one transaction under the locks of the accounts concerned *)

Refused(i) ==
    LET u == intents[i].user
        same == friendship.id = intents[i].friendship /\ friendship.id # 0 IN
    CASE intents[i].kind = "purchase" -> u \in owners \/ coins[u] < Price
      [] intents[i].kind = "equip" -> u \notin owners
      [] intents[i].kind = "tip" -> friendship.status # "ACCEPTED" \/ coins[u] < Tip
      [] intents[i].kind = "request" -> friendship.status # "NONE"
      [] intents[i].kind = "accept" -> ~(same /\ friendship.status = "PENDING" /\ friendship.from # u)
      [] intents[i].kind = "remove" -> ~same
      [] OTHER -> u \notin admins

\* purchaseItem and depositToVault, tipFriend, equipItem, executeFriendshipAction, executeAdminAction
Apply(i) ==
    LET u == intents[i].user
        kind == intents[i].kind IN
    /\ coins' = [v \in Account |->
           CASE v = u /\ kind = "purchase" -> coins[v] - Price
             [] v = u /\ kind = "tip" -> coins[v] - Tip
             [] v = Other(u) /\ kind = "tip" -> coins[v] + Tip
             [] v = Other(u) /\ kind = "give-coins" -> coins[v] + Grant
             [] OTHER -> coins[v]]
    /\ vault' = IF kind = "purchase" THEN vault + VaultShare ELSE vault
    /\ owners' = IF kind = "purchase" THEN owners \cup {u} ELSE owners
    /\ wearers' = IF kind = "equip" THEN wearers \cup {u} ELSE wearers
    /\ admins' = IF kind = "revoke" THEN admins \ {u} ELSE admins
    /\ friendship' = CASE kind = "request" -> [id |-> i + 1, from |-> u, status |-> "PENDING"]
                       [] kind = "accept" -> [friendship EXCEPT !.status = "ACCEPTED"]
                       [] kind = "remove" -> NoFriendship
                       [] OTHER -> friendship
    /\ receipts' = receipts \cup {i}

\* execute: a request already done is answered from its receipt, before the rules are asked.
Execute(n) ==
    LET i == calls[n].intent
        answer == IF i \in receipts \/ ~Refused(i) THEN "receipt" ELSE "refused" IN
    /\ calls[n].answer = "none"
    /\ calls' = [calls EXCEPT ![n].answer = answer]
    /\ IF answer = "receipt" /\ i \notin receipts THEN Apply(i)
       ELSE UNCHANGED <<coins, vault, owners, wearers, admins, friendship, receipts>>
    /\ denied' = IF answer = "refused" /\ i \in receipts THEN denied \cup {i} ELSE denied
    /\ UNCHANGED <<tabVars, intents, rewards>>

\* verifyToken, assertActiveAccount: who is not let in is refused, whatever has been done before.
\* It makes no difference to a request whose answer nobody awaits.
ShutOut(n) ==
    /\ calls[n].awaits = "reply" /\ calls[n].answer = "none" /\ calls' = [calls EXCEPT ![n].answer = "refused"]
    /\ UNCHANGED <<tabVars, intents, serverVars>>

\* awardDailyBounty, checkMilestones, claimPendingPayout: a reward is paid, or owed, once.
PayReward(u) ==
    /\ rewards[u] # "paid" /\ (rewards[u] = "owed" => vault >= Reward)
    /\ rewards' = [rewards EXCEPT ![u] = IF vault >= Reward THEN "paid" ELSE "owed"]
    /\ IF vault >= Reward THEN vault' = vault - Reward /\ coins' = [coins EXCEPT ![u] = @ + Reward]
       ELSE UNCHANGED <<vault, coins>>
    /\ UNCHANGED <<tabVars, intents, calls, owners, wearers, friendship, admins, receipts, denied>>

AccountNext ==
    \/ \E j \in DOMAIN Journals : Retry(j) \/ \E kind \in Journals[j] : Start(kind)
    \/ \E n \in DOMAIN calls : GiveUp(n) \/ TakeReply(n) \/ Confirm(n) \/ Execute(n) \/ ShutOut(n)
    \/ \E u \in Account \cup {Nobody}, reload \in BOOLEAN : Identify(u, reload)
    \/ \E u \in Account : PayReward(u)

AccountSpec == AccountInit /\ [][AccountNext]_accountVars

------------------------------------------------------------------------------
(* Properties *)

\* An action nobody has answered for good is still kept for the account that asked for it.
UndecidedIsKept ==
    \A i \in DOMAIN intents :
        \/ saved[intents[i].user][JournalOf(intents[i].kind)] = i
        \/ \E n \in DOMAIN calls : calls[n].intent = i /\ calls[n].awaits = "nothing"

Done(kind, u) == {i \in receipts : intents[i].kind = kind /\ intents[i].user = u}
Times(kind, u) == Cardinality(Done(kind, u))
Paid(u) == IF rewards[u] = "paid" THEN Reward ELSE 0

\* The balances are what the receipts and the rewards explain, each of them once.
BalancesAddUp ==
    /\ \A u \in Account :
           coins[u] + Price * Times("purchase", u) + Tip * Times("tip", u)
               = InitialCoins + Tip * Times("tip", Other(u)) + Grant * Times("give-coins", Other(u)) + Paid(u)
    /\ vault + Reward * Cardinality({u \in Account : rewards[u] = "paid"})
           = VaultShare * Cardinality(UNION {Done("purchase", u) : u \in Account})
    /\ owners = {u \in Account : Done("purchase", u) # {}}

\* However replies are lost or late and the tab changes accounts, an action is forgotten only when
\* it has been answered, takes effect once, and the rules do not refuse it once done; a token that
\* has run out, or an account that has retired, is refused all the same.  (ActionJournal.retry)
ActionsHappenOnce == UndecidedIsKept /\ BalancesAddUp /\ denied = {}
==============================================================================
