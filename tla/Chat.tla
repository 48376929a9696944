---------------------------------- MODULE Chat ----------------------------------
(***************************************************************************)
(* The global chat as one browser sees it: the table of messages, into     *)
(* which others write too, the calls the server works on, the events on   *)
(* their way over the socket, and the client, which sends a text again     *)
(* under the same identifier until it knows what became of it, and keeps   *)
(* a window of the newest messages that it merges from pages and events.   *)
(***************************************************************************)
EXTENDS Integers, Sequences, FiniteSets, FiniteSetsExt

CONSTANTS
    PageSize,       \* CHAT_PAGE_SIZE
    Overlapping,    \* whether others' messages are written at the same time
    Budgets         \* bound: messages, texts of this account, requests of the browser, and
                    \* breaks: connections and answers lost, and changes of what is visible

ASSUME ChatAssumption ==
    /\ PageSize \in Nat \ {0} /\ Overlapping \in BOOLEAN
    /\ Budgets \subseteq [messages: Nat, texts: Nat, requests: Nat, breaks: Nat]

VARIABLES
    messages,   \* ChatMessage in this channel, by id
    open,       \* the ids whose transactions are not committed
    silent,     \* the messages that no socket was told of
    chatRequests,   \* requests the server works on
    link,       \* the socket: connected, and the events on their way, in order
    chat,       \* ChatClient
    made,       \* counters: requests, texts, and the breaks
    budget      \* their limits in this behaviour

chatVars == <<messages, open, silent, chatRequests, link, chat, made, budget>>

Nothing == [call |-> 0, older |-> FALSE, newest |-> 0]

FreshChat ==
    [shown |-> {}, online |-> FALSE, loaded |-> FALSE, load |-> Nothing, failed |-> FALSE, more |-> FALSE,
     draft |-> 0, pending |-> 0, call |-> 0, delivery |-> "idle", unread |-> 0, visible |-> FALSE, seen |-> 0, since |-> 0]

ChatInit ==
    /\ messages = << >> /\ open = {} /\ silent = {} /\ chatRequests = {}
    /\ link = [up |-> FALSE, events |-> << >>] /\ chat = FreshChat /\ made = [requests |-> 0, texts |-> 0, breaks |-> 0]
    /\ budget \in Budgets

Kept == DOMAIN messages \ open
Own(i) == messages[i].from = "me"
Newest(S) == IF S = {} THEN 0 ELSE Max(S)

------------------------------------------------------------------------------
(* The server: createChatService and setupChatHandler *)

ChatEvent(is, call, result, shown, more) == [is |-> is, call |-> call, result |-> result, messages |-> shown, more |-> more]
MessageEvent(i) == ChatEvent("message", 0, "ok", {i}, FALSE)
Ack(c, result, i) == ChatEvent("ack", c.call, result, {i}, FALSE)

Emitted(events) == IF link.up THEN [link EXCEPT !.events = @ \o events] ELSE link

\* Somebody else's message gets its id, is committed, and is announced.
Write ==
    /\ Len(messages) < budget.messages /\ (Overlapping \/ open \cup silent = {})
    /\ messages' = Append(messages, [from |-> "other", key |-> 0, text |-> 0])
    /\ open' = open \cup {Len(messages) + 1}
    /\ UNCHANGED <<silent, chatRequests, link, chat, made, budget>>

CommitMessage(i) ==
    /\ i \in open
    /\ open' = open \ {i} /\ silent' = silent \cup {i}
    /\ UNCHANGED <<messages, chatRequests, link, chat, made, budget>>

Announce(i) ==
    /\ i \in silent /\ ~Own(i)
    /\ silent' = silent \ {i} /\ link' = Emitted(<<MessageEvent(i)>>)
    /\ UNCHANGED <<messages, open, chatRequests, chat, made, budget>>

\* history: the newest messages before the given one, and whether there are others.
OlderThan(b) == {i \in Kept : b = 0 \/ i < b}
Page(b) == {i \in OlderThan(b) : Cardinality({j \in OlderThan(b) : j > i}) < PageSize}

ServeHistory(c) ==
    /\ c.is = "history"
    /\ chatRequests' = chatRequests \ {c}
    /\ \/ link' = Emitted(<<ChatEvent("page", c.call, "ok", Page(c.before), Page(c.before) # OlderThan(c.before))>>)
       \/ link' = Emitted(<<ChatEvent("page", c.call, "unavailable", {}, FALSE)>>)
    /\ UNCHANGED <<messages, open, silent, chat, made, budget>>

\* The lock on the account's sends is taken in the order of the requests.
FirstSend(c) == c.is = "send" /\ c.stage = "asked" /\ \A d \in chatRequests : d.is = "send" /\ d.call < c.call => d.stage # "asked"
Earlier(c) == {i \in Kept : Own(i) /\ messages[i].key = c.key}

\* send: the message is there already; or the sender's last one is less than a
\* second old; or the database does not answer.
Repeats(c) == \E i \in Earlier(c) : link' = Emitted(<<Ack(c, "ok", i)>>)
Refuses(c) == Earlier(c) = {} /\ (\E i \in Kept : Own(i)) /\ link' = Emitted(<<Ack(c, "refused", 0)>>)
Fails(c) == link' = Emitted(<<Ack(c, "unavailable", 0)>>)

ServeSend(c) ==
    /\ FirstSend(c) /\ chatRequests' = chatRequests \ {c}
    /\ Repeats(c) \/ Refuses(c) \/ Fails(c)
    /\ UNCHANGED <<messages, open, silent, chat, made, budget>>

Insert(c) ==
    /\ FirstSend(c) /\ Earlier(c) = {} /\ Len(messages) < budget.messages
    /\ messages' = Append(messages, [from |-> "me", key |-> c.key, text |-> c.text])
    /\ silent' = silent \cup {Len(messages) + 1}
    /\ chatRequests' = (chatRequests \ {c}) \cup {[c EXCEPT !.stage = "created", !.row = Len(messages) + 1]}
    /\ UNCHANGED <<open, link, chat, made, budget>>

\* The room is told, then the sender; unless the commit was not confirmed.
AnswerCreated(c) ==
    /\ c.is = "send" /\ c.stage = "created"
    /\ chatRequests' = chatRequests \ {c}
    /\ \/ silent' = silent \ {c.row} /\ link' = Emitted(<<MessageEvent(c.row), Ack(c, "ok", c.row)>>)
       \/ UNCHANGED silent /\ Fails(c)
    /\ UNCHANGED <<messages, open, chat, made, budget>>

------------------------------------------------------------------------------
(* ChatClient *)

\* markRead
Read(c) == IF c.visible THEN [c EXCEPT !.seen = Newest(c.shown \cup {@}), !.unread = 0] ELSE c

Unseen(c) == {i \in c.shown : i > c.seen /\ ~Own(i)}
Counted(c) == IF ~c.visible /\ c.seen > 0 THEN [c EXCEPT !.unread = Cardinality(Unseen(c))] ELSE c

Delivered(c) == [c EXCEPT !.pending = 0, !.call = 0, !.delivery = "idle", !.draft = 0]
Recognized(c) == IF c.pending # 0 /\ \E i \in c.shown : Own(i) /\ messages[i].key = c.pending THEN Delivered(c) ELSE c

\* merge
Merge(c, new) == Recognized(Counted(Read([c EXCEPT !.shown = @ \cup new])))

\* receive
Received(c, i) ==
    LET m == Merge(c, {i}) IN
    IF i \notin c.shown /\ ~c.visible /\ c.seen = 0 /\ ~Own(i) THEN [m EXCEPT !.unread = @ + 1] ELSE m

\* Mutant: what was said while the page was read is forgotten.
PageOnly(c, e) == Merge([c EXCEPT !.shown = {i \in @ : i < Newest(e.messages)}], e.messages)

\* load, from its response on: beyond a gap the window begins anew.
Oldest(e) == Min(e.messages)
Gap(c, e) == ~c.load.older /\ e.more /\ c.load.newest # 0 /\ Oldest(e) > c.load.newest
Windowed(c, e) == Merge(IF Gap(c, e) THEN [c EXCEPT !.shown = {i \in @ : i >= Oldest(e)}] ELSE c, e.messages)
Extends(c, e) == c.load.older \/ ~c.loaded \/ Gap(c, e) \/ c.shown = {}
PageLoaded(c, e) ==
    [Windowed(c, e) EXCEPT !.loaded = TRUE, !.load = Nothing, !.failed = FALSE, !.more = IF Extends(c, e) THEN e.more ELSE @,
                           !.since = IF c.load.older THEN @ ELSE IF e.more THEN Oldest(e) ELSE 1]

Unloaded(c) == [c EXCEPT !.load = Nothing, !.failed = TRUE]
Doubtful(c) == [c EXCEPT !.call = 0, !.delivery = IF c.pending # 0 THEN "uncertain" ELSE @]
Cancelled(c) == [Doubtful(c) EXCEPT !.load = Nothing]

Breaks == made.breaks < budget.breaks /\ made' = [made EXCEPT !.breaks = @ + 1]

ChatRequest(c) == made.requests < budget.requests /\ made' = [made EXCEPT !.requests = @ + 1] /\ chatRequests' = chatRequests \cup {c}
AskHistory(c, older) ==
    /\ ChatRequest([is |-> "history", stage |-> "asked", call |-> made.requests + 1, before |-> IF older THEN Min(c.shown) ELSE 0,
                key |-> 0, text |-> 0, row |-> 0])
    /\ chat' = [c EXCEPT !.failed = FALSE, !.load = [call |-> made.requests + 1, older |-> older, newest |-> Newest(c.shown)]]

\* recoverChat, whenever the session is ready again or elsewhere
Recover ==
    /\ link.up
    /\ AskHistory([Cancelled(chat) EXCEPT !.online = TRUE], FALSE)
    /\ UNCHANGED <<messages, open, silent, link, budget>>

LoadOlder ==
    /\ link.up /\ chat.load = Nothing /\ chat.more /\ chat.shown # {}
    /\ AskHistory(chat, TRUE)
    /\ UNCHANGED <<messages, open, silent, link, budget>>

RetryHistory ==
    /\ link.up /\ chat.load = Nothing /\ chat.failed
    /\ AskHistory(chat, FALSE)
    /\ UNCHANGED <<messages, open, silent, link, budget>>

\* setDraft, until there is something to send
Compose ==
    /\ chat.draft = 0 /\ made.texts < budget.texts
    /\ made' = [made EXCEPT !.texts = @ + 1] /\ chat' = [chat EXCEPT !.draft = made.texts + 1]
    /\ UNCHANGED <<messages, open, silent, chatRequests, link, budget>>

Key(c) == IF c.pending = 0 THEN made.requests + 1 ELSE c.pending
SendText ==
    /\ chat.online /\ chat.draft # 0 /\ chat.delivery # "sending"
    /\ ChatRequest([is |-> "send", stage |-> "asked", call |-> made.requests + 1, before |-> 0,
                key |-> Key(chat), text |-> chat.draft, row |-> 0])
    /\ chat' = [chat EXCEPT !.pending = Key(chat), !.call = made.requests + 1, !.delivery = "sending"]
    /\ UNCHANGED <<messages, open, silent, link, budget>>

\* No answer within eight seconds; a later one is not listened to.
ChatTimeOut ==
    /\ \/ chat.load # Nothing /\ chat' = Unloaded(chat)
       \/ chat.call # 0 /\ chat' = Doubtful(chat)
    /\ Breaks
    /\ UNCHANGED <<messages, open, silent, chatRequests, link, budget>>

AnswerTaken(c, e) ==
    IF c.call # e.call THEN c
    ELSE CASE e.result = "ok" -> Merge(c, e.messages)
           [] e.result = "refused" -> [c EXCEPT !.pending = 0, !.call = 0, !.delivery = "idle"]
           [] OTHER -> Doubtful(c)

Handled(c, e) ==
    CASE e.is = "message" -> Received(c, CHOOSE i \in e.messages : TRUE)
      [] e.is = "ack" -> AnswerTaken(c, e)
      [] OTHER -> IF c.load.call # e.call THEN c ELSE IF e.result = "ok" THEN PageLoaded(c, e) ELSE Unloaded(c)

Hear ==
    /\ link.events # << >>
    /\ chat' = Handled(chat, Head(link.events)) /\ link' = [link EXCEPT !.events = Tail(@)]
    /\ UNCHANGED <<messages, open, silent, chatRequests, made, budget>>

\* setVisible
ShowChat ==
    /\ Breaks
    /\ chat' = Read([chat EXCEPT !.visible = ~@])
    /\ UNCHANGED <<messages, open, silent, chatRequests, link, budget>>

\* The server lets every connection listen at once and refuses what was asked on others.
OpenLink ==
    /\ ~link.up /\ link' = [up |-> TRUE, events |-> << >>]
    /\ chatRequests' = {c \in chatRequests : c.is = "send" /\ c.stage = "created"}
    /\ UNCHANGED <<messages, open, silent, chat, made, budget>>

LoseLink ==
    /\ link.up /\ Breaks /\ link' = [up |-> FALSE, events |-> << >>]
    /\ chat' = [Cancelled(chat) EXCEPT !.online = FALSE, !.since = 0]
    /\ UNCHANGED <<messages, open, silent, chatRequests, budget>>

ChatNext ==
    \/ Write \/ \E i \in DOMAIN messages : CommitMessage(i) \/ Announce(i)
    \/ \E c \in chatRequests : ServeHistory(c) \/ ServeSend(c) \/ Insert(c) \/ AnswerCreated(c)
    \/ Recover \/ LoadOlder \/ RetryHistory \/ Compose \/ SendText \/ ChatTimeOut \/ Hear \/ ShowChat \/ OpenLink \/ LoseLink

ChatSpec == ChatInit /\ [][ChatNext]_chatVars

------------------------------------------------------------------------------
(* Properties *)

Copies(t) == {i \in Kept : Own(i) /\ messages[i].text = t}
OnItsWay(i) == \E k \in DOMAIN link.events : link.events[k].is = "message" /\ i \in link.events[k].messages
Told(i) == i \in Kept \ silent /\ ~OnItsWay(i)

\* A text leaves the input when it is in the table, and never gets into it twice:
\* whichever of its attempts were lost, late or cut off, and however the messages of
\* others and the reading of pages came between.
SentOnce ==
    \A t \in 1..made.texts : Cardinality(Copies(t)) = 1 \/ (t = chat.draft /\ Copies(t) = {})

\* Since the window was read on this connection, everything the others were told of is
\* in it; nobody's message is lost between a page and the events.
WindowIsCurrent == link.up /\ chat.since # 0 => \A i \in Kept : i >= chat.since /\ Told(i) => i \in chat.shown

\* What is counted as unread is what is shown and was not seen before the chat was hidden.
UnreadIsCounted == ~chat.visible /\ chat.seen > 0 => chat.unread = Cardinality(Unseen(chat))

ChatIsSound == SentOnce /\ WindowIsCurrent /\ UnreadIsCounted

\* What is missing is older than all that is shown: no hole is left inside the window
\* once its pages are read.
NothingIsHidden ==
    link.up /\ chat.since # 0 /\ chat.load = Nothing =>
        \A i \in Kept : Told(i) => i \in chat.shown \/ \A j \in chat.shown : i < j
==============================================================================
