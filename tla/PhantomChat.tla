------------------------------ MODULE PhantomChat ------------------------------
(***************************************************************************)
(* What the phantom players say.  All of them share one brain, and each    *)
(* hears every message of the global channel on its own connection, so the *)
(* brain is told of a message as often as there are phantoms online.  What *)
(* it answers is decided at once, written later by a language model or     *)
(* taken from a list, and said later still if the phantom is still there.  *)
(* People, the server and the language model are the environment.          *)
(***************************************************************************)
EXTENDS Naturals, Sequences, FiniteSets

CONSTANTS
    Talker,         \* the phantoms
    Evenings        \* bound: who is online when it begins, how many messages there are, whom people
                    \* mention, how many changes of the phantoms, remarks of theirs, and resets

ASSUME PhantomChatAssumption ==
    /\ {"human", "system"} \cap Talker = {}
    /\ Evenings \subseteq [here: SUBSET Talker, messages: Nat, called: SUBSET SUBSET Talker, changes: Nat, remarks: Nat,
                          resets: Nat]

VARIABLES
    talker,     \* whether each is here, what it does, how long ago it spoke, and in its game
    said,       \* the messages of the channel
    ears,       \* those still on their way to each phantom
    answered,   \* the messages that a lock says somebody reacts to
    banter,     \* exchanges of each pair since the last reset
    window,     \* resets of banter
    drafts,     \* what is going to be said
    quiet,      \* nobody has started to talk for three minutes
    evening     \* what is left of the bounds

phantomChatVars == <<talker, said, ears, answered, banter, window, drafts, quiet, evening>>

\* How long ago a phantom spoke: 5, 30 and 60 seconds.
Rest == [mention |-> 1, answer |-> 2, ambient |-> 3]
Pair(p, q) == {p, q}
Pairs == {Pair(p, q) : p, q \in Talker}

------------------------------------------------------------------------------
(* Texts *)

\* What the language model answers, if anything, by whom it mentions: validateMessage turns a
\* mention down, and generateChat then takes a template, which mentions nobody.
NoText == {"none"}
Raw == SUBSET Talker \cup {NoText}
Template == {}
Valid(raw) == IF raw # {} THEN NoText ELSE raw
Generated(raw) == IF Valid(raw) = NoText THEN Template ELSE Valid(raw)

------------------------------------------------------------------------------
(* The channel *)

EveningInit ==
    /\ evening \in Evenings
    /\ talker = [p \in Talker |-> [here |-> p \in evening.here, phase |-> IF p \in evening.here THEN "idle" ELSE "offline",
                                  rest |-> 3, hushed |-> FALSE]]
    /\ said = << >> /\ ears = [p \in Talker |-> << >>] /\ answered = {} /\ drafts = {}
    /\ banter = [b \in Pairs |-> 0] /\ window = 0 /\ quiet = TRUE

Uses(what) == evening[what] > 0 /\ evening' = [evening EXCEPT ![what] = @ - 1]

\* A message in the channel is heard by every phantom that is online, on its own connection.
Uttered(m) ==
    /\ Uses("messages") /\ said' = Append(said, m)
    /\ ears' = [p \in Talker |-> IF talker[p].here THEN Append(ears[p], Len(said) + 1) ELSE ears[p]]
Message(from, mentions, re, kind, in) == [from |-> from, mentions |-> mentions, re |-> re, kind |-> kind, window |-> in]

OthersSpeak ==
    /\ \E m \in {Message("human", ps, 0, "own", 0) : ps \in evening.called} \cup {Message("system", {}, 0, "own", 0)} : Uttered(m)
    /\ UNCHANGED <<talker, answered, banter, window, drafts, quiet>>

\* A phantom comes online, and will say hello; it goes offline; its phase changes; time passes.
Draft(p, re, by, kind, stage) == [of |-> p, re |-> re, by |-> by, kind |-> kind, stage |-> stage, window |-> window]
Starts(p, kind, stage) == drafts' = drafts \cup {Draft(p, 0, p, kind, stage)}

Comes(p) ==
    /\ Uses("changes") /\ ~talker[p].here /\ talker' = [talker EXCEPT ![p].here = TRUE, ![p].phase = "idle"] /\ Starts(p, "hello", "armed")
    /\ UNCHANGED <<said, ears, answered, banter, window, quiet>>
Goes(p) ==
    /\ Uses("changes") /\ talker[p].here /\ talker' = [talker EXCEPT ![p].here = FALSE, ![p].phase = "offline"]
    /\ ears' = [ears EXCEPT ![p] = << >>]
    /\ UNCHANGED <<said, answered, banter, window, drafts, quiet>>
Turns(p, phase) ==
    /\ Uses("changes") /\ talker[p].here /\ talker' = [talker EXCEPT ![p].phase = phase]
    /\ UNCHANGED <<said, ears, answered, banter, window, drafts, quiet>>
Rests(p) ==
    /\ Uses("changes")
    /\ \/ \E t \in 1..3 : t > talker[p].rest /\ talker' = [talker EXCEPT ![p].rest = t]
       \/ talker[p].hushed /\ talker' = [talker EXCEPT ![p].hushed = FALSE]
    /\ UNCHANGED <<said, ears, answered, banter, window, drafts, quiet>>
Hush ==
    /\ ~quiet /\ quiet' = TRUE
    /\ UNCHANGED <<talker, said, ears, answered, banter, window, drafts, evening>>

------------------------------------------------------------------------------
(* What the brain makes of a message *)

\* _reactToMention: all that are mentioned answer, except to themselves.  Nothing keeps them
\* from being asked again by the next copy of the message.
MentionReplies(p, n) ==
    {Draft(q, n, p, "mention", "armed") :
        q \in {q \in said[n].mentions : talker[q].here /\ talker[q].rest >= Rest.mention}}

\* _reactToChat: the first to hear it locks the message, and one that is idle answers.
Chatty == {q \in Talker : talker[q].here /\ talker[q].phase = "idle" /\ talker[q].rest >= Rest.answer}
\* Mutant: the lock is looked at and not taken.
Looked(ids, n) == ids
Locked(ids, n) == ids \cup {n}
ReactToChat(p, n) ==
    /\ n \notin answered /\ answered' = Locked(answered, n)
    /\ \/ UNCHANGED drafts
       \/ \E q \in Chatty : drafts' = drafts \cup {Draft(q, n, p, "answer", "armed")}
    /\ UNCHANGED banter

\* _reactToPhantomChat: another one chimes in, twice for each pair.
ReactToPhantomChat(p, n) ==
    \E q \in {q \in Talker \ {said[n].from} : talker[q].here /\ talker[q].rest >= Rest.answer} :
        LET b == Pair(said[n].from, q) IN
        /\ banter[b] < 2 /\ banter' = [banter EXCEPT ![b] = @ + 1]
        /\ drafts' = drafts \cup {Draft(q, n, p, "banter", "armed")} /\ UNCHANGED answered

\* _onChatMessage; a phantom mentions nobody, so mentions are people's.
Listen(p) ==
    LET n == Head(ears[p])
        m == said[n]
    IN
    /\ ears[p] # << >> /\ ears' = [ears EXCEPT ![p] = Tail(@)]
    /\ \/ m.from # "system" /\ m.mentions # {} /\ drafts' = drafts \cup MentionReplies(p, n) /\ UNCHANGED <<answered, banter>>
       \/ m.from = "human" /\ m.mentions = {} /\ ReactToChat(p, n)
       \/ m.from \in Talker /\ ReactToPhantomChat(p, n)
       \/ m.mentions = {} /\ UNCHANGED <<answered, banter, drafts>>
    /\ UNCHANGED <<talker, said, window, quiet, evening>>

\* The count of banter starts again every five minutes.
ResetBanter ==
    /\ Uses("resets") /\ window' = window + 1 /\ banter' = [b \in Pairs |-> 0]
    /\ UNCHANGED <<talker, said, ears, answered, drafts, quiet>>

------------------------------------------------------------------------------
(* What it says of itself *)

\* _postGameChat, of a phantom whose game is over; _ambientCheck, when it is quiet;
\* _phantomLeaving; _maybeGameChat, which is for the two in a game alone.
PostGameChat(p) == Starts(p, "game over", "armed")
Ambient(p) == talker[p].phase = "idle" /\ quiet /\ talker[p].rest >= Rest.ambient /\ Starts(p, "ambient", "writing")
Farewell(p) == Starts(p, "goodbye", "writing")
GameRemark(p) == talker[p].phase = "playing" /\ ~talker[p].hushed /\ Starts(p, "in game", "writing")

Remark(p) ==
    /\ Uses("remarks") /\ talker[p].here
    /\ PostGameChat(p) \/ Ambient(p) \/ Farewell(p) \/ GameRemark(p)
    /\ UNCHANGED <<talker, said, ears, answered, banter, window, quiet>>

\* The delay is over; whether it is still to be said is looked at before it is written.
StillTo(d) == IF d.kind = "answer" THEN talker[d.of].phase \in {"idle", "waiting"} ELSE talker[d.of].here
WriteUp(d) ==
    /\ d.stage = "armed" /\ evening.messages > 0
    /\ drafts' = (drafts \ {d}) \cup (IF StillTo(d) THEN {[d EXCEPT !.stage = "writing"]} ELSE {})
    /\ UNCHANGED <<talker, said, ears, answered, banter, window, quiet, evening>>

\* sendChat, once the text is there: who is offline says nothing, though the brain takes note.
\* (An in-game remark without a socket ends the process: then nothing more is said.)
Say(d, raw) ==
    /\ d.stage = "writing" /\ drafts' = drafts \ {d}
    /\ quiet' = (quiet /\ d.kind \notin {"ambient", "game over", "hello"})
    /\ \/ /\ talker[d.of].here /\ d.kind # "in game"
          /\ Uttered(Message(d.of, Generated(raw), d.re, d.kind, d.window))
          /\ talker' = [talker EXCEPT ![d.of].rest = 0]
       \/ /\ talker[d.of].here /\ d.kind = "in game" /\ talker' = [talker EXCEPT ![d.of].hushed = TRUE]
          /\ UNCHANGED <<said, ears, evening>>
       \/ ~talker[d.of].here /\ UNCHANGED <<talker, said, ears, evening>>
    /\ UNCHANGED <<answered, banter, window>>

PhantomChatNext ==
    \/ OthersSpeak \/ Hush \/ ResetBanter
    \/ \E p \in Talker : Comes(p) \/ Goes(p) \/ Rests(p) \/ Listen(p) \/ Remark(p)
    \/ \E p \in Talker, phase \in {"idle", "waiting", "playing"} : Turns(p, phase)
    \/ \E d \in drafts : WriteUp(d) \/ \E raw \in Raw : Say(d, raw)

------------------------------------------------------------------------------
(* Properties *)

\* How many of the messages said and about to be said answer n in this way, and how many the
\* two of b have exchanged.
Answers(n, kind) ==
    Cardinality({d \in drafts : d.re = n /\ d.kind = kind})
        + Cardinality({i \in DOMAIN said : said[i].re = n /\ said[i].kind = kind})
Exchanges(b, w) ==
    LET of(d, who) == d.kind = "banter" /\ d.window = w /\ Pair(who, said[d.re].from) = b
    IN Cardinality({d \in drafts : of(d, d.of)}) + Cardinality({i \in DOMAIN said : of(said[i], said[i].from)})

\* One reacts (brain.js:10): what a person says to nobody in particular is answered by one
\* phantom at most, although each hears it on its own and answers late; two of them banter at
\* most twice before the count is reset; and none of them ever mentions another, which would be
\* answered without end.
OneReacts ==
    /\ \A n \in DOMAIN said : Answers(n, "answer") <= 1
    /\ \A b \in Pairs, w \in 0..window : Exchanges(b, w) <= 2
    /\ \A i \in DOMAIN said : said[i].from \in Talker => said[i].mentions = {}
==============================================================================
