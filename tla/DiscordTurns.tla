----------------------------- MODULE DiscordTurns -----------------------------
(***************************************************************************)
(* A Discord message becomes a turn of the runtime and its answer a reply. *)
(* Three threads meet in the response router: the runtime completes the    *)
(* receipt of the turn and registers who waits for it, the events worker   *)
(* delivers what the runtime has to say about any turn (also of turns      *)
(* other plugins began), and the gateway's loop sends the replies.  An     *)
(* answer may come before the receipt: it is kept in a bounded buffer.     *)
(***************************************************************************)
EXTENDS Naturals, SequencesExt

CONSTANTS
    Messages,         \* messages a user sends; a message names its turn
    Foreign,          \* turns of the runtime that are not of Discord
    Conversation,     \* Conversation[m]: the channel and user of a message
    MaxBuffered,      \* ResponseRouter's max_buffered
    MaxConversations, \* ConversationHistory's max_conversations
    Budget,           \* entries that fit the context budget
    MaxEvents         \* bound: events of the runtime

VARIABLES
    loop,       \* the gateway's loop: "none" until setup_hook has run
    closing,    \* a close is scheduled on the loop
    started,    \* the plugin is started and its subscription open
    turn,       \* turn[m]: how far the submission of m is
    emitted,    \* events the runtime emitted, and the messages among their turns
    events,     \* the subscription's queue
    pending,    \* turns with a callback in the router
    buffered,   \* answers that came before their registration, oldest first
    calling,    \* callbacks out of the router, and the thread that runs each
    scheduled,  \* replies waiting on the loop
    told,       \* told[m]: replies Discord got for m
    ended,      \* messages whose answer ended silently, for one of the named reasons
    history     \* conversations, the least recently used first

vars == <<loop, closing, started, turn, emitted, events, pending, buffered,
          calling, scheduled, told, ended, history>>

Turns == Messages \cup Foreign
Outcomes == {"answer", "silence", "failure"}
Answers == [turn : Turns, outcome : Outcomes]

TypeOK ==
    /\ loop \in {"none", "running", "closed"} /\ closing \in BOOLEAN /\ started \in BOOLEAN
    /\ turn \in [Messages -> {"new", "ignored", "failed", "dispatched", "accepting", "registered"}]
    /\ emitted \in [count : 0..MaxEvents, turns : SUBSET Messages]
    /\ events \in Seq(Answers) /\ pending \subseteq Messages
    /\ buffered \in Seq(Answers) /\ Len(buffered) <= MaxBuffered
    /\ calling \subseteq [turn : Messages, outcome : Outcomes, by : {"runtime", "worker"}]
    /\ scheduled \in [Messages -> Nat] /\ told \in [Messages -> Nat]
    /\ ended \subseteq Messages
    /\ Len(history) <= MaxConversations
    /\ \A i \in DOMAIN history : history[i].entries \in 1..Budget

Init ==
    /\ loop = "none" /\ closing = FALSE /\ started = TRUE
    /\ turn = [m \in Messages |-> "new"] /\ emitted = [count |-> 0, turns |-> {}]
    /\ events = <<>> /\ pending = {} /\ buffered = <<>> /\ calling = {}
    /\ scheduled = [m \in Messages |-> 0] /\ told = [m \in Messages |-> 0]
    /\ ended = {} /\ history = <<>>

-----------------------------------------------------------------------------
(* The conversation history and the router's buffer.                       *)

\* OrderedDict.pop: at most one entry has the key.
Popped(list, found) == IF found = {} THEN list ELSE RemoveAt(list, CHOOSE i \in found : TRUE)

Of(c) == {i \in DOMAIN history : history[i].conversation = c}
Entries(c) == IF Of(c) = {} THEN 0 ELSE history[CHOOSE i \in Of(c) : TRUE].entries

\* n entries are appended: the conversation becomes the most recent one,
\* the oldest entries and conversations beyond the bounds are dropped.
Remember(c, n) ==
    LET size == Entries(c) + n
        all == Append(Popped(history, Of(c)),
                      [conversation |-> c, entries |-> IF size > Budget THEN Budget ELSE size])
    IN  IF Budget = 0 THEN history
        ELSE IF Len(all) > MaxConversations THEN Tail(all) ELSE all

Held(t) == {i \in DOMAIN buffered : buffered[i].turn = t}
Without(t) == Popped(buffered, Held(t))

\* Mutant: the buffer is not bounded.
KeepAll(a) == Append(Without(a.turn), a)

\* deliver without a callback: the newest answer of the turn goes to the end.
Keep(a) == LET all == Append(Without(a.turn), a)
           IN  IF Len(all) > MaxBuffered THEN Tail(all) ELSE all

\* Messages whose answer leaves the buffer unread.
Evicted(a) == {m \in Messages : Held(m) # {} /\ m # a.turn
                                /\ \A i \in DOMAIN Keep(a) : Keep(a)[i].turn # m}

\* _schedule: a closed loop drops the reply.
Schedule(m) ==
    IF loop = "closed" THEN scheduled' = scheduled /\ ended' = ended \cup {m}
    ELSE scheduled' = [scheduled EXCEPT ![m] = @ + 1] /\ ended' = ended

-----------------------------------------------------------------------------
(* The gateway's loop.                                                     *)

\* setup_hook
Connect ==
    /\ loop = "none" /\ loop' = "running"
    /\ UNCHANGED <<closing, started, turn, emitted, events, pending, buffered, calling,
                   scheduled, told, ended, history>>

\* on_message and /zara ask: a message is passed over (a bot's, not inspected, not drawn,
\* empty), refused with a reply, or submitted; the runtime may refuse to dispatch.
OnMessage(m) ==
    /\ loop = "running" /\ turn[m] = "new"
    /\ \/ /\ turn' = [turn EXCEPT ![m] = "ignored"]
          /\ told' \in {told, [told EXCEPT ![m] = @ + 1]}
          /\ UNCHANGED <<scheduled, ended, history>>
       \/ /\ turn' = [turn EXCEPT ![m] = "dispatched"]
          /\ history' = Remember(Conversation[m], 1)
          /\ UNCHANGED <<told, scheduled, ended>>
       \/ /\ turn' = [turn EXCEPT ![m] = "failed"]
          /\ history' = Remember(Conversation[m], 2)
          /\ Schedule(m) /\ UNCHANGED told
    /\ UNCHANGED <<loop, closing, started, emitted, events, pending, buffered, calling>>

\* _send_reply, _send_channel_message or _send_interaction, which Discord may refuse.
Send(m) ==
    /\ loop = "running" /\ scheduled[m] > 0
    /\ scheduled' = [scheduled EXCEPT ![m] = @ - 1]
    /\ \/ told' = [told EXCEPT ![m] = @ + 1] /\ UNCHANGED ended
       \/ ended' = ended \cup {m} /\ UNCHANGED told
    /\ UNCHANGED <<loop, closing, started, turn, emitted, events, pending, buffered, calling, history>>

\* The scheduled close, or the end of run_gateway by an error: the loop's tasks go.
Close ==
    /\ loop = "running" /\ loop' = "closed" /\ closing' = FALSE
    /\ scheduled' = [m \in Messages |-> 0]
    /\ ended' = ended \cup {m \in Messages : scheduled[m] > 0}
    /\ UNCHANGED <<started, turn, emitted, events, pending, buffered, calling, told, history>>

-----------------------------------------------------------------------------
(* The runtime.                                                            *)

\* The receipt: a turn id, or an error that is told.
Accept(m) ==
    /\ turn[m] = "dispatched"
    /\ \/ /\ turn' = [turn EXCEPT ![m] = "accepting"]
          /\ UNCHANGED <<scheduled, ended, history>>
       \/ /\ m \notin emitted.turns /\ turn' = [turn EXCEPT ![m] = "failed"]
          /\ history' = Remember(Conversation[m], 1) /\ Schedule(m)
    /\ UNCHANGED <<loop, closing, started, emitted, events, pending, buffered, calling, told>>

\* An event of a turn that runs: ResponseText, AgentFailed, AssistantFailed, TurnCancelled.
Emit(t, o) ==
    /\ started /\ emitted.count < MaxEvents
    /\ t \in Messages => turn[t] \in {"dispatched", "accepting", "registered"}
    /\ emitted' = [count |-> emitted.count + 1, turns |-> emitted.turns \cup ({t} \cap Messages)]
    /\ events' = Append(events, [turn |-> t, outcome |-> o])
    /\ UNCHANGED <<loop, closing, started, turn, pending, buffered, calling, scheduled, told, ended, history>>

\* Mutant: register does not look for an answer that came first.
RegisterOnly(m) ==
    /\ turn[m] = "accepting" /\ turn' = [turn EXCEPT ![m] = "registered"]
    /\ pending' = pending \cup {m}
    /\ UNCHANGED <<loop, closing, started, emitted, events, buffered, calling, scheduled, told, ended, history>>

\* ResponseRouter.register, under its lock; the callback runs after.
Register(m) ==
    /\ turn[m] = "accepting" /\ turn' = [turn EXCEPT ![m] = "registered"]
    /\ IF Held(m) = {}
       THEN pending' = pending \cup {m} /\ UNCHANGED <<buffered, calling>>
       ELSE /\ buffered' = Without(m) /\ UNCHANGED pending
            /\ calling' = calling \cup {[turn |-> m, by |-> "runtime",
                                         outcome |-> buffered[CHOOSE i \in Held(m) : TRUE].outcome]}
    /\ UNCHANGED <<loop, closing, started, emitted, events, scheduled, told, ended, history>>

-----------------------------------------------------------------------------
(* The events worker.                                                      *)

\* Mutant: the callback stays registered.
DeliverKeeping ==
    /\ started /\ events # <<>> /\ ~ \E c \in calling : c.by = "worker"
    /\ events' = Tail(events)
    /\ LET a == Head(events)
       IN  IF a.turn \in pending
           THEN /\ calling' = calling \cup {[turn |-> a.turn, outcome |-> a.outcome, by |-> "worker"]}
                /\ UNCHANGED <<pending, buffered, ended>>
           ELSE /\ buffered' = Keep(a) /\ ended' = ended \cup Evicted(a)
                /\ UNCHANGED <<pending, calling>>
    /\ UNCHANGED <<loop, closing, started, turn, emitted, scheduled, told, history>>

\* consume_events, handle_event and ResponseRouter.deliver.
Deliver ==
    /\ started /\ events # <<>> /\ ~ \E c \in calling : c.by = "worker"
    /\ events' = Tail(events)
    /\ LET a == Head(events)
       IN  IF a.turn \in pending
           THEN /\ calling' = calling \cup {[turn |-> a.turn, outcome |-> a.outcome, by |-> "worker"]}
                /\ pending' = pending \ {a.turn} /\ UNCHANGED <<buffered, ended>>
           ELSE /\ buffered' = Keep(a) /\ ended' = ended \cup Evicted(a)
                /\ UNCHANGED <<pending, calling>>
    /\ UNCHANGED <<loop, closing, started, turn, emitted, scheduled, told, history>>

\* The callback deliver() of submit: the reserved silence is not told and not remembered.
Reply(c) ==
    /\ c \in calling /\ calling' = calling \ {c}
    /\ IF c.outcome = "silence"
       THEN ended' = ended \cup {c.turn} /\ UNCHANGED <<scheduled, history>>
       ELSE history' = Remember(Conversation[c.turn], 1) /\ Schedule(c.turn)
    /\ UNCHANGED <<loop, closing, started, turn, emitted, events, pending, buffered, told>>

-----------------------------------------------------------------------------
\* stop: without a loop there is nothing to close.
Stop ==
    /\ started /\ started' = FALSE /\ closing' = (loop = "running")
    /\ UNCHANGED <<loop, turn, emitted, events, pending, buffered, calling, scheduled, told, ended, history>>

Next ==
    \/ Connect \/ Close \/ Deliver \/ Stop
    \/ \E m \in Messages : OnMessage(m) \/ Send(m) \/ Accept(m) \/ Register(m)
    \/ \E t \in Turns, o \in Outcomes : Emit(t, o)
    \/ \E c \in calling : Reply(c)

\* The threads and the loop run on; the runtime owes no event, the user no message.
Fairness ==
    /\ WF_vars(Deliver) /\ WF_vars(\E m \in Messages : Register(m))
    /\ WF_vars(\E c \in calling : Reply(c)) /\ WF_vars(\E m \in Messages : Send(m))

Spec == Init /\ [][Next]_vars /\ Fairness

-----------------------------------------------------------------------------
(* Properties.                                                             *)

\* However the receipt and the events of a turn race, and whatever the runtime
\* says twice, Discord gets one reply to a message at most.
AnsweredOnce == \A m \in Messages : told[m] <= 1

\* An answer the runtime gave is told to Discord, whether it came before or after
\* the receipt, unless it was evicted, suppressed or refused, or the plugin stopped.
AnswersArrive ==
    \A m \in Messages :
        (turn[m] = "registered" /\ m \in emitted.turns)
            ~> (told[m] > 0 \/ m \in ended \/ ~started \/ loop = "closed")
=============================================================================
