--------------------------- MODULE DiscordModeration ---------------------------
(***************************************************************************)
(* A message in a moderated channel carries a token for the model; a tool  *)
(* call with the token acts on the author of that message.  The call waits *)
(* fifteen seconds on its thread for a coroutine of the gateway's loop,    *)
(* which may be cancelled at any await; Discord acts between two awaits.   *)
(***************************************************************************)
EXTENDS Naturals, Sequences, FiniteSets

CONSTANTS
    Tokens,       \* tokens, each bound to one message and its author
    Calls,        \* tool calls
    MaxContexts   \* ModerationContextStore's max_contexts

VARIABLES
    contexts,  \* tokens that are valid, oldest first
    issued,    \* tokens issued so far
    enabled,   \* moderation is enabled in the channel
    call,      \* the tool calls: what each asks, its step and its outcome
    effects,   \* effects[t]: what Discord did to the author of t's message, in number
    audit      \* audit[c]: outcomes recorded for call c, in order

vars == <<contexts, issued, enabled, call, effects, audit>>

Actions == {"inspect", "act"}
Outcomes == {"waiting", "succeeded", "refused", "error", "timed out"}
Steps == {"idle", "check", "fetch", "member", "protected", "act", "acted", "acknowledge", "done"}

TypeOK ==
    /\ issued \subseteq Tokens /\ enabled \in BOOLEAN
    /\ contexts \in Seq(issued) /\ Len(contexts) <= MaxContexts
    /\ call \in [Calls -> [step : Steps, token : Tokens, action : Actions, outcome : Outcomes]]
    /\ effects \in [Tokens -> Nat]
    /\ audit \in [Calls -> Seq({"attempted", "succeeded", "failed", "refused"})]

Init ==
    /\ contexts = <<>> /\ issued = {} /\ enabled \in BOOLEAN
    /\ call = [c \in Calls |-> [step |-> "idle", token |-> CHOOSE t \in Tokens : TRUE,
                               action |-> "inspect", outcome |-> "waiting"]]
    /\ effects = [t \in Tokens |-> 0] /\ audit = [c \in Calls |-> <<>>]

Valid == {contexts[i] : i \in DOMAIN contexts}
Place(t) == CHOOSE i \in DOMAIN contexts : contexts[i] = t
Without(t) ==
    IF t \notin Valid THEN contexts
    ELSE SubSeq(contexts, 1, Place(t) - 1) \o SubSeq(contexts, Place(t) + 1, Len(contexts))

-----------------------------------------------------------------------------
(* The context store.                                                      *)

\* issue: a message of a moderated channel is submitted; the oldest context gives way.
Issue(t) ==
    /\ enabled /\ t \notin issued /\ issued' = issued \cup {t}
    /\ contexts' = LET all == Append(contexts, t)
                   IN  IF Len(all) > MaxContexts THEN Tail(all) ELSE all
    /\ UNCHANGED <<enabled, call, effects, audit>>

\* 120 s pass: contexts expire in the order of their issue.
Expire == contexts # <<>> /\ contexts' = Tail(contexts) /\ UNCHANGED <<issued, enabled, call, effects, audit>>

Toggle == enabled' = ~enabled /\ UNCHANGED <<contexts, issued, call, effects, audit>>

-----------------------------------------------------------------------------
(* The tool's thread.                                                      *)

\* Mutant: acting leaves the token valid.
BeginResolving(c, t, a) ==
    /\ call[c].step = "idle"
    /\ UNCHANGED contexts
    /\ call' = [call EXCEPT ![c] = [step |-> IF t \in Valid THEN "check" ELSE "done", token |-> t, action |-> a,
                                    outcome |-> IF t \in Valid THEN "waiting" ELSE "error"]]
    /\ UNCHANGED <<issued, enabled, effects, audit>>

\* A tool resolves the token, or consumes it to act; then a bad reason, or a gateway that
\* is not there, is an error, and the token is spent.
Begin(c, t, a) ==
    /\ call[c].step = "idle"
    /\ contexts' = IF a = "act" THEN Without(t) ELSE contexts
    /\ \E started \in (IF t \in Valid THEN BOOLEAN ELSE {FALSE}) :
        call' = [call EXCEPT ![c] = [step |-> IF started THEN "check" ELSE "done", token |-> t, action |-> a,
                                     outcome |-> IF started THEN "waiting" ELSE "error"]]
    /\ UNCHANGED <<issued, enabled, effects, audit>>

\* future.result gives up; the coroutine runs on until the cancellation reaches it.
Timeout(c) ==
    /\ call[c].step # "idle" /\ call[c].outcome = "waiting"
    /\ call' = [call EXCEPT ![c].outcome = "timed out"]
    /\ UNCHANGED <<contexts, issued, enabled, effects, audit>>

-----------------------------------------------------------------------------
(* The coroutine.                                                          *)

Moves(c, step) == call' = [call EXCEPT ![c].step = step]

\* It ends; the thread learns how unless it has given up.
Ends(c, outcome) ==
    call' = [call EXCEPT ![c].step = "done",
                         ![c].outcome = IF @ = "waiting" THEN outcome ELSE @]

\* _audit, then the end; a record that cannot be written is an error instead.
EndsRecording(c, outcome, reported) ==
    \/ audit' = [audit EXCEPT ![c] = Append(@, outcome)] /\ Ends(c, reported)
    \/ audit' = audit /\ Ends(c, "error")

Refuse(c) == EndsRecording(c, "refused", "refused")
\* Mutant: an action Discord refused is reported as done.
FailSilently(c) == EndsRecording(c, "failed", "succeeded")

Fail(c) == EndsRecording(c, "failed", "error")

At(c, step) == call[c].step = step /\ UNCHANGED <<contexts, issued, enabled>>

\* The policy is read once; the guild or the channel may not be there.
Check(c) ==
    /\ At(c, "check") /\ UNCHANGED effects
    /\ \/ enabled /\ Moves(c, "fetch") /\ UNCHANGED audit
       \/ Refuse(c)

\* await fetch_message; the message must be the scoped one; await fetch_member if unknown.
Fetch(c) ==
    /\ At(c, "fetch") /\ UNCHANGED effects
    /\ \/ Moves(c, "member") /\ UNCHANGED audit
       \/ Moves(c, "protected") /\ UNCHANGED audit
       \/ Refuse(c)
       \/ Fail(c)

Member(c) ==
    /\ At(c, "member") /\ UNCHANGED effects
    /\ \/ Moves(c, "protected") /\ UNCHANGED audit
       \/ Fail(c)

\* A protected member is refused, an inspection is over; an attempt is recorded first.
Protect(c) ==
    /\ At(c, "protected") /\ UNCHANGED effects
    /\ \/ Refuse(c)
       \/ call[c].action = "inspect" /\ EndsRecording(c, "succeeded", "succeeded")
       \/ /\ call[c].action = "act"
          /\ \/ audit' = [audit EXCEPT ![c] = Append(@, "attempted")] /\ Moves(c, "act")
             \/ audit' = audit /\ Ends(c, "error")

\* Discord deletes, warns, times out, kicks or bans; or refuses.
Effect(c) ==
    /\ At(c, "act")
    /\ \/ /\ effects' = [effects EXCEPT ![call[c].token] = @ + 1]
          /\ Moves(c, "acted") /\ UNCHANGED audit
       \/ UNCHANGED effects /\ Fail(c)

\* Discord's answer came; or it was lost on the way, which reads as a failure.
Acted(c) ==
    /\ At(c, "acted") /\ UNCHANGED effects
    /\ \/ /\ audit' = [audit EXCEPT ![c] = Append(@, "succeeded")]
          /\ \/ Moves(c, "acknowledge")
             \/ Ends(c, "succeeded")
       \/ audit' = audit /\ Ends(c, "error")
       \/ Fail(c)

\* The acknowledgement is sent, or not: then the call fails after it succeeded.
Acknowledge(c) ==
    /\ At(c, "acknowledge") /\ UNCHANGED <<effects, audit>>
    /\ \E outcome \in {"succeeded", "error"} : Ends(c, outcome)

\* The cancellation of a call given up arrives at an await; nothing is recorded.
Cancel(c) ==
    /\ call[c].step \in {"check", "fetch", "member", "act", "acted", "acknowledge"}
    /\ call[c].outcome = "timed out"
    /\ Moves(c, "done") /\ UNCHANGED <<contexts, issued, enabled, effects, audit>>

Coroutine(c) ==
    Check(c) \/ Fetch(c) \/ Member(c) \/ Protect(c) \/ Effect(c) \/ Acted(c) \/ Acknowledge(c) \/ Cancel(c)

Next ==
    \/ \E t \in Tokens : Issue(t)
    \/ Expire \/ Toggle
    \/ \E c \in Calls : \/ \E t \in Tokens, a \in Actions : Begin(c, t, a)
                        \/ Timeout(c) \/ Coroutine(c)

Spec == Init /\ [][Next]_vars

-----------------------------------------------------------------------------
(* Properties.                                                             *)

\* One token acts once at most, whoever presents it, whenever, and however a call ends.
OneEffectPerToken == \A t \in Tokens : effects[t] <= 1

Recorded(c, outcome) == \E i \in DOMAIN audit[c] : audit[c][i] = outcome

\* What was done to a member was recorded as attempted, by a call that consumed its token;
\* what the model is told succeeded was done, and was recorded as a success.
EffectsAudited ==
    /\ \A t \in Tokens : effects[t] > 0 =>
            \E c \in Calls : call[c].token = t /\ call[c].action = "act" /\ Recorded(c, "attempted")
    /\ \A c \in Calls : call[c].outcome = "succeeded" =>
            /\ Recorded(c, "succeeded")
            /\ call[c].action = "act" => effects[call[c].token] = 1
=============================================================================
