----------------------------- MODULE DiscordProofs -----------------------------
(***************************************************************************)
(* The Discord plugin, for any number of messages, guilds, channels, tokens *)
(* and tool calls, any size of the context store, of the audit's files and  *)
(* of their number, and any number of installs: one reply to an answer, one *)
(* effect for a token and its record, settings a restart does not change,   *)
(* a log that keeps its newest entries, and a pair of files that is whole.  *)
(***************************************************************************)
EXTENDS MCDiscord, FiniteSetTheorems, SequenceTheorems, TLAPS

-----------------------------------------------------------------------------
(* Moderation: who may still act, and what is on record.                   *)

CallType == [step : Steps, token : Tokens, action : Actions, outcome : Outcomes]
Records == {"attempted", "succeeded", "failed", "refused"}

\* A call that may still act.
Acting == {"check", "fetch", "member", "protected", "act"}
MayAct(c) == call[c].step \in Acting /\ call[c].action = "act"

\* The store holds a token once, and only while it is unused.
Unused ==
    /\ \A i, j \in DOMAIN contexts : contexts[i] = contexts[j] => i = j
    /\ \A t \in Valid : effects[t] = 0

\* A call that may act is the only one that has its token: the store has it no more,
\* nobody else has, and nothing was done with it.
Owned ==
    /\ \A c \in Calls : MayAct(c) =>
           call[c].token \in issued /\ call[c].token \notin Valid /\ effects[call[c].token] = 0
    /\ \A c, d \in Calls : MayAct(c) /\ MayAct(d) /\ call[c].token = call[d].token => c = d

\* What was done was done once, with a token that had been issued, by a call that had
\* recorded the attempt.
Done ==
    \A t \in Tokens :
        /\ effects[t] <= 1
        /\ effects[t] > 0 => t \in issued
        /\ effects[t] > 0 => \E c \in Calls :
               /\ call[c].step # "idle" /\ call[c].token = t /\ call[c].action = "act"
               /\ Recorded(c, "attempted")

\* What a call has done and recorded at its step, and when it has succeeded.
Story(c) ==
    /\ call[c].step \in {"act", "acted", "acknowledge"} => call[c].action = "act" /\ Recorded(c, "attempted")
    /\ call[c].step \in {"acted", "acknowledge"} => effects[call[c].token] = 1
    /\ call[c].step = "acknowledge" => Recorded(c, "succeeded")
    /\ call[c].outcome = "succeeded" =>
           Recorded(c, "succeeded") /\ (call[c].action = "act" => effects[call[c].token] = 1)

ModerationInv == TypeOK /\ Unused /\ Owned /\ Done /\ \A c \in Calls : Story(c)

-----------------------------------------------------------------------------
(* The sequences.                                                          *)

\* Taking one element out of a sequence.
LEMMA TakenOut ==
    ASSUME NEW O, NEW s \in Seq(O), NEW i \in 1..Len(s)
    PROVE  /\ SubSeq(s, 1, i - 1) \o SubSeq(s, i + 1, Len(s)) \in Seq(O)
           /\ Len(SubSeq(s, 1, i - 1) \o SubSeq(s, i + 1, Len(s))) = Len(s) - 1
           /\ \A j \in 1..Len(s) - 1 :
                  (SubSeq(s, 1, i - 1) \o SubSeq(s, i + 1, Len(s)))[j] = IF j < i THEN s[j] ELSE s[j + 1]
<1> DEFINE a == SubSeq(s, 1, i - 1)
           b == SubSeq(s, i + 1, Len(s))
<1>1. Len(s) \in Nat  OBVIOUS
<1>2. a \in Seq(O) /\ Len(a) = i - 1 /\ \A j \in 1..i - 1 : a[j] = s[j]  BY <1>1
<1>3. b \in Seq(O) /\ Len(b) = Len(s) - i /\ \A j \in 1..Len(s) - i : b[j] = s[i + j]  BY <1>1
<1> HIDE DEF a, b
<1>4. /\ a \o b \in Seq(O) /\ Len(a \o b) = Len(a) + Len(b)
      /\ \A j \in 1..Len(a) + Len(b) : (a \o b)[j] = IF j <= Len(a) THEN a[j] ELSE b[j - Len(a)]
  BY <1>2, <1>3, ConcatProperties
<1>5. /\ a \o b \in Seq(O) /\ Len(a \o b) = Len(s) - 1
      /\ \A j \in 1..Len(s) - 1 : (a \o b)[j] = IF j < i THEN s[j] ELSE s[j + 1]
  BY <1>1, <1>2, <1>3, <1>4
<1> QED BY <1>5 DEF a, b

\* consume: the token is gone, and no other is new.
LEMMA WithoutIt ==
    ASSUME TypeOK, Unused, NEW t \in Tokens, contexts' = Without(t), issued' = issued
    PROVE  /\ contexts' \in Seq(issued') /\ Len(contexts') <= Len(contexts)
           /\ \A i, j \in DOMAIN contexts' : contexts'[i] = contexts'[j] => i = j
           /\ Valid' \subseteq Valid /\ t \notin Valid'
<1>1. CASE t \notin Valid
  <2>1. contexts' = contexts  BY <1>1 DEF Without
  <2> QED BY <1>1, <2>1 DEF TypeOK, Unused, Valid
<1>2. CASE t \in Valid
  <2> DEFINE p == Place(t)
  <2>1. p \in 1..Len(contexts) /\ contexts[p] = t  BY <1>2 DEF Place, Valid, TypeOK
  <2>2. contexts' = SubSeq(contexts, 1, p - 1) \o SubSeq(contexts, p + 1, Len(contexts))
    BY <1>2 DEF Without
  <2> HIDE DEF p
  <2>3. /\ contexts' \in Seq(issued) /\ Len(contexts') = Len(contexts) - 1
        /\ \A j \in 1..(Len(contexts) - 1) :
               contexts'[j] = IF j < p THEN contexts[j] ELSE contexts[j + 1]
    <3> DEFINE r == SubSeq(contexts, 1, p - 1) \o SubSeq(contexts, p + 1, Len(contexts))
    <3>1. contexts \in Seq(issued)  BY DEF TypeOK
    <3>2. /\ r \in Seq(issued) /\ Len(r) = Len(contexts) - 1
          /\ \A j \in 1..(Len(contexts) - 1) : r[j] = IF j < p THEN contexts[j] ELSE contexts[j + 1]
      BY <2>1, <3>1, TakenOut
    <3>3. contexts' = r  BY <2>2
    <3> HIDE DEF r
    <3> QED BY <3>2, <3>3
  <2>4. Len(contexts) \in Nat /\ DOMAIN contexts = 1..Len(contexts) /\ DOMAIN contexts' = 1..(Len(contexts) - 1)
    <3>1. Len(contexts) \in Nat /\ DOMAIN contexts = 1..Len(contexts)  BY LenProperties DEF TypeOK
    <3>2. DOMAIN contexts' = 1..Len(contexts')  BY <2>3, LenProperties
    <3> QED BY <2>3, <3>1, <3>2
  <2>5. ASSUME NEW j \in DOMAIN contexts'
        PROVE  \E k \in DOMAIN contexts : /\ contexts'[j] = contexts[k] /\ k # p
                                          /\ k = IF j < p THEN j ELSE j + 1
    <3>1. j \in Nat /\ j >= 1 /\ j <= Len(contexts) - 1  BY <2>4
    <3>2. contexts'[j] = IF j < p THEN contexts[j] ELSE contexts[j + 1]  BY <2>3, <3>1, <2>4
    <3>3. CASE j < p  BY <2>1, <2>4, <3>1, <3>2, <3>3
    <3>4. CASE j >= p  BY <2>1, <2>4, <3>1, <3>2, <3>4
    <3> QED BY <2>1, <3>1, <3>3, <3>4
  <2>6. \A i, j \in DOMAIN contexts' : contexts'[i] = contexts'[j] => i = j
    BY <2>4, <2>5, <2>1 DEF Unused
  <2>7. Valid' \subseteq Valid  BY <2>5 DEF Valid
  <2>8. t \notin Valid'  BY <2>1, <2>4, <2>5 DEF Valid, Unused
  <2> QED BY <2>3, <2>4, <2>6, <2>7, <2>8
<1> QED BY <1>1, <1>2

\* The oldest gives way.
LEMMA TailOf ==
    ASSUME NEW O, NEW s \in Seq(O), s # <<>>
    PROVE  /\ Tail(s) \in Seq(O) /\ Len(Tail(s)) = Len(s) - 1 /\ Len(s) \in Nat \ {0}
           /\ \A j \in 1..Len(s) - 1 : Tail(s)[j] = s[j + 1]
OBVIOUS

\* A record that is added hides none.
LEMMA Adds ==
    ASSUME TypeOK, NEW c \in Calls, NEW r \in Records, audit' = [audit EXCEPT ![c] = Append(@, r)]
    PROVE  /\ audit' \in [Calls -> Seq(Records)] /\ Recorded(c, r)'
           /\ \A o : Recorded(c, o) => Recorded(c, o)'
           /\ \A d \in Calls \ {c} : audit'[d] = audit[d]
<1>1. audit[c] \in Seq(Records)  BY DEF TypeOK, Records
<1>2. audit'[c] = Append(audit[c], r)  BY DEF TypeOK
<1>3. /\ Append(audit[c], r) \in Seq(Records) /\ Len(Append(audit[c], r)) = Len(audit[c]) + 1
      /\ Append(audit[c], r)[Len(audit[c]) + 1] = r
      /\ \A i \in 1..Len(audit[c]) : Append(audit[c], r)[i] = audit[c][i]
      /\ Len(audit[c]) \in Nat
  BY <1>1
<1>4. DOMAIN audit[c] = 1..Len(audit[c]) /\ DOMAIN audit'[c] = 1..Len(audit[c]) + 1
  BY <1>1, <1>2, <1>3
<1>5. Recorded(c, r)'  BY <1>2, <1>3, <1>4 DEF Recorded
<1>6. \A o : Recorded(c, o) => Recorded(c, o)'  BY <1>2, <1>3, <1>4 DEF Recorded
<1> QED BY <1>3, <1>5, <1>6 DEF TypeOK, Records

-----------------------------------------------------------------------------
(* The steps.                                                              *)

LEMMA Capacity == MaxContexts \in Nat /\ Tokens # {}
BY DiscordAssumption

LEMMA ModerationInit == ASSUME Init  PROVE ModerationInv
<1>1. contexts \in Seq(issued) /\ Len(contexts) = 0 /\ DOMAIN contexts = {}  BY DEF Init
<1>2. call \in [Calls -> CallType]
  BY Capacity DEF Init, CallType, Steps, Actions, Outcomes
<1>3. \A c \in Calls : call[c].step = "idle" /\ call[c].outcome = "waiting"  BY DEF Init
<1>4. effects \in [Tokens -> Nat] /\ \A t \in Tokens : effects[t] = 0  BY DEF Init
<1>5. audit \in [Calls -> Seq(Records)]  BY DEF Init, Records
<1>6. TypeOK  BY <1>1, <1>2, <1>4, <1>5, Capacity DEF Init, TypeOK, CallType, Records
<1>7. Unused  BY <1>1 DEF Unused, Valid
<1>8. Owned  BY <1>3 DEF Owned, MayAct, Acting
<1>9. Done  BY <1>4 DEF Done
<1>10. \A c \in Calls : Story(c)  BY <1>3 DEF Story
<1> QED BY <1>6, <1>7, <1>8, <1>9, <1>10 DEF ModerationInv

LEMMA IssueStep == ASSUME ModerationInv, NEW t \in Tokens, Issue(t)  PROVE ModerationInv'
<1> DEFINE all == Append(contexts, t)
<1>1. contexts \in Seq(issued) /\ contexts \in Seq(issued') /\ issued' = issued \cup {t} /\ t \notin issued
  BY SeqMonotonic DEF Issue, ModerationInv, TypeOK
<1>2. /\ all \in Seq(issued') /\ Len(all) = Len(contexts) + 1 /\ all[Len(contexts) + 1] = t
      /\ \A i \in 1..Len(contexts) : all[i] = contexts[i]
      /\ Len(contexts) \in Nat /\ DOMAIN contexts = 1..Len(contexts) /\ DOMAIN all = 1..Len(contexts) + 1
  BY <1>1
<1>3. \A i \in 1..Len(contexts) : contexts[i] \in issued  BY <1>1
<1>4. \A i, j \in DOMAIN all : all[i] = all[j] => i = j
  BY <1>1, <1>2, <1>3 DEF ModerationInv, Unused
<1> HIDE DEF all
<1>5. /\ contexts' \in Seq(issued') /\ Len(contexts') <= MaxContexts
      /\ \A i, j \in DOMAIN contexts' : contexts'[i] = contexts'[j] => i = j
      /\ \A i \in DOMAIN contexts' : \E j \in DOMAIN all : contexts'[i] = all[j]
  <2>1. CASE Len(all) > MaxContexts
    <3>0. contexts' = Tail(all)  BY <2>1 DEF Issue, all
    <3>1. contexts' = Tail(all) /\ all # <<>>  BY <1>2, <3>0
    <3>2. /\ Tail(all) \in Seq(issued') /\ Len(Tail(all)) = Len(contexts)
          /\ \A j \in 1..Len(contexts) : Tail(all)[j] = all[j + 1]
      BY <1>2, <3>1, TailOf
    <3>3. DOMAIN Tail(all) = 1..Len(contexts)  BY <3>2, LenProperties
    <3>4. Len(contexts) <= MaxContexts  BY DEF ModerationInv, TypeOK
    <3> QED BY <1>2, <1>4, <3>1, <3>2, <3>3, <3>4
  <2>2. CASE ~(Len(all) > MaxContexts)
    <3>1. contexts' = all  BY <2>2 DEF Issue, all
    <3> QED BY <1>2, <1>4, <2>2, <3>1, Capacity
  <2> QED BY <2>1, <2>2
<1>6. Valid' \subseteq Valid \cup {t}  BY <1>2, <1>5 DEF Valid
<1>7. effects[t] = 0  BY <1>1 DEF ModerationInv, Done, TypeOK
<1>8. TypeOK'  BY <1>1, <1>5 DEF Issue, ModerationInv, TypeOK
<1>9. Unused'  BY <1>5, <1>6, <1>7 DEF Issue, ModerationInv, Unused
<1>10. Owned'  BY <1>1, <1>6 DEF Issue, ModerationInv, Owned, MayAct
<1>11. Done'  BY <1>1 DEF Issue, ModerationInv, Done, Recorded
<1>12. \A c \in Calls : Story(c)'  BY DEF Issue, ModerationInv, Story, Recorded
<1> QED BY <1>8, <1>9, <1>10, <1>11, <1>12 DEF ModerationInv

LEMMA ExpireStep == ASSUME ModerationInv, Expire  PROVE ModerationInv'
<1>1. contexts \in Seq(issued) /\ contexts # <<>> /\ contexts' = Tail(contexts)
  BY DEF Expire, ModerationInv, TypeOK
<1>2. /\ contexts' \in Seq(issued) /\ Len(contexts') = Len(contexts) - 1 /\ Len(contexts) \in Nat \ {0}
      /\ \A j \in 1..(Len(contexts) - 1) : contexts'[j] = contexts[j + 1]
  BY <1>1, TailOf
<1>3. DOMAIN contexts' = 1..(Len(contexts) - 1) /\ DOMAIN contexts = 1..Len(contexts)
  BY <1>1, <1>2, LenProperties
<1>4. Valid' \subseteq Valid  BY <1>2, <1>3 DEF Valid
<1>5. \A i, j \in DOMAIN contexts' : contexts'[i] = contexts'[j] => i = j
  <2>1. \A i \in DOMAIN contexts' : /\ i \in Nat /\ i + 1 \in DOMAIN contexts
                                    /\ contexts'[i] = contexts[i + 1]
    BY <1>2, <1>3
  <2> QED BY <2>1 DEF ModerationInv, Unused
<1>6. Len(contexts') <= MaxContexts
  BY <1>2, Capacity DEF ModerationInv, TypeOK
<1>7. TypeOK'  BY <1>2, <1>6 DEF Expire, ModerationInv, TypeOK
<1>8. Unused' /\ Owned'  BY <1>4, <1>5 DEF Expire, ModerationInv, Unused, Owned, MayAct
<1>9. Done' /\ \A c \in Calls : Story(c)'  BY DEF Expire, ModerationInv, Done, Story, Recorded
<1> QED BY <1>7, <1>8, <1>9 DEF ModerationInv

LEMMA ToggleStep == ASSUME ModerationInv, Toggle  PROVE ModerationInv'
BY DEF Toggle, ModerationInv, TypeOK, Unused, Owned, MayAct, Done, Story, Recorded, Valid

\* A tool call begins: one that may act has taken the token out of the store.
LEMMA BeginStep ==
    ASSUME ModerationInv, NEW c \in Calls, NEW t \in Tokens, NEW a \in Actions, Begin(c, t, a)  PROVE ModerationInv'
<1>1. PICK begun \in (IF t \in Valid THEN BOOLEAN ELSE {FALSE}) :
          call' = [call EXCEPT ![c] = [step |-> IF begun THEN "check" ELSE "done", token |-> t, action |-> a,
                                       outcome |-> IF begun THEN "waiting" ELSE "error"]]
  BY DEF Begin
<1>2. /\ call[c].step = "idle" /\ call' \in [Calls -> CallType]
      /\ \A d \in Calls \ {c} : call'[d] = call[d]
      /\ call'[c].token = t /\ call'[c].action = a /\ call'[c].step \in {"check", "done"}
      /\ call'[c].outcome # "succeeded" /\ (call'[c].step = "check" => t \in Valid)
  BY <1>1 DEF Begin, ModerationInv, TypeOK, CallType, Steps, Outcomes
<1>3. /\ contexts' \in Seq(issued') /\ Len(contexts') <= MaxContexts
      /\ \A i, j \in DOMAIN contexts' : contexts'[i] = contexts'[j] => i = j
      /\ Valid' \subseteq Valid /\ (a = "act" => t \notin Valid')
  <2>1. CASE a = "act"
    <3>1. contexts' = Without(t) /\ issued' = issued  BY <2>1 DEF Begin
    <3>2. /\ contexts' \in Seq(issued') /\ Len(contexts') <= Len(contexts)
          /\ \A i, j \in DOMAIN contexts' : contexts'[i] = contexts'[j] => i = j
          /\ Valid' \subseteq Valid /\ t \notin Valid'
      BY <3>1, WithoutIt DEF ModerationInv
    <3>3. Len(contexts) \in Int /\ Len(contexts') \in Int /\ Len(contexts) <= MaxContexts
      BY <3>2, LenProperties DEF ModerationInv, TypeOK
    <3> QED BY <3>2, <3>3, Capacity
  <2>2. CASE a # "act"
    <3>1. contexts' = contexts /\ issued' = issued  BY <2>2 DEF Begin
    <3> QED BY <2>2, <3>1 DEF ModerationInv, TypeOK, Unused, Valid
  <2> QED BY <2>1, <2>2
<1>4. TypeOK'  BY <1>2, <1>3 DEF Begin, ModerationInv, TypeOK, CallType
<1>5. Unused'  BY <1>3 DEF Begin, ModerationInv, Unused
<1>6. MayAct(c)' => t \in Valid /\ t \notin Valid'
  BY <1>2, <1>3 DEF MayAct, Acting
<1>7. Valid \subseteq issued  BY DEF ModerationInv, TypeOK, Valid
<1>8. \A d \in Calls : MayAct(d)' =>
          call'[d].token \in issued' /\ call'[d].token \notin Valid' /\ effects'[call'[d].token] = 0
  BY <1>2, <1>3, <1>6, <1>7 DEF Begin, ModerationInv, Owned, Unused, MayAct
<1>9. \A d, e \in Calls : MayAct(d)' /\ MayAct(e)' /\ call'[d].token = call'[e].token => d = e
  BY <1>2, <1>6 DEF ModerationInv, Owned, MayAct
<1>10. Owned'  BY <1>8, <1>9 DEF Owned
<1>11. Done'  BY <1>2 DEF Begin, ModerationInv, Done, Recorded
<1>12. ASSUME NEW d \in Calls  PROVE Story(d)'
  BY <1>2 DEF Begin, ModerationInv, Story, Recorded
<1> QED BY <1>4, <1>5, <1>10, <1>11, <1>12 DEF ModerationInv

-----------------------------------------------------------------------------
(* The steps of one call.                                                  *)

\* A step that is of one call only, records and does not erase, and does nothing to a
\* member, leaves the others' stories alone.
Advances(c) ==
    /\ call' \in [Calls -> CallType] /\ \A d \in Calls \ {c} : call'[d] = call[d]
    /\ call[c].step # "idle" /\ call'[c].step # "idle"
    /\ call'[c].token = call[c].token /\ call'[c].action = call[c].action
    /\ MayAct(c)' => MayAct(c)
    /\ audit' \in [Calls -> Seq(Records)] /\ \A d \in Calls \ {c} : audit'[d] = audit[d]
    /\ \A o : Recorded(c, o) => Recorded(c, o)'
    /\ UNCHANGED <<contexts, issued, enabled>>

LEMMA LocalStep ==
    ASSUME ModerationInv, NEW c \in Calls, Advances(c), effects' = effects, Story(c)'  PROVE ModerationInv'
<1>1. TypeOK'  BY DEF Advances, ModerationInv, TypeOK, CallType, Records
<1>2. Unused'  BY DEF Advances, ModerationInv, Unused, Valid
<1>3. Owned'
  <2>1. \A d \in Calls : MayAct(d)' => MayAct(d) /\ call'[d].token = call[d].token
    BY DEF Advances, MayAct
  <2>2. Valid' = Valid /\ issued' = issued  BY DEF Advances, Valid
  <2> QED BY <2>1, <2>2 DEF ModerationInv, Owned
<1>4. ASSUME NEW d \in Calls, NEW o \in Records, Recorded(d, o)  PROVE Recorded(d, o)'
  <2>1. CASE d = c
    BY <1>4, <2>1 DEF Advances
  <2>2. CASE d # c
    <3>1. audit'[d] = audit[d]
      BY <2>2 DEF Advances
    <3> QED BY <1>4, <3>1 DEF Recorded
  <2> QED BY <2>1, <2>2
<1>5. Done'  BY <1>4 DEF Advances, ModerationInv, Done, Records
<1>6. ASSUME NEW d \in Calls, d # c  PROVE Story(d)'
  BY <1>6 DEF Advances, ModerationInv, Story, Recorded
<1> QED BY <1>1, <1>2, <1>3, <1>5, <1>6 DEF ModerationInv

\* What a call that goes on, or ends, looks like.
LEMMA MovesIt ==
    ASSUME ModerationInv, NEW c \in Calls, NEW next \in Steps, Moves(c, next)
    PROVE  /\ call' \in [Calls -> CallType] /\ \A d \in Calls \ {c} : call'[d] = call[d]
           /\ call'[c].step = next /\ call'[c].outcome = call[c].outcome
           /\ call'[c].token = call[c].token /\ call'[c].action = call[c].action
BY DEF Moves, ModerationInv, TypeOK, CallType

LEMMA EndsIt ==
    ASSUME ModerationInv, NEW c \in Calls, NEW outcome \in Outcomes, Ends(c, outcome)
    PROVE  /\ call' \in [Calls -> CallType] /\ \A d \in Calls \ {c} : call'[d] = call[d]
           /\ call'[c].step = "done" /\ call'[c].outcome \in {outcome, call[c].outcome}
           /\ call'[c].token = call[c].token /\ call'[c].action = call[c].action
BY DEF Ends, ModerationInv, TypeOK, CallType, Steps

LEMMA AuditStays ==
    ASSUME ModerationInv, audit' = audit, NEW c \in Calls
    PROVE  /\ audit' \in [Calls -> Seq(Records)] /\ \A d \in Calls \ {c} : audit'[d] = audit[d]
           /\ \A o : Recorded(c, o) => Recorded(c, o)'
BY DEF ModerationInv, TypeOK, Records, Recorded

\* A call that ends with a record, or without the one that could not be written.
LEMMA EndsRecordingStep ==
    ASSUME ModerationInv, NEW c \in Calls, NEW r \in Records, NEW reported \in Outcomes, EndsRecording(c, r, reported),
           call[c].step # "idle", UNCHANGED <<contexts, issued, enabled, effects>>,
           reported = "succeeded" => r = "succeeded" /\ call[c].action = "inspect"
    PROVE  ModerationInv'
<1>1. CASE audit' = [audit EXCEPT ![c] = Append(@, r)] /\ Ends(c, reported)
  <2>1. /\ audit' \in [Calls -> Seq(Records)] /\ Recorded(c, r)'
        /\ \A o : Recorded(c, o) => Recorded(c, o)'
        /\ \A d \in Calls \ {c} : audit'[d] = audit[d]
    BY <1>1, Adds DEF ModerationInv
  <2>2. Advances(c)  BY <1>1, <2>1, EndsIt DEF Advances, MayAct, Acting
  <2>3. Story(c)'  BY <1>1, <2>1, EndsIt DEF ModerationInv, Story
  <2> QED BY <2>2, <2>3, LocalStep
<1>2. CASE audit' = audit /\ Ends(c, "error")
  <2>1. "error" \in Outcomes  BY DEF Outcomes
  <2>2. Advances(c)  BY <1>2, <2>1, EndsIt, AuditStays DEF Advances, MayAct, Acting
  <2>3. Story(c)'  BY <1>2, <2>1, EndsIt, AuditStays DEF ModerationInv, Story
  <2> QED BY <2>2, <2>3, LocalStep
<1> QED BY <1>1, <1>2 DEF EndsRecording

LEMMA RefuseOrFail ==
    ASSUME ModerationInv, NEW c \in Calls, Refuse(c) \/ Fail(c), call[c].step # "idle",
           UNCHANGED <<contexts, issued, enabled, effects>>
    PROVE  ModerationInv'
<1>1. {"refused", "failed"} \subseteq Records /\ {"refused", "error"} \subseteq Outcomes
  BY DEF Records, Outcomes
<1> QED BY <1>1, EndsRecordingStep DEF Refuse, Fail

\* A step on the way to the effect.
LEMMA OnTheWay ==
    ASSUME ModerationInv, NEW c \in Calls, NEW next \in {"fetch", "member", "protected"}, Moves(c, next),
           call[c].step \in Acting, audit' = audit, UNCHANGED <<contexts, issued, enabled, effects>>
    PROVE  ModerationInv'
<1>1. next \in Steps  BY DEF Steps
<1>2. Advances(c)  BY <1>1, MovesIt, AuditStays DEF Advances, MayAct, Acting
<1>3. Story(c)'  BY <1>1, MovesIt, AuditStays DEF ModerationInv, Story
<1> QED BY <1>2, <1>3, LocalStep

LEMMA TimeoutStep == ASSUME ModerationInv, NEW c \in Calls, Timeout(c)  PROVE ModerationInv'
<1>1. /\ call' \in [Calls -> CallType] /\ \A d \in Calls \ {c} : call'[d] = call[d]
      /\ call'[c].step = call[c].step /\ call'[c].outcome = "timed out"
      /\ call'[c].token = call[c].token /\ call'[c].action = call[c].action
  BY DEF Timeout, ModerationInv, TypeOK, CallType, Outcomes
<1>2. Advances(c)  BY <1>1, AuditStays DEF Timeout, Advances, MayAct
<1>3. Story(c)'  BY <1>1, AuditStays DEF Timeout, ModerationInv, Story
<1> QED BY <1>2, <1>3, LocalStep DEF Timeout

LEMMA CheckStep == ASSUME ModerationInv, NEW c \in Calls, Check(c) \/ Fetch(c) \/ Member(c)  PROVE ModerationInv'
<1>1. /\ call[c].step \in Acting /\ call[c].step # "idle" /\ UNCHANGED <<contexts, issued, enabled, effects>>
      /\ \/ Refuse(c) \/ Fail(c)
         \/ audit' = audit /\ \E next \in {"fetch", "member", "protected"} : Moves(c, next)
  BY DEF Check, Fetch, Member, At, Acting
<1> QED BY <1>1, RefuseOrFail, OnTheWay

LEMMA ProtectStep == ASSUME ModerationInv, NEW c \in Calls, Protect(c)  PROVE ModerationInv'
<1>1. call[c].step = "protected" /\ UNCHANGED <<contexts, issued, enabled, effects>>
  BY DEF Protect, At
<1>2. CASE Refuse(c)  BY <1>1, <1>2, RefuseOrFail
<1>3. CASE call[c].action = "inspect" /\ EndsRecording(c, "succeeded", "succeeded")
  <2>1. "succeeded" \in Records /\ "succeeded" \in Outcomes  BY DEF Records, Outcomes
  <2> QED BY <1>1, <1>3, <2>1, EndsRecordingStep
<1>4. CASE call[c].action = "act" /\ audit' = [audit EXCEPT ![c] = Append(@, "attempted")] /\ Moves(c, "act")
  <2>1. "attempted" \in Records /\ "act" \in Steps  BY DEF Records, Steps
  <2>2. /\ audit' \in [Calls -> Seq(Records)] /\ Recorded(c, "attempted")'
        /\ \A o : Recorded(c, o) => Recorded(c, o)'
        /\ \A d \in Calls \ {c} : audit'[d] = audit[d]
    BY <1>4, <2>1, Adds DEF ModerationInv
  <2>3. Advances(c)  BY <1>1, <1>4, <2>1, <2>2, MovesIt DEF Advances, MayAct, Acting
  <2>4. Story(c)'  BY <1>1, <1>4, <2>1, <2>2, MovesIt DEF ModerationInv, Story
  <2> QED BY <1>1, <2>3, <2>4, LocalStep
<1>5. CASE audit' = audit /\ Ends(c, "error")
  <2>1. "error" \in Outcomes  BY DEF Outcomes
  <2>2. Advances(c)  BY <1>1, <1>5, <2>1, EndsIt, AuditStays DEF Advances, MayAct, Acting
  <2>3. Story(c)'  BY <1>1, <1>5, <2>1, EndsIt, AuditStays DEF ModerationInv, Story
  <2> QED BY <1>1, <2>2, <2>3, LocalStep
<1> QED BY <1>2, <1>3, <1>4, <1>5 DEF Protect

\* The effect: the call is the owner of its token, so it is the first that is done with it.
LEMMA EffectStep == ASSUME ModerationInv, NEW c \in Calls, Effect(c)  PROVE ModerationInv'
<1>1. call[c].step = "act" /\ UNCHANGED <<contexts, issued, enabled>>  BY DEF Effect, At
<1>2. CASE effects' = effects /\ Fail(c)  BY <1>1, <1>2, RefuseOrFail
<1>3. CASE effects' = [effects EXCEPT ![call[c].token] = @ + 1] /\ Moves(c, "acted") /\ audit' = audit
  <2> DEFINE t == call[c].token
  <2>1. "acted" \in Steps  BY DEF Steps
  <2>2. /\ call' \in [Calls -> CallType] /\ \A d \in Calls \ {c} : call'[d] = call[d]
        /\ call'[c].step = "acted" /\ call'[c].outcome = call[c].outcome
        /\ call'[c].token = t /\ call'[c].action = call[c].action
    BY <1>3, <2>1, MovesIt
  <2>3. call[c].action = "act" /\ Recorded(c, "attempted") /\ MayAct(c) /\ t \in Tokens
    BY <1>1 DEF ModerationInv, Story, MayAct, Acting, TypeOK
  <2>4. t \in issued /\ t \notin Valid /\ effects[t] = 0  BY <2>3 DEF ModerationInv, Owned
  <2>5. effects' \in [Tokens -> Nat] /\ effects'[t] = 1 /\ \A u \in Tokens \ {t} : effects'[u] = effects[u]
    BY <1>3, <2>3, <2>4 DEF ModerationInv, TypeOK
  <2> HIDE DEF t
  <2>6. TypeOK'  BY <1>1, <1>3, <2>2, <2>5 DEF ModerationInv, TypeOK, CallType
  <2>7. Unused'
    <3>1. Valid' = Valid /\ Valid \subseteq Tokens  BY <1>1 DEF ModerationInv, TypeOK, Valid
    <3> QED BY <1>1, <2>4, <2>5, <3>1 DEF ModerationInv, Unused
  <2>8. Owned'
    <3>1. \A d \in Calls : MayAct(d)' => d # c /\ MayAct(d) /\ call'[d] = call[d]
      BY <2>2 DEF MayAct, Acting
    <3>2. \A d \in Calls : MayAct(d)' => call[d].token # t
      BY <2>3, <3>1 DEF ModerationInv, Owned, t
    <3>3. \A d \in Calls : call[d].token \in Tokens  BY DEF ModerationInv, TypeOK
    <3> QED BY <1>1, <2>5, <3>1, <3>2, <3>3 DEF ModerationInv, Owned, Valid
  <2>9. \A d \in Calls, o \in Records : Recorded(d, o)' <=> Recorded(d, o)  BY <1>3 DEF Recorded
  <2>10. Done'
    <3>1. /\ effects'[t] <= 1 /\ t \in issued'
          /\ call'[c].step # "idle" /\ call'[c].token = t /\ call'[c].action = "act" /\ Recorded(c, "attempted")'
      BY <1>1, <2>2, <2>3, <2>4, <2>5, <2>9 DEF Records
    <3>2. ASSUME NEW u \in Tokens, u # t
          PROVE  /\ effects'[u] <= 1 /\ (effects'[u] > 0 => u \in issued')
                 /\ effects'[u] > 0 => \E d \in Calls : /\ call'[d].step # "idle" /\ call'[d].token = u
                                                        /\ call'[d].action = "act" /\ Recorded(d, "attempted")'
      <4>1. effects'[u] = effects[u] /\ issued' = issued  BY <1>1, <2>5, <3>2
      <4>2. SUFFICES ASSUME effects[u] > 0
                     PROVE  \E d \in Calls : /\ call'[d].step # "idle" /\ call'[d].token = u
                                             /\ call'[d].action = "act" /\ Recorded(d, "attempted")'
        BY <4>1 DEF ModerationInv, Done
      <4>3. PICK d \in Calls : /\ call[d].step # "idle" /\ call[d].token = u /\ call[d].action = "act"
                               /\ Recorded(d, "attempted")
        BY <4>2 DEF ModerationInv, Done
      <4>4. d # c  BY <3>2, <4>3 DEF t
      <4> QED BY <2>2, <2>9, <4>3, <4>4 DEF Records
    <3> QED BY <3>1, <3>2 DEF Done
  <2>11. ASSUME NEW d \in Calls  PROVE Story(d)'
    <3>1. CASE d = c  BY <2>2, <2>3, <2>5, <2>9, <3>1 DEF ModerationInv, Story, Records
    <3>2. CASE d # c
      <4>1. effects[call[d].token] = 1 => effects'[call[d].token] = 1
        BY <2>4, <2>5 DEF ModerationInv, TypeOK
      <4> QED BY <2>2, <2>9, <3>2, <4>1 DEF ModerationInv, Story, Records
    <3> QED BY <3>1, <3>2
  <2> QED BY <2>6, <2>7, <2>8, <2>10, <2>11 DEF ModerationInv
<1> QED BY <1>2, <1>3 DEF Effect

LEMMA ActedStep == ASSUME ModerationInv, NEW c \in Calls, Acted(c)  PROVE ModerationInv'
<1>1. /\ call[c].step = "acted" /\ UNCHANGED <<contexts, issued, enabled, effects>>
      /\ effects[call[c].token] = 1
  BY DEF Acted, At, ModerationInv, Story
<1>2. CASE Fail(c)  BY <1>1, <1>2, RefuseOrFail
<1>3. CASE audit' = audit /\ Ends(c, "error")
  <2>1. "error" \in Outcomes  BY DEF Outcomes
  <2>2. Advances(c)  BY <1>1, <1>3, <2>1, EndsIt, AuditStays DEF Advances, MayAct, Acting
  <2>3. Story(c)'  BY <1>1, <1>3, <2>1, EndsIt, AuditStays DEF ModerationInv, Story
  <2> QED BY <1>1, <2>2, <2>3, LocalStep
<1>4. CASE audit' = [audit EXCEPT ![c] = Append(@, "succeeded")] /\ (Moves(c, "acknowledge") \/ Ends(c, "succeeded"))
  <2>1. "succeeded" \in Records /\ "acknowledge" \in Steps /\ "succeeded" \in Outcomes
    BY DEF Records, Steps, Outcomes
  <2>2. /\ audit' \in [Calls -> Seq(Records)] /\ Recorded(c, "succeeded")'
        /\ \A o : Recorded(c, o) => Recorded(c, o)'
        /\ \A d \in Calls \ {c} : audit'[d] = audit[d]
    BY <1>4, <2>1, Adds DEF ModerationInv
  <2>3. Advances(c)  BY <1>1, <1>4, <2>1, <2>2, MovesIt, EndsIt DEF Advances, MayAct, Acting
  <2>4. Story(c)'  BY <1>1, <1>4, <2>1, <2>2, MovesIt, EndsIt DEF ModerationInv, Story
  <2> QED BY <1>1, <2>3, <2>4, LocalStep
<1> QED BY <1>2, <1>3, <1>4 DEF Acted

LEMMA AcknowledgeStep == ASSUME ModerationInv, NEW c \in Calls, Acknowledge(c)  PROVE ModerationInv'
<1>1. /\ call[c].step = "acknowledge" /\ UNCHANGED <<contexts, issued, enabled, effects>> /\ audit' = audit
  BY DEF Acknowledge, At
<1>2. PICK outcome \in {"succeeded", "error"} : Ends(c, outcome)  BY DEF Acknowledge
<1>3. outcome \in Outcomes  BY DEF Outcomes
<1>4. Advances(c)  BY <1>1, <1>2, <1>3, EndsIt, AuditStays DEF Advances, MayAct, Acting
<1>5. Story(c)'  BY <1>1, <1>2, <1>3, EndsIt, AuditStays DEF ModerationInv, Story
<1> QED BY <1>1, <1>4, <1>5, LocalStep

LEMMA CancelStep == ASSUME ModerationInv, NEW c \in Calls, Cancel(c)  PROVE ModerationInv'
<1>1. /\ call[c].step # "idle" /\ UNCHANGED <<contexts, issued, enabled, effects>> /\ audit' = audit
      /\ Moves(c, "done") /\ "done" \in Steps
  BY DEF Cancel, Steps
<1>2. Advances(c)  BY <1>1, MovesIt, AuditStays DEF Advances, MayAct, Acting
<1>3. Story(c)'  BY <1>1, MovesIt, AuditStays DEF ModerationInv, Story
<1> QED BY <1>1, <1>2, <1>3, LocalStep

-----------------------------------------------------------------------------
LEMMA ModerationHolds == ASSUME ModerationInv, [Next]_vars  PROVE ModerationInv'
<1>1. ASSUME NEW t \in Tokens, Issue(t)  PROVE ModerationInv'  BY <1>1, IssueStep
<1>2. CASE Expire \/ Toggle  BY <1>2, ExpireStep, ToggleStep
<1>3. ASSUME NEW c \in Calls, NEW t \in Tokens, NEW a \in Actions, Begin(c, t, a)  PROVE ModerationInv'
  BY <1>3, BeginStep
<1>4. ASSUME NEW c \in Calls, Timeout(c)  PROVE ModerationInv'  BY <1>4, TimeoutStep
<1>5. ASSUME NEW c \in Calls, Coroutine(c)  PROVE ModerationInv'
  BY <1>5, CheckStep, ProtectStep, EffectStep, ActedStep, AcknowledgeStep, CancelStep DEF Coroutine
<1>6. CASE UNCHANGED vars
  BY <1>6 DEF vars, ModerationInv, TypeOK, Unused, Owned, MayAct, Done, Story, Recorded, Valid
<1> QED BY <1>1, <1>2, <1>3, <1>4, <1>5, <1>6 DEF Next

\* For any number of tokens and calls: the stores and the calls keep their types.
THEOREM ModerationInvariant == Spec => []ModerationInv
<1>1. Init => ModerationInv  BY ModerationInit
<1>2. ModerationInv /\ [Next]_vars => ModerationInv'  BY ModerationHolds
<1> QED BY <1>1, <1>2, PTL DEF Spec

\* For any number of tool calls that present any tokens, however their coroutines
\* interleave, are given up and are cancelled: a token acts on its member once at most.
THEOREM TokensActOnce == Spec => []OneEffectPerToken
<1>1. ModerationInv => OneEffectPerToken  BY DEF ModerationInv, Done, OneEffectPerToken
<1> QED BY <1>1, ModerationInvariant, PTL

\* For any number of tool calls: nothing was done to a member whose attempt is not on
\* record, and no success is reported that did not happen or was not recorded.
THEOREM EffectsOnRecord == Spec => []EffectsAudited
<1>1. ModerationInv => EffectsAudited  BY DEF ModerationInv, Done, Story, EffectsAudited
<1> QED BY <1>1, ModerationInvariant, PTL

-----------------------------------------------------------------------------
(* Turns: where the one reply to a message is.                             *)

Stages == {"new", "ignored", "failed", "dispatched", "accepting", "registered"}

CalledFor(m) == {c \in calling : c.turn = m}
NoReply(m) == scheduled[m] = 0 /\ told[m] = 0

\* The reply to a message is nowhere, or with the router, or in one callback, or with the loop,
\* or told; only a registered turn has one with the router or in a callback.
OneReply(m) ==
    /\ scheduled[m] + told[m] <= 1
    /\ turn[m] \in {"new", "dispatched", "accepting"} => NoReply(m)
    /\ turn[m] # "registered" => m \notin pending /\ CalledFor(m) = {}
    /\ m \in pending => CalledFor(m) = {} /\ NoReply(m)
    /\ CalledFor(m) # {} => NoReply(m)
    /\ \A c, d \in CalledFor(m) : c = d

RepliesInv ==
    /\ turn \in [Messages -> Stages]
    /\ scheduled \in [Messages -> Nat] /\ told \in [Messages -> Nat]
    /\ pending \subseteq Messages /\ \A c \in calling : c.turn \in Messages
    /\ \A m \in Messages : OneReply(m)

LEMMA TurnsInit == ASSUME T!Init PROVE RepliesInv
BY DEF T!Init, RepliesInv, OneReply, NoReply, CalledFor, Stages

LEMMA ScheduleOne ==
    ASSUME RepliesInv, NEW m \in Messages, T!Schedule(m)
    PROVE  /\ scheduled' \in [Messages -> Nat]
           /\ scheduled'[m] \in {scheduled[m], scheduled[m] + 1}
           /\ \A n \in Messages \ {m} : scheduled'[n] = scheduled[n]
BY DEF T!Schedule, RepliesInv

\* A step that concerns one message leaves the replies to the others where they are.
LEMMA OneMessage ==
    ASSUME RepliesInv, NEW m \in Messages,
           turn' \in [Messages -> Stages], scheduled' \in [Messages -> Nat], told' \in [Messages -> Nat],
           \A n \in Messages \ {m} : /\ turn'[n] = turn[n] /\ scheduled'[n] = scheduled[n] /\ told'[n] = told[n]
                                     /\ (n \in pending' <=> n \in pending) /\ CalledFor(n)' = CalledFor(n),
           pending' \subseteq Messages, \A c \in calling' : c.turn \in Messages, OneReply(m)'
    PROVE  RepliesInv'
<1>1. ASSUME NEW n \in Messages, n # m PROVE OneReply(n)'
  BY <1>1 DEF RepliesInv, OneReply, NoReply
<1> QED BY <1>1 DEF RepliesInv

LEMMA OnMessageReplies == ASSUME RepliesInv, NEW m \in Messages, T!OnMessage(m) PROVE RepliesInv'
<1>1. turn[m] = "new" /\ UNCHANGED <<pending, calling>>
  BY DEF T!OnMessage
<1>2. OneReply(m) /\ scheduled[m] = 0 /\ told[m] = 0
  BY <1>1 DEF RepliesInv, OneReply, NoReply
<1>3. CASE turn' = [turn EXCEPT ![m] = "ignored"] /\ told' \in {told, [told EXCEPT ![m] = @ + 1]} /\ UNCHANGED scheduled
  BY <1>1, <1>2, <1>3, OneMessage DEF RepliesInv, OneReply, NoReply, CalledFor, Stages
<1>4. CASE turn' = [turn EXCEPT ![m] = "dispatched"] /\ UNCHANGED <<told, scheduled>>
  BY <1>1, <1>2, <1>4, OneMessage DEF RepliesInv, OneReply, NoReply, CalledFor, Stages
<1>5. CASE turn' = [turn EXCEPT ![m] = "failed"] /\ T!Schedule(m) /\ UNCHANGED told
  BY <1>1, <1>2, <1>5, ScheduleOne, OneMessage DEF RepliesInv, OneReply, NoReply, CalledFor, Stages
<1> QED BY <1>3, <1>4, <1>5 DEF T!OnMessage

LEMMA SendReplies == ASSUME RepliesInv, NEW m \in Messages, T!Send(m) PROVE RepliesInv'
<1>1. scheduled[m] > 0 /\ scheduled' = [scheduled EXCEPT ![m] = @ - 1] /\ UNCHANGED <<turn, pending, calling>>
      /\ told' \in {told, [told EXCEPT ![m] = @ + 1]}
  BY DEF T!Send
<1>2. scheduled[m] = 1 /\ told[m] = 0
  BY <1>1 DEF RepliesInv, OneReply
<1>3. OneReply(m)'
  BY <1>1, <1>2 DEF RepliesInv, OneReply, NoReply, CalledFor
<1> QED BY <1>1, <1>2, <1>3, OneMessage DEF RepliesInv, CalledFor

LEMMA CloseReplies == ASSUME RepliesInv, T!Close PROVE RepliesInv'
BY DEF T!Close, RepliesInv, OneReply, NoReply, CalledFor

LEMMA AcceptReplies == ASSUME RepliesInv, NEW m \in Messages, T!Accept(m) PROVE RepliesInv'
<1>1. turn[m] = "dispatched" /\ UNCHANGED <<pending, calling, told>>
  BY DEF T!Accept
<1>2. OneReply(m) /\ scheduled[m] = 0 /\ told[m] = 0
  BY <1>1 DEF RepliesInv, OneReply, NoReply
<1>3. CASE turn' = [turn EXCEPT ![m] = "accepting"] /\ UNCHANGED scheduled
  BY <1>1, <1>2, <1>3, OneMessage DEF RepliesInv, OneReply, NoReply, CalledFor, Stages
<1>4. CASE turn' = [turn EXCEPT ![m] = "failed"] /\ T!Schedule(m)
  BY <1>1, <1>2, <1>4, ScheduleOne, OneMessage DEF RepliesInv, OneReply, NoReply, CalledFor, Stages
<1> QED BY <1>3, <1>4 DEF T!Accept

\* register: either the router has the turn's callback now, or the callback runs.
LEMMA RegisterReplies == ASSUME RepliesInv, NEW m \in Messages, T!Register(m) PROVE RepliesInv'
<1>1. turn[m] = "accepting" /\ turn' = [turn EXCEPT ![m] = "registered"] /\ UNCHANGED <<scheduled, told>>
  BY DEF T!Register
<1>2. OneReply(m) /\ NoReply(m) /\ m \notin pending /\ CalledFor(m) = {}
  BY <1>1 DEF RepliesInv, OneReply
<1>3. CASE pending' = pending \cup {m} /\ UNCHANGED calling
  BY <1>1, <1>2, <1>3, OneMessage DEF RepliesInv, OneReply, NoReply, CalledFor, Stages
<1>4. ASSUME NEW o, pending' = pending, calling' = calling \cup {[turn |-> m, by |-> "runtime", outcome |-> o]}
      PROVE  RepliesInv'
  <2> DEFINE new == [turn |-> m, by |-> "runtime", outcome |-> o]
  <2>1. new.turn = m
    OBVIOUS
  <2> HIDE DEF new
  <2>2. calling' = calling \cup {new}
    BY <1>4 DEF new
  <2> QED BY <1>1, <1>2, <1>4, <2>1, <2>2, OneMessage DEF RepliesInv, OneReply, NoReply, CalledFor, Stages
<1> QED BY <1>3, <1>4 DEF T!Register

\* deliver: a callback leaves the router as it is called.
LEMMA DeliverReplies == ASSUME RepliesInv, T!Deliver PROVE RepliesInv'
<1>1. UNCHANGED <<turn, scheduled, told>>
  BY DEF T!Deliver
<1>2. CASE UNCHANGED <<pending, calling>>
  BY <1>1, <1>2 DEF RepliesInv, OneReply, NoReply, CalledFor
<1>3. ASSUME NEW m, NEW o, m \in pending, pending' = pending \ {m},
             calling' = calling \cup {[turn |-> m, outcome |-> o, by |-> "worker"]}
      PROVE  RepliesInv'
  <2> DEFINE new == [turn |-> m, outcome |-> o, by |-> "worker"]
  <2>1. new.turn = m
    OBVIOUS
  <2> HIDE DEF new
  <2>2. calling' = calling \cup {new}
    BY <1>3 DEF new
  <2>3. m \in Messages /\ OneReply(m) /\ CalledFor(m) = {} /\ NoReply(m) /\ turn[m] = "registered"
    BY <1>3 DEF RepliesInv, OneReply
  <2>4. CalledFor(m)' = {new} /\ \A n \in Messages \ {m} : CalledFor(n)' = CalledFor(n)
    BY <2>1, <2>2, <2>3 DEF CalledFor
  <2>5. OneReply(m)'
    BY <1>1, <1>3, <2>3, <2>4 DEF OneReply, NoReply
  <2>6. \A c \in calling' : c.turn \in Messages
    BY <2>1, <2>2, <2>3 DEF RepliesInv
  <2> QED BY <1>1, <1>3, <2>3, <2>4, <2>5, <2>6, OneMessage DEF RepliesInv
<1> QED BY <1>2, <1>3 DEF T!Deliver

\* The callback hands its reply to the loop, once.
LEMMA ReplyReplies == ASSUME RepliesInv, NEW c \in calling, T!Reply(c) PROVE RepliesInv'
<1> DEFINE m == c.turn
<1>1. m \in Messages /\ calling' = calling \ {c} /\ UNCHANGED <<turn, pending, told>>
      /\ (UNCHANGED scheduled \/ T!Schedule(m))
  BY DEF T!Reply, RepliesInv
<1>2. OneReply(m) /\ c \in CalledFor(m) /\ scheduled[m] = 0 /\ told[m] = 0 /\ turn[m] = "registered" /\ m \notin pending
  BY <1>1 DEF RepliesInv, OneReply, NoReply, CalledFor
<1>3. CalledFor(m)' = {} /\ \A n \in Messages \ {m} : CalledFor(n)' = CalledFor(n)
  BY <1>1, <1>2 DEF OneReply, CalledFor
<1>4. /\ scheduled' \in [Messages -> Nat] /\ scheduled'[m] \in {0, 1}
      /\ \A n \in Messages \ {m} : scheduled'[n] = scheduled[n]
  BY <1>1, <1>2, ScheduleOne DEF RepliesInv
<1> HIDE DEF m
<1>5. OneReply(m)'
  BY <1>1, <1>2, <1>3, <1>4 DEF OneReply, NoReply
<1> QED BY <1>1, <1>3, <1>4, <1>5, OneMessage DEF RepliesInv

LEMMA TurnsStep == ASSUME RepliesInv, [T!Next]_T!vars PROVE RepliesInv'
<1>1. CASE T!Connect \/ T!Stop \/ (\E t \in T!Turns, o \in T!Outcomes : T!Emit(t, o)) \/ UNCHANGED T!vars
  <2>1. UNCHANGED <<turn, scheduled, told, pending, calling>>
    BY <1>1 DEF T!Connect, T!Stop, T!Emit, T!vars
  <2> QED BY <2>1 DEF RepliesInv, OneReply, NoReply, CalledFor
<1> QED BY <1>1, CloseReplies, DeliverReplies, OnMessageReplies, SendReplies, AcceptReplies, RegisterReplies,
           ReplyReplies DEF T!Next

\* For any messages, foreign turns, buffer and history sizes and numbers of events: however the
\* receipt and the events of a turn race, Discord gets one reply to a message at most.
THEOREM RepliedOnce == MCSpec => []AnsweredOnce
<1>1. MCInit => RepliesInv
  BY TurnsInit DEF MCInit
<1>2. RepliesInv /\ [MCNext]_mcVars => RepliesInv'
  <2>1. [MCNext]_mcVars => [T!Next]_T!vars
    BY DEF MCNext, mcVars, turnsVars, T!vars
  <2> QED BY <2>1, TurnsStep
<1>3. RepliesInv => AnsweredOnce
  BY DEF RepliesInv, OneReply, AnsweredOnce, T!AnsweredOnce
<1> QED BY <1>1, <1>2, <1>3, PTL DEF MCSpec

-----------------------------------------------------------------------------
(* Turns: their types, and the bounds of the buffer and the history.       *)

LEMMA PoppedIs ==
    ASSUME NEW E, NEW list \in Seq(E), NEW found \in SUBSET DOMAIN list
    PROVE  /\ T!Popped(list, found) \in Seq(E)
           /\ Len(T!Popped(list, found)) <= Len(list)
<1>1. CASE found = {}
  BY <1>1 DEF T!Popped
<1>2. CASE found # {}
  <2> DEFINE i == CHOOSE j \in found : TRUE
  <2>1. i \in 1..Len(list) /\ Len(list) \in Nat
    BY <1>2
  <2> DEFINE rest == SubSeq(list, 1, i - 1) \o SubSeq(list, i + 1, Len(list))
  <2>2. T!Popped(list, found) = rest
    BY <1>2, Zenon DEF T!Popped, T!RemoveAt
  <2> HIDE DEF i
  <2>3. rest \in Seq(E) /\ Len(rest) = Len(list) - 1
    BY <2>1, TakenOut
  <2> HIDE DEF rest
  <2>4. Len(rest) <= Len(list)
    BY <2>1, <2>3
  <2> QED BY <2>2, <2>3, <2>4
<1> QED BY <1>1, <1>2

\* No key is there twice, as in the dict that the list is.
Apart(list, key) == \A i, j \in DOMAIN list : key[list[i]] = key[list[j]] => i = j
With(list, key, k) == {i \in DOMAIN list : key[list[i]] = k}

\* What has the key is out, all of it.
LEMMA PoppedApart ==
    ASSUME NEW E, NEW list \in Seq(E), NEW key, NEW k, Apart(list, key)
    PROVE  LET rest == T!Popped(list, With(list, key, k))
           IN  Apart(rest, key) /\ With(rest, key, k) = {}
<1>1. CASE With(list, key, k) = {}
  BY <1>1 DEF T!Popped
<1>2. CASE With(list, key, k) # {}
  <2> DEFINE i == CHOOSE j \in With(list, key, k) : TRUE
             rest == SubSeq(list, 1, i - 1) \o SubSeq(list, i + 1, Len(list))
  <2>1. T!Popped(list, With(list, key, k)) = rest
    BY <1>2, Zenon DEF T!Popped, T!RemoveAt
  <2>2. i \in DOMAIN list /\ key[list[i]] = k
    BY <1>2 DEF With
  <2> HIDE DEF i
  <2>3. i \in 1..Len(list) /\ Len(list) \in Nat
    BY <2>2
  <2>4. /\ rest \in Seq(E) /\ Len(rest) = Len(list) - 1
        /\ \A j \in 1..Len(list) - 1 : rest[j] = IF j < i THEN list[j] ELSE list[j + 1]
    BY <2>3, TakenOut
  <2> HIDE DEF rest
  <2> DEFINE Old(j) == IF j < i THEN j ELSE j + 1
  <2>5. ASSUME NEW j \in DOMAIN rest
        PROVE  rest[j] = list[Old(j)] /\ Old(j) \in DOMAIN list /\ Old(j) # i /\ j \in Nat
    <3>1. j \in 1..Len(list) - 1
      BY <2>3, <2>4
    <3> QED BY <2>3, <2>4, <3>1
  <2>6. \A j, l \in Nat : Old(j) = Old(l) => j = l
    BY <2>3
  <2> HIDE DEF Old
  <2>7. Apart(rest, key)
    <3> SUFFICES ASSUME NEW j \in DOMAIN rest, NEW l \in DOMAIN rest, key[rest[j]] = key[rest[l]]  PROVE j = l
      BY Zenon DEF Apart
    <3>1. Old(j) = Old(l)
      <4>1. key[list[Old(j)]] = key[list[Old(l)]] /\ Old(j) \in DOMAIN list /\ Old(l) \in DOMAIN list
        BY <2>5
      <4> QED BY <4>1, Zenon DEF Apart
    <3>2. j \in Nat /\ l \in Nat
      BY <2>5
    <3> QED BY <2>6, <3>1, <3>2, Zenon
  <2>8. With(rest, key, k) = {}
    <3> SUFFICES ASSUME NEW j \in DOMAIN rest, key[rest[j]] = k  PROVE FALSE
      BY Zenon DEF With
    <3> QED BY <2>2, <2>5, Zenon DEF Apart
  <2> QED BY <2>1, <2>7, <2>8
<1> QED BY <1>1, <1>2

LEMMA PushedApart ==
    ASSUME NEW E, NEW list \in Seq(E), NEW e \in E, NEW key, NEW max,
           Apart(list, key), With(list, key, key[e]) = {}
    PROVE  LET all == Append(list, e)
           IN  Apart(IF Len(all) > max THEN Tail(all) ELSE all, key)
<1> DEFINE all == Append(list, e)
<1>1. /\ all \in Seq(E) /\ Len(all) = Len(list) + 1 /\ Len(list) \in Nat /\ all # <<>>
      /\ all[Len(list) + 1] = e /\ \A i \in DOMAIN list : all[i] = list[i] /\ i \in 1..Len(list)
  OBVIOUS
<1> HIDE DEF all
<1>2. ASSUME NEW i \in DOMAIN all  PROVE i \in DOMAIN list \/ (i = Len(list) + 1 /\ all[i] = e)
  BY <1>1
<1>3. \A i \in DOMAIN list : key[list[i]] # key[e]
  BY DEF With
<1>4. Apart(all, key)
  <2> SUFFICES ASSUME NEW i \in DOMAIN all, NEW j \in DOMAIN all, key[all[i]] = key[all[j]]  PROVE i = j
    BY DEF Apart
  <2>1. CASE i \in DOMAIN list /\ j \in DOMAIN list
    <3>1. key[list[i]] = key[list[j]]
      BY <1>1, <2>1
    <3> QED BY <2>1, <3>1, Zenon DEF Apart
  <2>2. CASE i = Len(list) + 1 /\ all[i] = e /\ j \in DOMAIN list
    <3>1. key[list[j]] = key[e]
      BY <1>1, <2>2
    <3> QED BY <1>3, <2>2, <3>1, Zenon
  <2>3. CASE j = Len(list) + 1 /\ all[j] = e /\ i \in DOMAIN list
    <3>1. key[list[i]] = key[e]
      BY <1>1, <2>3
    <3> QED BY <1>3, <2>3, <3>1, Zenon
  <2>4. CASE i = Len(list) + 1 /\ j = Len(list) + 1
    BY <2>4
  <2> QED BY <1>2, <2>1, <2>2, <2>3, <2>4
<1>5. Apart(Tail(all), key)
  <2>1. \A i \in DOMAIN Tail(all) : Tail(all)[i] = all[i + 1] /\ i + 1 \in DOMAIN all /\ i \in Nat
    BY <1>1
  <2>2. \A i, j \in Nat : i + 1 = j + 1 => i = j
    OBVIOUS
  <2> SUFFICES ASSUME NEW i \in DOMAIN Tail(all), NEW j \in DOMAIN Tail(all), key[Tail(all)[i]] = key[Tail(all)[j]]
               PROVE  i = j
    BY Zenon DEF Apart
  <2>3. key[all[i + 1]] = key[all[j + 1]]
    BY <2>1
  <2>4. i + 1 = j + 1
    BY <1>4, <2>1, <2>3, Zenon DEF Apart
  <2> QED BY <2>1, <2>2, <2>4, Zenon
<1> QED BY <1>4, <1>5 DEF all

\* What is appended may push the oldest out.
LEMMA Pushed ==
    ASSUME NEW E, NEW list \in Seq(E), NEW e \in E, NEW max \in Nat \ {0}, Len(list) <= max
    PROVE  LET all == Append(list, e)
               kept == IF Len(all) > max THEN Tail(all) ELSE all
           IN  kept \in Seq(E) /\ Len(kept) <= max
<1> DEFINE all == Append(list, e)
<1>1. all \in Seq(E) /\ Len(all) = Len(list) + 1 /\ Len(list) \in Nat /\ all # <<>>
  OBVIOUS
<1> HIDE DEF all
<1>2. Tail(all) \in Seq(E) /\ Len(Tail(all)) = Len(all) - 1
  BY <1>1
<1>3. (IF Len(all) > max THEN Tail(all) ELSE all) \in Seq(E)
  BY <1>1, <1>2
<1>4. Len(IF Len(all) > max THEN Tail(all) ELSE all) <= max
  BY <1>1, <1>2
<1> QED BY <1>3, <1>4 DEF all

Recollections == [conversation : Messages, entries : 1..Budget]
Conversations == [h \in Recollections |-> h.conversation]

HistoryTyped ==
    history \in Seq(Recollections) /\ Len(history) <= MaxConversations /\ Apart(history, Conversations)

LEMMA OfIs == ASSUME HistoryTyped, NEW c  PROVE T!Of(c) = With(history, Conversations, c)
<1>1. \A i \in DOMAIN history : history[i] \in Recollections
  BY DEF HistoryTyped
<1> QED BY <1>1 DEF T!Of, With, Conversations

LEMMA RememberIs ==
    ASSUME HistoryTyped, NEW c \in Messages, NEW n \in Nat \ {0}
    PROVE  /\ T!Remember(c, n) \in Seq(Recollections) /\ Len(T!Remember(c, n)) <= MaxConversations
           /\ Apart(T!Remember(c, n), Conversations)
<1>1. CASE Budget = 0
  BY <1>1 DEF T!Remember, HistoryTyped
<1>2. CASE Budget # 0
  <2> DEFINE size == T!Entries(c) + n
             new == [conversation |-> c, entries |-> IF size > Budget THEN Budget ELSE size]
             rest == T!Popped(history, T!Of(c))
             all == Append(rest, new)
  <2>1. T!Entries(c) \in Nat
    <3>1. CASE T!Of(c) = {}
      BY <3>1 DEF T!Entries
    <3>2. CASE T!Of(c) # {}
      <4>1. (CHOOSE i \in T!Of(c) : TRUE) \in DOMAIN history
        BY <3>2 DEF T!Of
      <4>2. history[CHOOSE i \in T!Of(c) : TRUE] \in Recollections
        BY <4>1 DEF HistoryTyped
      <4> QED BY <3>2, <4>2 DEF T!Entries, Recollections
    <3> QED BY <3>1, <3>2
  <2>2. size \in Nat \ {0}
    BY <2>1
  <2>3. (IF size > Budget THEN Budget ELSE size) \in 1..Budget
    <3> HIDE DEF size
    <3> QED BY <1>2, <2>2, DiscordAssumption
  <2>4. new \in Recollections
    <3> HIDE DEF size
    <3> QED BY <2>3 DEF Recollections
  <2>5. rest \in Seq(Recollections) /\ Len(rest) <= Len(history)
    BY PoppedIs DEF T!Of, HistoryTyped
  <2>6. T!Remember(c, n) = IF Len(all) > MaxConversations THEN Tail(all) ELSE all
    BY <1>2, Zenon DEF T!Remember
  <2>9. rest = T!Popped(history, With(history, Conversations, c))
    BY OfIs, Zenon
  <2>10. Conversations[new] = c
    BY <2>4 DEF Conversations
  <2> HIDE DEF rest, new
  <2>11. Apart(rest, Conversations) /\ With(rest, Conversations, Conversations[new]) = {}
    <3>1. history \in Seq(Recollections) /\ Apart(history, Conversations)
      BY DEF HistoryTyped
    <3> QED BY <2>9, <2>10, <3>1, PoppedApart, Zenon
  <2>12. Apart(T!Remember(c, n), Conversations)
    BY <2>4, <2>5, <2>6, <2>11, PushedApart, Zenon
  <2>7. Len(rest) <= MaxConversations
    BY <2>5, DiscordAssumption DEF HistoryTyped
  <2>8. MaxConversations \in Nat \ {0}
    BY DiscordAssumption
  <2> QED BY <2>4, <2>5, <2>6, <2>7, <2>8, <2>12, Pushed
<1> QED BY <1>1, <1>2

TurnOf == [a \in T!Answers |-> a.turn]

BufferTyped == buffered \in Seq(T!Answers) /\ Len(buffered) <= MaxBuffered /\ Apart(buffered, TurnOf)

LEMMA WithoutTurn ==
    ASSUME BufferTyped, NEW t
    PROVE  /\ T!Without(t) \in Seq(T!Answers) /\ Len(T!Without(t)) <= Len(buffered)
           /\ Apart(T!Without(t), TurnOf) /\ With(T!Without(t), TurnOf, t) = {}
<1>1. \A i \in DOMAIN buffered : buffered[i] \in T!Answers
  BY DEF BufferTyped
<1>2. T!Held(t) = With(buffered, TurnOf, t)
  BY <1>1 DEF T!Held, With, TurnOf
<1>3. buffered \in Seq(T!Answers) /\ Apart(buffered, TurnOf)
  BY DEF BufferTyped
<1>4. T!Without(t) \in Seq(T!Answers) /\ Len(T!Without(t)) <= Len(buffered)
  BY <1>3, PoppedIs DEF T!Without, T!Held
<1>5. T!Without(t) = T!Popped(buffered, With(buffered, TurnOf, t))
  BY <1>2, Zenon DEF T!Without
<1>6. /\ Apart(T!Popped(buffered, With(buffered, TurnOf, t)), TurnOf)
      /\ With(T!Popped(buffered, With(buffered, TurnOf, t)), TurnOf, t) = {}
  BY <1>3, PoppedApart, Zenon
<1> QED BY <1>4, <1>5, <1>6

LEMMA KeepIs ==
    ASSUME BufferTyped, NEW a \in T!Answers
    PROVE  T!Keep(a) \in Seq(T!Answers) /\ Len(T!Keep(a)) <= MaxBuffered /\ Apart(T!Keep(a), TurnOf)
<1> DEFINE rest == T!Without(a.turn)
<1>1. rest \in Seq(T!Answers) /\ Len(rest) <= Len(buffered) /\ Apart(rest, TurnOf) /\ With(rest, TurnOf, a.turn) = {}
  BY WithoutTurn
<1>2. T!Keep(a) = IF Len(Append(rest, a)) > MaxBuffered THEN Tail(Append(rest, a)) ELSE Append(rest, a)
  BY Zenon DEF T!Keep
<1> HIDE DEF rest
<1>3. Len(rest) <= MaxBuffered /\ MaxBuffered \in Nat \ {0}
  BY <1>1, DiscordAssumption DEF BufferTyped
<1>4. a.turn = TurnOf[a]
  BY DEF TurnOf
<1>5. With(rest, TurnOf, TurnOf[a]) = {}
  BY <1>1, <1>4, Zenon
<1>6. Apart(T!Keep(a), TurnOf)
  BY <1>1, <1>2, <1>5, PushedApart, Zenon
<1> QED BY <1>1, <1>2, <1>3, <1>6, Pushed

CallbackTypes == [turn : Messages, outcome : T!Outcomes, by : {"runtime", "worker"}]

\* What the other threads keep.
LoopTyped ==
    /\ loop \in {"none", "running", "closed"} /\ closing \in BOOLEAN /\ started \in BOOLEAN
    /\ ended \subseteq Messages

EventsTyped ==
    /\ emitted \in [count : 0..MaxEvents, turns : SUBSET Messages]
    /\ events \in Seq(T!Answers) /\ calling \subseteq CallbackTypes

TurnsInv == RepliesInv /\ LoopTyped /\ EventsTyped /\ BufferTyped /\ HistoryTyped

LEMMA TurnsInvInit == ASSUME T!Init PROVE TurnsInv
<1>1. RepliesInv
  BY TurnsInit
<1>2. LoopTyped
  BY DEF T!Init, LoopTyped
<1>4. EventsTyped
  <2>1. emitted = [count |-> 0, turns |-> {}] /\ events = <<>> /\ calling = {} /\ 0 \in 0..MaxEvents
    BY DiscordAssumption DEF T!Init
  <2> QED BY <2>1 DEF EventsTyped
<1>3. BufferTyped /\ HistoryTyped
  BY DiscordAssumption DEF T!Init, BufferTyped, HistoryTyped, Apart
<1> QED BY <1>1, <1>2, <1>3, <1>4 DEF TurnsInv

LEMMA Remembers ==
    ASSUME HistoryTyped, NEW m \in Messages, NEW n \in {1, 2}, history' = T!Remember(Conversation[m], n)
    PROVE  HistoryTyped'
<1>1. Conversation[m] \in Messages /\ n \in Nat \ {0}
  BY DEF Conversation
<1>2. /\ history' \in Seq(Recollections) /\ Len(history') <= MaxConversations
      /\ Apart(history', Conversations)
  BY <1>1, RememberIs
<1> QED BY <1>2, Zenon DEF HistoryTyped, Conversations, Recollections, Apart

LEMMA Schedules == ASSUME LoopTyped, NEW m \in Messages, T!Schedule(m) PROVE ended' \subseteq Messages
BY DEF LoopTyped, T!Schedule

LEMMA TurnsInvStep == TurnsInv /\ [T!Next]_T!vars => TurnsInv'
<1> SUFFICES ASSUME TurnsInv, [T!Next]_T!vars  PROVE TurnsInv'
  OBVIOUS
<1>0. RepliesInv /\ RepliesInv' /\ LoopTyped /\ EventsTyped /\ BufferTyped /\ HistoryTyped
  BY TurnsStep DEF TurnsInv
<1> DEFINE Others == UNCHANGED <<emitted, events, calling, buffered, history>>
<1>1. CASE T!Connect \/ T!Close \/ T!Stop \/ UNCHANGED T!vars
  <2>1. Others
    BY <1>1 DEF T!Connect, T!Close, T!Stop, T!vars
  <2>2. LoopTyped'
    BY <1>0, <1>1 DEF LoopTyped, T!Connect, T!Close, T!Stop, T!vars
  <2> QED BY <1>0, <2>1, <2>2 DEF TurnsInv, EventsTyped, BufferTyped, HistoryTyped
<1>2. ASSUME NEW m \in Messages, T!OnMessage(m)  PROVE TurnsInv'
  <2>1. UNCHANGED <<loop, closing, started, emitted, events, buffered, calling>>
    BY <1>2 DEF T!OnMessage
  <2>2. \/ UNCHANGED <<ended, history>>
        \/ UNCHANGED ended /\ history' = T!Remember(Conversation[m], 1)
        \/ history' = T!Remember(Conversation[m], 2) /\ T!Schedule(m)
    BY <1>2, Zenon DEF T!OnMessage
  <2>3. HistoryTyped'
    BY <1>0, <2>2, Remembers DEF HistoryTyped
  <2>4. ended' \subseteq Messages
    BY <1>0, <2>2, Schedules DEF LoopTyped
  <2> QED BY <1>0, <2>1, <2>3, <2>4 DEF TurnsInv, LoopTyped, EventsTyped, BufferTyped
<1>3. ASSUME NEW m \in Messages, T!Send(m)  PROVE TurnsInv'
  <2>1. UNCHANGED <<loop, closing, started, emitted, events, buffered, calling, history>> /\ ended' \subseteq Messages
    BY <1>0, <1>3 DEF T!Send, LoopTyped
  <2> QED BY <1>0, <2>1 DEF TurnsInv, LoopTyped, EventsTyped, BufferTyped, HistoryTyped
<1>4. ASSUME NEW m \in Messages, T!Accept(m)  PROVE TurnsInv'
  <2>1. UNCHANGED <<loop, closing, started, emitted, events, buffered, calling>>
    BY <1>4 DEF T!Accept
  <2>2. \/ UNCHANGED <<ended, history>>
        \/ history' = T!Remember(Conversation[m], 1) /\ T!Schedule(m)
    BY <1>4, Zenon DEF T!Accept
  <2>3. HistoryTyped'
    BY <1>0, <2>2, Remembers DEF HistoryTyped
  <2>4. ended' \subseteq Messages
    BY <1>0, <2>2, Schedules DEF LoopTyped
  <2> QED BY <1>0, <2>1, <2>3, <2>4 DEF TurnsInv, LoopTyped, EventsTyped, BufferTyped
<1>5. ASSUME NEW m \in Messages, T!Register(m)  PROVE TurnsInv'
  <2>1. UNCHANGED <<loop, closing, started, emitted, events, ended, history>>
    BY <1>5 DEF T!Register
  <2>2. BufferTyped' /\ calling' \subseteq CallbackTypes
    <3>1. CASE UNCHANGED <<buffered, calling>>
      BY <1>0, <3>1 DEF BufferTyped, EventsTyped
    <3>2. CASE /\ T!Held(m) # {} /\ buffered' = T!Without(m)
               /\ calling' = calling \cup {[turn |-> m, by |-> "runtime",
                                            outcome |-> buffered[CHOOSE i \in T!Held(m) : TRUE].outcome]}
      <4>1. buffered' \in Seq(T!Answers) /\ Len(buffered') <= Len(buffered) /\ Apart(buffered', TurnOf)
        BY <1>0, <3>2, WithoutTurn
      <4>2. (CHOOSE i \in T!Held(m) : TRUE) \in DOMAIN buffered
        BY <3>2 DEF T!Held
      <4>3. buffered[CHOOSE i \in T!Held(m) : TRUE] \in T!Answers
        BY <1>0, <4>2 DEF BufferTyped
      <4> DEFINE o == buffered[CHOOSE i \in T!Held(m) : TRUE].outcome
      <4>4. o \in T!Outcomes
        BY <4>3 DEF T!Answers
      <4> HIDE DEF o
      <4>5. calling' \subseteq CallbackTypes
        <5>1. calling' = calling \cup {[turn |-> m, by |-> "runtime", outcome |-> o]}
          BY <3>2 DEF o
        <5> QED BY <1>0, <4>4, <5>1 DEF EventsTyped, CallbackTypes
      <4>6. Len(buffered') <= MaxBuffered
        BY <1>0, <4>1, DiscordAssumption DEF BufferTyped
      <4> QED BY <4>1, <4>5, <4>6 DEF BufferTyped, T!Answers, T!Turns, T!Outcomes, TurnOf, Apart
    <3> QED BY <1>5, <3>1, <3>2 DEF T!Register
  <2> QED BY <1>0, <2>1, <2>2 DEF TurnsInv, LoopTyped, EventsTyped, HistoryTyped, CallbackTypes, T!Outcomes
<1>6. CASE T!Deliver
  <2>1. UNCHANGED <<loop, closing, started, emitted, history>> /\ events # <<>> /\ events' = Tail(events)
    BY <1>6 DEF T!Deliver
  <2>2. Head(events) \in T!Answers /\ events' \in Seq(T!Answers)
    BY <1>0, <2>1 DEF EventsTyped
  <2> DEFINE a == Head(events)
  <2>3. CASE /\ a.turn \in pending
             /\ calling' = calling \cup {[turn |-> a.turn, outcome |-> a.outcome, by |-> "worker"]}
             /\ UNCHANGED <<buffered, ended>>
    <3>1. a.turn \in Messages /\ a.outcome \in T!Outcomes
      BY <1>0, <2>2, <2>3 DEF RepliesInv, T!Answers
    <3> HIDE DEF a
    <3>2. calling' \subseteq CallbackTypes
      BY <1>0, <2>3, <3>1 DEF EventsTyped, CallbackTypes
    <3> QED BY <1>0, <2>1, <2>2, <2>3, <3>2 DEF TurnsInv, LoopTyped, EventsTyped, HistoryTyped, BufferTyped
  <2>4. CASE buffered' = T!Keep(a) /\ ended' = ended \cup T!Evicted(a) /\ UNCHANGED calling
    <3>1. buffered' \in Seq(T!Answers) /\ Len(buffered') <= MaxBuffered /\ Apart(buffered', TurnOf)
      BY <1>0, <2>2, <2>4, KeepIs
    <3>2. ended' \subseteq Messages
      BY <1>0, <2>4 DEF LoopTyped, T!Evicted
    <3> QED BY <1>0, <2>1, <2>2, <2>4, <3>1, <3>2 DEF TurnsInv, LoopTyped, EventsTyped, HistoryTyped, BufferTyped
  <2> QED BY <1>6, <2>3, <2>4 DEF T!Deliver
<1>7. ASSUME NEW c \in calling, T!Reply(c)  PROVE TurnsInv'
  <2>1. UNCHANGED <<loop, closing, started, emitted, events, buffered>> /\ calling' \subseteq calling /\ c.turn \in Messages
    BY <1>0, <1>7 DEF T!Reply, RepliesInv
  <2>2. \/ ended' = ended \cup {c.turn} /\ UNCHANGED history
        \/ history' = T!Remember(Conversation[c.turn], 1) /\ T!Schedule(c.turn)
    BY <1>7, Zenon DEF T!Reply
  <2>3. HistoryTyped'
    BY <1>0, <2>1, <2>2, Remembers DEF HistoryTyped
  <2>4. ended' \subseteq Messages
    BY <1>0, <2>1, <2>2, Schedules DEF LoopTyped
  <2> QED BY <1>0, <2>1, <2>3, <2>4 DEF TurnsInv, LoopTyped, EventsTyped, BufferTyped
<1>8. ASSUME NEW t \in T!Turns, NEW o \in T!Outcomes, T!Emit(t, o)  PROVE TurnsInv'
  <2>1. UNCHANGED <<loop, closing, started, calling, buffered, history, ended>>
        /\ emitted.count < MaxEvents
        /\ emitted' = [count |-> emitted.count + 1, turns |-> emitted.turns \cup ({t} \cap Messages)]
        /\ events' = Append(events, [turn |-> t, outcome |-> o])
    BY <1>8 DEF T!Emit
  <2>2. emitted' \in [count : 0..MaxEvents, turns : SUBSET Messages]
    <3>1. emitted.count \in 0..MaxEvents /\ emitted.turns \subseteq Messages
      BY <1>0 DEF EventsTyped
    <3>2. emitted.count + 1 \in 0..MaxEvents
      BY <2>1, <3>1, DiscordAssumption
    <3>3. emitted.turns \cup ({t} \cap Messages) \subseteq Messages
      BY <3>1
    <3> QED BY <2>1, <3>2, <3>3
  <2>3. [turn |-> t, outcome |-> o] \in T!Answers
    BY DEF T!Answers
  <2>4. events' \in Seq(T!Answers)
    BY <1>0, <2>1, <2>3 DEF EventsTyped
  <2> QED BY <1>0, <2>1, <2>2, <2>4 DEF TurnsInv, LoopTyped, EventsTyped, BufferTyped, HistoryTyped
<1> QED BY <1>1, <1>2, <1>3, <1>4, <1>5, <1>6, <1>7, <1>8 DEF T!Next

LEMMA TurnsAreTyped == TurnsInv => T!TypeOK
<1> SUFFICES ASSUME TurnsInv  PROVE T!TypeOK
  OBVIOUS
<1>1. ASSUME NEW i \in DOMAIN history  PROVE history[i].entries \in 1..Budget
  <2>1. history[i] \in Recollections
    BY DEF TurnsInv, HistoryTyped
  <2> QED BY <2>1 DEF Recollections
<1>2. /\ turn \in [Messages -> {"new", "ignored", "failed", "dispatched", "accepting", "registered"}]
      /\ scheduled \in [Messages -> Nat] /\ told \in [Messages -> Nat] /\ pending \subseteq Messages
  BY DEF TurnsInv, RepliesInv, Stages
<1>3. LoopTyped /\ EventsTyped /\ BufferTyped /\ Len(history) <= MaxConversations
  BY DEF TurnsInv, HistoryTyped
<1> QED BY <1>1, <1>2, <1>3, Zenon DEF LoopTyped, EventsTyped, BufferTyped, CallbackTypes, T!TypeOK

-----------------------------------------------------------------------------
(* Settings: what a restart would read.                                    *)

Stores == [policies  : [Guilds -> S!Policy \cup {Absent}],
           overrides : [Guilds \X Channels -> S!Override \cup {Absent}]]
GuildEntry == [policy : S!Policy, channels : [Channels -> S!Override \cup {Absent}]]
SettingsFiles == [Guilds -> GuildEntry \cup {Absent}]

\* Two stores nobody can tell apart: a policy that is absent is the default.
Alike(s, r) == s.overrides = r.overrides /\ \A g \in Guilds : S!PolicyOf(s, g) = S!PolicyOf(r, g)

\* Memory may be ahead of a file only while the last save of that file failed.
SettingsInv ==
    /\ store \in Stores /\ file \in SettingsFiles
    /\ "settings" \notin failed => Alike(S!Loaded(file), store)
    /\ "acks" \notin failed => ackFile = acks

LEMMA DefaultIsPolicy == S!DefaultPolicy \in S!Policy
BY DEF S!DefaultPolicy, S!Policy

LEMMA PolicyOfIsPolicy ==
    ASSUME NEW s \in Stores, NEW g \in Guilds PROVE S!PolicyOf(s, g) \in S!Policy
BY DefaultIsPolicy DEF Stores, S!PolicyOf

LEMMA LoadedIsStore == ASSUME NEW f \in SettingsFiles PROVE S!Loaded(f) \in Stores
<1>1. ASSUME NEW g \in Guilds PROVE (IF f[g] = Absent THEN Absent ELSE f[g].policy) \in S!Policy \cup {Absent}
  BY DEF SettingsFiles, GuildEntry
<1>2. ASSUME NEW x \in Guilds \X Channels
      PROVE  (IF f[x[1]] = Absent THEN Absent ELSE f[x[1]].channels[x[2]]) \in S!Override \cup {Absent}
  BY DEF SettingsFiles, GuildEntry
<1> QED BY <1>1, <1>2 DEF S!Loaded, Stores

\* _save and _load: what comes back is like what was saved.
LEMMA SavedIsLoaded ==
    ASSUME NEW s \in Stores
    PROVE  S!Serialized(s) \in SettingsFiles /\ Alike(S!Loaded(S!Serialized(s)), s)
<1> DEFINE f == S!Serialized(s)
           l == S!Loaded(f)
           entry(g) == [policy |-> S!PolicyOf(s, g), channels |-> S!OverridesOf(s, g)]
           bare(g) == s.policies[g] = Absent /\ \A c \in Channels : s.overrides[<<g, c>>] = Absent
<1>1. \A g \in Guilds : f[g] = IF bare(g) THEN Absent ELSE entry(g)
  BY DEF S!Serialized
<1>2. ASSUME NEW g \in Guilds PROVE entry(g) \in GuildEntry /\ entry(g) # Absent
  <2>1. S!OverridesOf(s, g) \in [Channels -> S!Override \cup {Absent}]
    BY DEF S!OverridesOf, Stores
  <2>2. entry(g) \in GuildEntry
    BY <2>1, PolicyOfIsPolicy DEF GuildEntry
  <2> QED BY <2>2, DiscordAssumption DEF GuildEntry
<1>3. f \in SettingsFiles
  BY <1>2 DEF S!Serialized, SettingsFiles
<1>4. /\ l.policies = [g \in Guilds |-> IF f[g] = Absent THEN Absent ELSE f[g].policy]
      /\ l.overrides = [x \in Guilds \X Channels |-> IF f[x[1]] = Absent THEN Absent ELSE f[x[1]].channels[x[2]]]
  BY DEF S!Loaded
<1> HIDE DEF f, l
<1>5. ASSUME NEW g \in Guilds PROVE S!PolicyOf(l, g) = S!PolicyOf(s, g)
  <2>1. CASE bare(g)
    BY <1>1, <1>4, <2>1 DEF S!PolicyOf
  <2>2. CASE ~bare(g)
    <3>1. f[g] = entry(g) /\ f[g] # Absent
      BY <1>1, <1>2, <2>2
    <3>2. l.policies[g] = f[g].policy
      BY <1>4, <3>1
    <3>3. l.policies[g] = S!PolicyOf(s, g)
      BY <3>1, <3>2
    <3> QED BY <3>3 DEF S!PolicyOf
  <2> QED BY <2>1, <2>2
<1>6. ASSUME NEW g \in Guilds, NEW c \in Channels PROVE l.overrides[<<g, c>>] = s.overrides[<<g, c>>]
  <2>1. l.overrides[<<g, c>>] = IF f[g] = Absent THEN Absent ELSE f[g].channels[c]
    BY <1>4
  <2>2. CASE bare(g)
    BY <1>1, <2>1, <2>2
  <2>3. CASE ~bare(g)
    <3>1. f[g] = entry(g) /\ f[g] # Absent
      BY <1>1, <1>2, <2>3
    <3>2. l.overrides[<<g, c>>] = S!OverridesOf(s, g)[c]
      BY <2>1, <3>1
    <3> QED BY <3>2 DEF S!OverridesOf
  <2> QED BY <2>2, <2>3
<1>7. l.overrides = s.overrides
  <2>1. /\ DOMAIN l.overrides = Guilds \X Channels /\ DOMAIN s.overrides = Guilds \X Channels
        /\ l.overrides = [x \in DOMAIN l.overrides |-> l.overrides[x]]
        /\ s.overrides = [x \in DOMAIN s.overrides |-> s.overrides[x]]
    BY <1>4 DEF Stores
  <2>2. ASSUME NEW x \in Guilds \X Channels PROVE l.overrides[x] = s.overrides[x]
    BY <1>6
  <2> QED BY <2>1, <2>2
<1> QED BY <1>3, <1>5, <1>7 DEF Alike, f, l

LEMMA SettingsInit == ASSUME S!Init PROVE SettingsInv
<1>1. store \in Stores /\ file \in SettingsFiles
  BY DEF S!Init, S!Empty, S!NoFile, Stores, SettingsFiles
<1>2. Alike(S!Loaded(file), store)
  BY DEF S!Init, S!Empty, S!NoFile, Alike, S!Loaded, S!PolicyOf
<1> QED BY <1>1, <1>2 DEF S!Init, SettingsInv

LEMMA SaveKeeps ==
    ASSUME SettingsInv, store' \in Stores, S!Save(store'), UNCHANGED <<acks, ackFile>>
    PROVE  SettingsInv'
<1>1. CASE file' = S!Serialized(store') /\ failed' = failed \ {"settings"}
  BY <1>1, SavedIsLoaded DEF SettingsInv
<1>2. CASE file' = file /\ failed' = failed \cup {"settings"}
  BY <1>2 DEF SettingsInv
<1> QED BY <1>1, <1>2 DEF S!Save

\* _update: a change that is not saved is none.
LEMMA UpdateKeeps ==
    ASSUME SettingsInv, NEW g \in Guilds, NEW p \in S!Policy, NEW saved \in BOOLEAN, S!Update(g, p, saved),
           ~saved => p = S!PolicyOf(store, g), UNCHANGED <<acks, ackFile>>
    PROVE  SettingsInv'
<1>1. /\ store' \in Stores /\ store'.overrides = store.overrides
      /\ store'.policies = [store.policies EXCEPT ![g] = p]
  BY DEF S!Update, SettingsInv, Stores
<1>2. CASE saved
  BY <1>1, <1>2, SaveKeeps DEF S!Update
<1>3. CASE ~saved
  <2>1. UNCHANGED <<file, failed>>
    BY <1>3 DEF S!Update
  <2>2. \A h \in Guilds : S!PolicyOf(store', h) = S!PolicyOf(store, h)
    BY <1>1, <1>3 DEF S!PolicyOf, SettingsInv, Stores
  <2> QED BY <1>1, <2>1, <2>2 DEF SettingsInv, Alike
<1> QED BY <1>2, <1>3

LEMMA SetPolicyKeeps == ASSUME SettingsInv, NEW g \in Guilds, S!SetPolicy(g) PROVE SettingsInv'
<1>1. S!PolicyOf(store, g) \in S!Policy
  BY PolicyOfIsPolicy DEF SettingsInv
<1>2. \E p \in S!Policy : S!Update(g, p, TRUE)
  BY <1>1 DEF S!SetPolicy, S!Policy
<1> QED BY <1>2, UpdateKeeps DEF S!SetPolicy, S!Command

LEMMA SetUsersKeeps ==
    ASSUME SettingsInv, NEW g \in Guilds, NEW users \in SUBSET Users, S!SetUsers(g, users) PROVE SettingsInv'
<1> DEFINE p == S!PolicyOf(store, g)
<1>1. p \in S!Policy
  BY PolicyOfIsPolicy DEF SettingsInv
<1>2. S!Update(g, [p EXCEPT !.users = users], users # p.users) /\ UNCHANGED <<acks, ackFile>>
  BY DEF S!SetUsers, S!Command
<1> HIDE DEF p
<1>3. [p EXCEPT !.users = users] \in S!Policy /\ (users = p.users => [p EXCEPT !.users = users] = p)
  BY <1>1 DEF S!Policy
<1> QED BY <1>2, <1>3, UpdateKeeps DEF p

LEMMA SetChannelsKeeps ==
    ASSUME SettingsInv, NEW g \in Guilds, NEW channels \in SUBSET Channels, S!SetChannels(g, channels)
    PROVE  SettingsInv'
<1> DEFINE p == S!PolicyOf(store, g)
<1>1. p \in S!Policy
  BY PolicyOfIsPolicy DEF SettingsInv
<1>2. S!Update(g, [p EXCEPT !.channels = channels], channels # p.channels) /\ UNCHANGED <<acks, ackFile>>
  BY DEF S!SetChannels, S!Command
<1> HIDE DEF p
<1>3. [p EXCEPT !.channels = channels] \in S!Policy /\ (channels = p.channels => [p EXCEPT !.channels = channels] = p)
  BY <1>1 DEF S!Policy
<1> QED BY <1>2, <1>3, UpdateKeeps DEF p

LEMMA MemberCommandsKeep ==
    ASSUME SettingsInv, NEW g \in Guilds,
           \/ S!ClearUsers(g) \/ S!ClearChannels(g)
           \/ \E u \in Users : S!AddUser(g, u) \/ S!RemoveUser(g, u)
           \/ \E c \in Channels : S!AddChannel(g, c) \/ S!RemoveChannel(g, c)
    PROVE  SettingsInv'
<1>1. S!PolicyOf(store, g).users \in SUBSET Users /\ S!PolicyOf(store, g).channels \in SUBSET Channels
  BY PolicyOfIsPolicy DEF SettingsInv, S!Policy
<1>2. (\E users \in SUBSET Users : S!SetUsers(g, users)) \/ \E channels \in SUBSET Channels : S!SetChannels(g, channels)
  BY <1>1 DEF S!ClearUsers, S!ClearChannels, S!AddUser, S!RemoveUser, S!AddChannel, S!RemoveChannel
<1> QED BY <1>2, SetUsersKeeps, SetChannelsKeeps

LEMMA SetOverrideKeeps ==
    ASSUME SettingsInv, NEW g \in Guilds, NEW c \in Channels, NEW o \in S!Override, S!SetOverride(g, c, o)
    PROVE  SettingsInv'
<1>1. store' \in Stores
  BY DEF S!SetOverride, SettingsInv, Stores
<1> QED BY <1>1, SaveKeeps DEF S!SetOverride, S!Command

LEMMA SettingsStep == ASSUME SettingsInv, [S!Next]_S!vars PROVE SettingsInv'
<1>1. ASSUME S!Restart PROVE SettingsInv'
  BY <1>1, LoadedIsStore DEF S!Restart, SettingsInv, Alike
<1>2. ASSUME NEW g \in Guilds, NEW c \in Channels, NEW t, S!SetAcknowledgement(g, c, t) PROVE SettingsInv'
  BY <1>2 DEF S!SetAcknowledgement, SettingsInv
<1>3. ASSUME UNCHANGED S!vars PROVE SettingsInv'
  BY <1>3 DEF S!vars, SettingsInv
<1> QED BY <1>1, <1>2, <1>3, SetPolicyKeeps, MemberCommandsKeep, SetOverrideKeeps DEF S!Next

LEMMA AlikeTellsTheSame ==
    ASSUME NEW s, NEW r, Alike(s, r)
    PROVE  /\ \A g \in Guilds, c \in Channels :
                  /\ S!Inspection(s, g, c) = S!Inspection(r, g, c)
                  /\ \A u \in Users : S!Allowed(s, g, u, c) <=> S!Allowed(r, g, u, c)
           /\ \A u \in Users : S!AllowedPrivately(s, u) <=> S!AllowedPrivately(r, u)
           /\ S!RequiresContent(s) <=> S!RequiresContent(r)
BY DEF Alike, S!Inspection, S!Allowed, S!AllowedPrivately, S!RequiresContent

\* For any guilds, users and channels and any number of commands, each saved or not: unless a save
\* failed, a restart changes nothing that a user or a channel can tell.
THEOREM RestartsKeepSettings == MCSpec => []RestartKeepsSettings
<1>1. MCInit => SettingsInv
  BY SettingsInit DEF MCInit
<1>2. SettingsInv /\ [MCNext]_mcVars => SettingsInv'
  <2>1. [MCNext]_mcVars => [S!Next]_S!vars
    BY DEF MCNext, mcVars, settingsVars, S!vars
  <2> QED BY <2>1, SettingsStep
<1>3. SettingsInv => RestartKeepsSettings
  BY AlikeTellsTheSame DEF SettingsInv, RestartKeepsSettings, S!RestartKeepsSettings
<1> QED BY <1>1, <1>2, <1>3, PTL DEF MCSpec

-----------------------------------------------------------------------------
(* Settings: types.                                                        *)

SettingsTyped ==
    failed \subseteq {"settings", "acks"} /\ changes \in 0..MaxChanges /\ answered \subseteq Guilds \X Users

LEMMA SavesTyped ==
    ASSUME SettingsTyped, NEW g, NEW p, NEW saved, S!Update(g, p, saved)
    PROVE  failed' \subseteq {"settings", "acks"}
<1>1. CASE UNCHANGED failed
  BY <1>1 DEF SettingsTyped
<1>2. CASE S!Save(store')
  BY <1>2 DEF S!Save, SettingsTyped
<1> QED BY <1>1, <1>2 DEF S!Update

LEMMA CommandsTyped == ASSUME SettingsTyped, S!Command  PROVE changes' \in 0..MaxChanges
<1>1. changes < MaxChanges /\ changes' = changes + 1
  BY DEF S!Command
<1> QED BY <1>1, DiscordAssumption DEF SettingsTyped

LEMMA SetUsersTyped ==
    ASSUME SettingsTyped, NEW g \in Guilds, NEW users \in SUBSET Users, S!SetUsers(g, users)
    PROVE  SettingsTyped'
<1>1. changes' \in 0..MaxChanges
  BY CommandsTyped DEF S!SetUsers
<1>2. failed' \subseteq {"settings", "acks"}
  BY SavesTyped, Zenon DEF S!SetUsers
<1>3. answered' \in {answered, (answered \ ({g} \X Users)) \cup ({g} \X users)}
  BY DEF S!SetUsers
<1>4. answered' \subseteq Guilds \X Users
  BY <1>3 DEF SettingsTyped
<1> QED BY <1>1, <1>2, <1>4 DEF SettingsTyped

LEMMA SettingsTypedInit == S!Init => SettingsTyped
<1>1. 0 \in 0..MaxChanges
  BY DiscordAssumption
<1> QED BY <1>1 DEF S!Init, SettingsTyped

LEMMA SettingsTypedStep == SettingsInv /\ SettingsTyped /\ [S!Next]_(S!vars) => SettingsTyped'
<1> SUFFICES ASSUME SettingsInv, SettingsTyped, [S!Next]_(S!vars)  PROVE SettingsTyped'
  OBVIOUS
<1>1. ASSUME NEW g \in Guilds, S!SetPolicy(g)  PROVE SettingsTyped'
  <2>1. S!Command /\ UNCHANGED answered /\ \E p : S!Update(g, p, TRUE)
    BY <1>1 DEF S!SetPolicy
  <2> QED BY <2>1, CommandsTyped, SavesTyped DEF SettingsTyped
<1>2. ASSUME NEW g \in Guilds, NEW channels, S!SetChannels(g, channels)  PROVE SettingsTyped'
  <2>1. S!Command /\ UNCHANGED answered /\ \E p, saved : S!Update(g, p, saved)
    BY <1>2, Zenon DEF S!SetChannels
  <2> QED BY <2>1, CommandsTyped, SavesTyped DEF SettingsTyped
<1>3. ASSUME NEW g \in Guilds, NEW u \in Users, S!AddUser(g, u) \/ S!RemoveUser(g, u)  PROVE SettingsTyped'
  <2>1. S!PolicyOf(store, g).users \in SUBSET Users
    <3>1. S!PolicyOf(store, g) \in S!Policy
      BY PolicyOfIsPolicy DEF SettingsInv
    <3> QED BY <3>1 DEF S!Policy
  <2>2. S!PolicyOf(store, g).users \cup {u} \in SUBSET Users /\ S!PolicyOf(store, g).users \ {u} \in SUBSET Users
    BY <2>1
  <2> QED BY <1>3, <2>2, SetUsersTyped DEF S!AddUser, S!RemoveUser
<1>4. ASSUME NEW g \in Guilds, S!ClearUsers(g)  PROVE SettingsTyped'
  BY <1>4, SetUsersTyped DEF S!ClearUsers
<1>5. ASSUME NEW g \in Guilds, NEW c \in Channels, NEW o \in S!Override, S!SetOverride(g, c, o)  PROVE SettingsTyped'
  <2>1. S!Command /\ UNCHANGED answered /\ S!Save(store')
    BY <1>5 DEF S!SetOverride
  <2>2. failed' \subseteq {"settings", "acks"}
    BY <2>1 DEF S!Save, SettingsTyped
  <2> QED BY <2>1, <2>2, CommandsTyped DEF SettingsTyped
<1>6. ASSUME NEW g \in Guilds, NEW c \in Channels, NEW t, S!SetAcknowledgement(g, c, t)  PROVE SettingsTyped'
  <2>1. changes < MaxChanges /\ changes' = changes + 1 /\ UNCHANGED answered /\ failed' \subseteq failed \cup {"acks"}
    BY <1>6 DEF S!SetAcknowledgement
  <2>2. changes' \in 0..MaxChanges
    BY <2>1, DiscordAssumption DEF SettingsTyped
  <2> QED BY <2>1, <2>2 DEF SettingsTyped
<1>7. CASE S!Restart
  BY <1>7 DEF S!Restart, SettingsTyped
<1>8. CASE UNCHANGED S!vars
  BY <1>8 DEF S!vars, SettingsTyped
<1> QED BY <1>1, <1>2, <1>3, <1>4, <1>5, <1>6, <1>7, <1>8
        DEF S!Next, S!AddChannel, S!RemoveChannel, S!ClearChannels

LEMMA SettingsAreTyped == SettingsInv /\ SettingsTyped => S!TypeOK
<1> SUFFICES ASSUME SettingsInv, SettingsTyped  PROVE S!TypeOK
  OBVIOUS
<1>1. ASSUME NEW g \in Guilds  PROVE store.policies[g] = Absent \/ store.policies[g] \in S!Policy
  BY DEF SettingsInv, Stores
<1>2. ASSUME NEW x \in Guilds \X Channels  PROVE store.overrides[x] = Absent \/ store.overrides[x] \in S!Override
  BY DEF SettingsInv, Stores
<1>3. ASSUME NEW g \in Guilds  PROVE file[g] = Absent \/ file[g].policy \in S!Policy
  BY DEF SettingsInv, SettingsFiles, GuildEntry
<1> QED BY <1>1, <1>2, <1>3 DEF SettingsTyped, S!TypeOK

-----------------------------------------------------------------------------
(* The audit: which entries each file has.  The newest entry of file k and *)
(* of the older ones is b[k], so file k has the entries b[k + 1] + 1 to    *)
(* b[k], and what is kept is b[MaxFiles] + 1 to last.                      *)

Logs == 0..MaxFiles - 1
Newest == [0..MaxFiles -> Nat]

Has(s, from, to) == Len(s) = to - from /\ \A i \in 1..Len(s) : s[i] = from + i

\* The files split what is kept, in order and without a gap.
Split(b) ==
    /\ b[0] = last
    /\ \A j, k \in 0..MaxFiles : j <= k => b[k] <= b[j]
    /\ \A k \in Logs : Has(files[k], b[k + 1], b[k])
    /\ \A x \in Nat : b[MaxFiles] < x /\ x <= b[0] => \E k \in Logs : b[k + 1] < x /\ x <= b[k]

\* What is gone, and what must not be: a log is full when the oldest file is removed, and
\* what is moved goes where nothing is.
Enough(b) ==
    /\ b[MaxFiles] = 0 \/ b[0] - b[MaxFiles] >= PerFile
    /\ step = "unlink" => Len(files[0]) = PerFile
    /\ step = "shift" => index \in 0..MaxFiles - 2 /\ files[index + 1] = <<>>

AuditInv ==
    /\ files \in [Logs -> Seq(Nat)] /\ last \in Nat
    /\ \E b \in Newest : Split(b) /\ Enough(b)

LEMMA Sizes == MaxFiles \in Nat /\ MaxFiles >= 2 /\ PerFile \in Nat \ {0}
BY DiscordAssumption

\* The numbers of the files and of their bounds.
LEMMA Numbers ==
    /\ 0 \in Logs /\ MaxFiles - 1 \in Logs
    /\ 0 \in 0..MaxFiles /\ 1 \in 0..MaxFiles /\ MaxFiles \in 0..MaxFiles /\ MaxFiles - 1 \in 0..MaxFiles
    /\ \A k \in Logs : k \in Nat /\ k < MaxFiles /\ k \in 0..MaxFiles /\ k + 1 \in 0..MaxFiles /\ k + 1 # 0
BY Sizes DEF Logs

LEMMA HasNothing == \A n \in Nat : Has(<<>>, n, n)
BY DEF Has

LEMMA AuditInit == ASSUME A!Init PROVE AuditInv
<1> DEFINE b == [k \in 0..MaxFiles |-> 0]
<1>1. files \in [Logs -> Seq(Nat)] /\ last = 0 /\ step = "idle" /\ \A k \in Logs : files[k] = <<>>
  BY DEF A!Init, Logs
<1>2. b \in Newest /\ \A k \in 0..MaxFiles : b[k] = 0
  BY DEF Newest
<1> HIDE DEF b
<1>3. \A k \in Logs : Has(files[k], b[k + 1], b[k])
  BY <1>1, <1>2, Numbers, HasNothing
<1>4. b[0] = 0 /\ b[MaxFiles] = 0
  BY <1>2, Numbers
<1>5. Split(b)
  BY <1>1, <1>2, <1>3, <1>4 DEF Split
<1>6. Enough(b)
  BY <1>1, <1>4 DEF Enough
<1> QED BY <1>1, <1>2, <1>5, <1>6 DEF AuditInv

LEMMA RecordAudit == ASSUME AuditInv, A!Record PROVE AuditInv'
<1>1. PICK b \in Newest : Split(b) /\ Enough(b)
  BY DEF AuditInv
<1>2. UNCHANGED <<files, index, last>> /\ step' \in {"unlink", "write"} /\ (step' = "unlink" => Len(files[0]) = PerFile)
  BY DEF A!Record
<1>3. Split(b)' /\ Enough(b)'
  BY <1>1, <1>2 DEF Split, Enough
<1> QED BY <1>2, <1>3 DEF AuditInv

LEMMA FailAudit == ASSUME AuditInv, A!Fail PROVE AuditInv'
<1>1. PICK b \in Newest : Split(b) /\ Enough(b)
  BY DEF AuditInv
<1>2. UNCHANGED <<files, index, last>> /\ step' = "idle"
  BY DEF A!Fail
<1>3. Split(b)' /\ Enough(b)'
  BY <1>1, <1>2 DEF Split, Enough
<1> QED BY <1>2, <1>3 DEF AuditInv

\* The oldest file goes: what is kept begins after it, and the log is still full.
LEMMA UnlinkAudit == ASSUME AuditInv, A!Unlink PROVE AuditInv'
<1>1. PICK b \in Newest : Split(b) /\ Enough(b)
  BY DEF AuditInv
<1> DEFINE m == MaxFiles - 1
           c == [b EXCEPT ![MaxFiles] = b[m]]
<1>2. /\ step = "unlink" /\ files' = [files EXCEPT ![m] = <<>>] /\ last' = last
      /\ step' = "shift" /\ index' = MaxFiles - 2
  BY Sizes DEF A!Unlink
<1>3. m \in Nat /\ m >= 1 /\ m \in Logs /\ m \in 0..MaxFiles /\ MaxFiles = m + 1
  BY Sizes DEF Logs
<1>4. files' \in [Logs -> Seq(Nat)] /\ files'[m] = <<>> /\ \A k \in Logs \ {m} : files'[k] = files[k]
  BY <1>2, <1>3 DEF AuditInv
<1>5. /\ c \in Newest /\ c[MaxFiles] = b[m] /\ b[m] \in Nat
      /\ \A k \in 0..MaxFiles : b[k] \in Nat /\ (k # MaxFiles => c[k] = b[k])
  BY <1>3, Numbers DEF Newest
<1>6. index' \in 0..MaxFiles - 2 /\ index' + 1 = m
  BY <1>2, Sizes
<1> HIDE DEF m, c
<1>7. last - b[m] >= PerFile
  <2>1. Len(files[0]) = b[1] * (-1) + b[0] /\ Len(files[0]) = PerFile /\ b[0] = last /\ b[m] <= b[1]
    BY <1>1, <1>2, <1>3, <1>5, Numbers DEF Split, Enough, Has
  <2> QED BY <1>3, <1>5, <2>1, Numbers
<1>8. Split(c)'
  <2>1. c[0] = last'
    <3>1. b[0] = last
      BY <1>1 DEF Split
    <3> QED BY <1>2, <1>5, <3>1, Numbers, Sizes
  <2>2. ASSUME NEW j \in 0..MaxFiles, NEW k \in 0..MaxFiles, j <= k PROVE c[k] <= c[j]
    <3>1. CASE k # MaxFiles
      BY <1>1, <1>5, <2>2, <3>1 DEF Split
    <3>2. CASE k = MaxFiles /\ j # MaxFiles
      <4>1. j <= m
        BY <1>3, <3>2
      <4> QED BY <1>1, <1>3, <1>5, <3>2, <4>1 DEF Split
    <3>3. CASE k = MaxFiles /\ j = MaxFiles
      BY <1>5, <3>3
    <3> QED BY <3>1, <3>2, <3>3
  <2>3. ASSUME NEW k \in Logs PROVE Has(files'[k], c[k + 1], c[k])
    <3>1. CASE k = m
      <4>1. c[k + 1] = b[m] /\ c[k] = b[m] /\ files'[k] = <<>>
        BY <1>3, <1>4, <1>5, <3>1
      <4> QED BY <1>5, <4>1, HasNothing
    <3>2. CASE k # m
      <4>1. k \in 0..MaxFiles /\ k + 1 \in 0..MaxFiles /\ k # MaxFiles /\ k + 1 # MaxFiles
        BY <1>3, <3>2, Numbers
      <4> QED BY <1>1, <1>4, <1>5, <3>2, <4>1 DEF Split
    <3> QED BY <3>1, <3>2
  <2>4. ASSUME NEW x \in Nat, c[MaxFiles] < x, x <= c[0] PROVE \E k \in Logs : c[k + 1] < x /\ x <= c[k]
    <3>1. b[m] < x /\ x <= b[0] /\ b[MaxFiles] <= b[m]
      BY <1>1, <1>3, <1>5, <2>4, Numbers, Sizes DEF Split
    <3>2. PICK k \in Logs : b[k + 1] < x /\ x <= b[k]
      <4>1. b[MaxFiles] \in Nat
        BY <1>5, Numbers
      <4>2. b[MaxFiles] < x
        BY <1>5, <3>1, <4>1
      <4> QED BY <1>1, <3>1, <4>2 DEF Split
    <3>3. k # m
      BY <1>5, <3>1, <3>2
    <3>4. k \in 0..MaxFiles /\ k + 1 \in 0..MaxFiles /\ k # MaxFiles /\ k + 1 # MaxFiles
      BY <1>3, <3>3, Numbers
    <3> QED BY <1>5, <3>2, <3>4
  <2> QED BY <2>1, <2>2, <2>3, <2>4 DEF Split
<1>9. Enough(c)'
  <2>1. c[0] = last /\ c[MaxFiles] = b[m]
    BY <1>1, <1>5, Numbers, Sizes DEF Split
  <2> QED BY <1>2, <1>4, <1>6, <1>7, <2>1 DEF Enough
<1> QED BY <1>2, <1>4, <1>5, <1>8, <1>9 DEF AuditInv

\* A file moves up, to where nothing is.
LEMMA ShiftAudit == ASSUME AuditInv, A!Shift PROVE AuditInv'
<1>1. PICK b \in Newest : Split(b) /\ Enough(b)
  BY DEF AuditInv
<1>0. PICK m : m = index
  OBVIOUS
<1> DEFINE c == [b EXCEPT ![m + 1] = b[m]]
<1>2. step = "shift" /\ files' = A!Moved(m) /\ last' = last
  BY <1>0 DEF A!Shift
<1>3. /\ m \in Nat /\ m + 2 <= MaxFiles /\ m \in Logs /\ m + 1 \in Logs /\ m # m + 1
      /\ m \in 0..MaxFiles /\ m + 1 \in 0..MaxFiles /\ m + 2 \in 0..MaxFiles
      /\ files[m + 1] = <<>>
  BY <1>0, <1>1, <1>2, Sizes DEF Enough, Logs
<1>4. /\ files' \in [Logs -> Seq(Nat)] /\ files'[m] = <<>> /\ files'[m + 1] = files[m]
      /\ \A k \in Logs \ {m, m + 1} : files'[k] = files[k]
  <2>1. CASE files[m] = <<>>
    BY <1>2, <1>3, <2>1 DEF A!Moved, AuditInv
  <2>2. CASE files[m] # <<>>
    <3>1. files' = [files EXCEPT ![m + 1] = files[m], ![m] = <<>>]
      BY <1>2, <2>2 DEF A!Moved
    <3> QED BY <1>3, <3>1 DEF AuditInv
  <2> QED BY <2>1, <2>2
<1>5. /\ c \in Newest /\ c[m + 1] = b[m] /\ b[m] \in Nat
      /\ \A k \in 0..MaxFiles : b[k] \in Nat /\ (k # m + 1 => c[k] = b[k])
  BY <1>3 DEF Newest
<1>6. step' = "shift" => index' \in 0..MaxFiles - 2 /\ index' + 1 = m
  BY <1>0, <1>3, Sizes DEF A!Shift
<1>7. step' \in {"shift", "write"}
  BY <1>2 DEF A!Shift
<1> HIDE DEF c
<1>8. b[m + 2] = b[m + 1]
  <2>1. (m + 1) + 1 = m + 2 /\ Has(files[m + 1], b[(m + 1) + 1], b[m + 1])
    BY <1>1, <1>3 DEF Split
  <2>2. 0 = b[m + 1] - b[m + 2]
    BY <1>3, <2>1 DEF Has
  <2> QED BY <1>3, <1>5, <2>2
<1>9. c[0] = b[0] /\ c[MaxFiles] = b[MaxFiles]
  BY <1>3, <1>5, Numbers, Sizes
<1>10. Split(c)'
  <2>1. c[0] = last'
    BY <1>1, <1>2, <1>9 DEF Split
  <2>2. ASSUME NEW j \in 0..MaxFiles, NEW k \in 0..MaxFiles, j <= k PROVE c[k] <= c[j]
    <3>1. CASE j # m + 1 /\ k # m + 1
      BY <1>1, <1>5, <2>2, <3>1 DEF Split
    <3>2. CASE j = m + 1
      <4>1. m <= k
        BY <1>3, <2>2, <3>2
      <4> QED BY <1>1, <1>3, <1>5, <3>2, <4>1 DEF Split
    <3>3. CASE k = m + 1 /\ j # m + 1
      <4>1. j <= m
        BY <1>3, <2>2, <3>3
      <4> QED BY <1>1, <1>3, <1>5, <3>3, <4>1 DEF Split
    <3> QED BY <3>1, <3>2, <3>3
  <2>3. ASSUME NEW k \in Logs PROVE Has(files'[k], c[k + 1], c[k])
    <3>1. CASE k = m
      <4>1. c[k + 1] = b[m] /\ c[k] = b[m] /\ files'[k] = <<>>
        BY <1>3, <1>4, <1>5, <3>1
      <4> QED BY <1>5, <4>1, HasNothing
    <3>2. CASE k = m + 1
      <4>1. k + 1 = m + 2 /\ m + 2 # m + 1
        BY <1>3, <3>2
      <4>2. c[k + 1] = b[m + 1] /\ c[k] = b[m] /\ files'[k] = files[m]
        BY <1>3, <1>4, <1>5, <1>8, <3>2, <4>1
      <4> QED BY <1>1, <1>3, <4>2 DEF Split
    <3>3. CASE k \notin {m, m + 1}
      <4>1. k \in 0..MaxFiles /\ k + 1 \in 0..MaxFiles /\ k # m + 1 /\ k + 1 # m + 1
        BY <1>3, <3>3, Numbers
      <4> QED BY <1>1, <1>4, <1>5, <3>3, <4>1 DEF Split
    <3> QED BY <3>1, <3>2, <3>3
  <2>4. ASSUME NEW x \in Nat, c[MaxFiles] < x, x <= c[0] PROVE \E k \in Logs : c[k + 1] < x /\ x <= c[k]
    <3>1. PICK k \in Logs : b[k + 1] < x /\ x <= b[k]
      BY <1>1, <1>9, <2>4 DEF Split
    <3>2. CASE k = m + 1
      <4>1. k + 1 = m + 2
        BY <1>3, <3>2
      <4> QED BY <1>3, <1>5, <1>8, <3>1, <3>2, <4>1
    <3>3. CASE k = m
      <4>1. (m + 1) + 1 = m + 2 /\ c[m + 2] = b[m + 1] /\ c[m + 1] = b[m]
        BY <1>3, <1>5, <1>8
      <4> QED BY <1>3, <3>1, <3>3, <4>1
    <3>4. CASE k \notin {m, m + 1}
      <4>1. k \in 0..MaxFiles /\ k + 1 \in 0..MaxFiles /\ k # m + 1 /\ k + 1 # m + 1
        BY <1>3, <3>4, Numbers
      <4> QED BY <1>5, <3>1, <4>1
    <3> QED BY <3>2, <3>3, <3>4
  <2> QED BY <2>1, <2>2, <2>3, <2>4 DEF Split
<1>11. Enough(c)'
  BY <1>1, <1>4, <1>6, <1>7, <1>9 DEF Enough
<1> QED BY <1>2, <1>4, <1>5, <1>10, <1>11 DEF AuditInv

\* One entry more, behind those a file has.
LEMMA HasOneMore ==
    ASSUME NEW s \in Seq(Nat), NEW from \in Nat, NEW to \in Nat, Has(s, from, to)
    PROVE  Has(Append(s, to + 1), from, to + 1)
<1> DEFINE t == Append(s, to + 1)
<1>1. Len(s) \in Nat /\ Len(s) = to - from /\ \A i \in 1..Len(s) : s[i] = from + i
  BY DEF Has
<1>2. Len(t) = Len(s) + 1 /\ t[Len(s) + 1] = to + 1 /\ \A i \in 1..Len(s) : t[i] = s[i]
  OBVIOUS
<1> HIDE DEF t
<1>3. Len(t) = (to + 1) - from
  BY <1>1, <1>2
<1>4. ASSUME NEW i \in 1..Len(t) PROVE t[i] = from + i
  <2>1. CASE i = Len(s) + 1
    BY <1>1, <1>2, <2>1
  <2>2. CASE i # Len(s) + 1
    <3>1. i \in 1..Len(s)
      BY <1>1, <1>2, <2>2
    <3> QED BY <1>1, <1>2, <3>1
  <2> QED BY <2>1, <2>2
<1> QED BY <1>3, <1>4 DEF Has, t

LEMMA WriteAudit == ASSUME AuditInv, A!Write PROVE AuditInv'
<1>1. PICK b \in Newest : Split(b) /\ Enough(b)
  BY DEF AuditInv
<1>0. PICK new, e : new = Append(files[0], e) /\ e = last + 1
  OBVIOUS
<1> DEFINE c == [b EXCEPT ![0] = e]
<1>2. files' = [files EXCEPT ![0] = new] /\ last' = last + 1 /\ step' = "idle"
  BY <1>0 DEF A!Write
<1>3. last \in Nat /\ files[0] \in Seq(Nat) /\ Len(files[0]) \in Nat
  BY Numbers DEF AuditInv
<1>4. /\ e = last + 1 /\ e \in Nat /\ new \in Seq(Nat) /\ Len(new) = Len(files[0]) + 1 /\ new[Len(files[0]) + 1] = last + 1
      /\ \A i \in 1..Len(files[0]) : new[i] = files[0][i]
  BY <1>0, <1>3
<1>5. files' \in [Logs -> Seq(Nat)] /\ files'[0] = new /\ \A k \in Logs \ {0} : files'[k] = files[k]
  BY <1>2, <1>4, Numbers DEF AuditInv
<1>6. /\ c \in Newest /\ c[0] = last + 1 /\ b[0] = last
      /\ \A k \in 0..MaxFiles : b[k] \in Nat /\ (k # 0 => c[k] = b[k])
  <2>1. c \in Newest /\ c[0] = e /\ \A k \in 0..MaxFiles : k # 0 => c[k] = b[k]
    BY <1>4, Numbers DEF Newest
  <2>2. b[0] = last
    BY <1>1 DEF Split
  <2> QED BY <1>4, <2>1, <2>2 DEF Newest
<1> HIDE DEF c
<1>7. Split(c)'
  <2>1. c[0] = last'
    BY <1>2, <1>6
  <2>2. ASSUME NEW j \in 0..MaxFiles, NEW k \in 0..MaxFiles, j <= k PROVE c[k] <= c[j]
    <3>1. b[k] <= b[j] /\ b[k] \in Nat /\ b[j] \in Nat /\ (k = 0 => j = 0)
      BY <1>1, <1>6, <2>2 DEF Split
    <3> QED BY <1>3, <1>6, <3>1
  <2>3. ASSUME NEW k \in Logs PROVE Has(files'[k], c[k + 1], c[k])
    <3>1. CASE k = 0
      <4>1. 0 + 1 = 1 /\ Has(files[0], b[0 + 1], b[0])
        BY <1>1, Numbers DEF Split
      <4>2. Has(files[0], b[1], last) /\ b[1] \in Nat
        BY <1>6, <4>1, Numbers
      <4>3. Has(new, b[1], last + 1)
        BY <1>0, <1>3, <4>2, HasOneMore
      <4>4. c[k + 1] = b[1] /\ c[k] = last + 1 /\ files'[k] = new
        BY <1>5, <1>6, <3>1, Numbers
      <4> QED BY <4>3, <4>4
    <3>2. CASE k # 0
      <4>1. k \in 0..MaxFiles /\ k + 1 \in 0..MaxFiles /\ k + 1 # 0
        BY Numbers
      <4> QED BY <1>1, <1>5, <1>6, <3>2, <4>1 DEF Split
    <3> QED BY <3>1, <3>2
  <2>4. ASSUME NEW x \in Nat, c[MaxFiles] < x, x <= c[0] PROVE \E k \in Logs : c[k + 1] < x /\ x <= c[k]
    <3>1. c[MaxFiles] = b[MaxFiles] /\ b[1] \in Nat /\ b[1] <= last /\ c[1] = b[1]
      BY <1>1, <1>6, Numbers, Sizes DEF Split
    <3>2. CASE x = last + 1
      <4>1. c[0 + 1] < x /\ x <= c[0]
        BY <1>3, <1>6, <3>1, <3>2
      <4> QED BY <4>1, Numbers
    <3>3. CASE x # last + 1
      <4>1. x <= b[0]
        BY <1>3, <1>6, <2>4, <3>3
      <4>2. PICK k \in Logs : b[k + 1] < x /\ x <= b[k]
        BY <1>1, <2>4, <3>1, <4>1 DEF Split
      <4>3. k \in 0..MaxFiles /\ k + 1 \in 0..MaxFiles /\ k + 1 # 0
        BY Numbers
      <4>4. x <= c[k]
        BY <1>3, <1>6, <4>2, <4>3
      <4> QED BY <1>6, <4>2, <4>3, <4>4
    <3> QED BY <3>2, <3>3
  <2> QED BY <2>1, <2>2, <2>3, <2>4 DEF Split
<1>8. Enough(c)'
  <2>1. c[MaxFiles] = b[MaxFiles] /\ b[MaxFiles] \in Nat
    BY <1>6, Numbers, Sizes
  <2>2. b[MaxFiles] = 0 \/ last - b[MaxFiles] >= PerFile
    BY <1>1, <1>6 DEF Enough
  <2>3. c[MaxFiles] = 0 \/ c[0] - c[MaxFiles] >= PerFile
    BY <1>3, <1>6, <2>1, <2>2, Sizes
  <2> QED BY <1>2, <2>3 DEF Enough
<1>9. last' \in Nat
  BY <1>2, <1>3
<1> QED BY <1>5, <1>6, <1>7, <1>8, <1>9 DEF AuditInv

LEMMA AuditStep == ASSUME AuditInv, [A!Next]_A!vars PROVE AuditInv'
<1>1. CASE UNCHANGED A!vars
  BY <1>1 DEF A!vars, AuditInv, Split, Enough
<1> QED BY <1>1, RecordAudit, UnlinkAudit, ShiftAudit, WriteAudit, FailAudit DEF A!Next

LEMMA AuditKept == ASSUME AuditInv PROVE NewestKept
<1>1. PICK b \in Newest : Split(b) /\ Enough(b)
  BY DEF AuditInv
<1>2. /\ last \in Nat /\ b[0] = last /\ b[MaxFiles] \in Nat /\ b[MaxFiles] <= last
      /\ \A k \in 0..MaxFiles : b[k] \in Nat /\ b[MaxFiles] <= b[k] /\ b[k] <= last
  BY <1>1, Numbers, Sizes DEF Newest, Split, AuditInv
<1>3. ASSUME NEW k \in Logs
      PROVE  {files[k][i] : i \in DOMAIN files[k]} = b[k + 1] + 1 .. b[k]
  <2>1. /\ Len(files[k]) = b[k] - b[k + 1] /\ b[k] \in Nat /\ b[k + 1] \in Nat /\ DOMAIN files[k] = 1..Len(files[k])
        /\ \A i \in 1..Len(files[k]) : files[k][i] = b[k + 1] + i
    <3>1. Has(files[k], b[k + 1], b[k]) /\ files[k] \in Seq(Nat)
      BY <1>1 DEF Split, AuditInv
    <3>2. b[k] \in Nat /\ b[k + 1] \in Nat
      BY <1>2, Numbers
    <3> QED BY <3>1, <3>2, LenProperties DEF Has
  <2>2. ASSUME NEW x \in b[k + 1] + 1 .. b[k] PROVE \E i \in DOMAIN files[k] : x = files[k][i]
    <3>1. x - b[k + 1] \in 1..Len(files[k]) /\ x = b[k + 1] + (x - b[k + 1])
      BY <2>1
    <3> QED BY <2>1, <3>1
  <2>3. ASSUME NEW i \in DOMAIN files[k] PROVE files[k][i] \in b[k + 1] + 1 .. b[k]
    BY <2>1
  <2> QED BY <2>2, <2>3
<1>4. A!Kept = b[MaxFiles] + 1 .. last
  <2>1. A!Kept = UNION {b[k + 1] + 1 .. b[k] : k \in Logs}
    BY <1>3 DEF A!Kept, Logs
  <2>2. ASSUME NEW x \in A!Kept PROVE x \in b[MaxFiles] + 1 .. last
    <3>1. PICK k \in Logs : x \in b[k + 1] + 1 .. b[k]
      BY <2>1
    <3>2. k \in 0..MaxFiles /\ k + 1 \in 0..MaxFiles
      BY Numbers
    <3> QED BY <1>2, <3>1, <3>2
  <2>3. ASSUME NEW x \in b[MaxFiles] + 1 .. last PROVE x \in A!Kept
    <3>1. x \in Nat /\ b[MaxFiles] < x /\ x <= b[0]
      BY <1>2
    <3>2. PICK k \in Logs : b[k + 1] < x /\ x <= b[k]
      BY <1>1, <3>1 DEF Split
    <3>3. x \in b[k + 1] + 1 .. b[k]
      BY <1>2, <3>1, <3>2, Numbers
    <3> QED BY <2>1, <3>3
  <2> QED BY <2>2, <2>3
<1>5. Cardinality(A!Kept) = last - b[MaxFiles]
  BY <1>2, <1>4, FS_Interval
<1>6. b[MaxFiles] = 0 \/ last - b[MaxFiles] >= PerFile
  BY <1>1, <1>2 DEF Enough
<1> DEFINE n == Cardinality(A!Kept)
<1>7. n \in Nat /\ last - n + 1 = b[MaxFiles] + 1
  BY <1>2, <1>5
<1>8. n >= A!Least(last, PerFile)
  BY <1>2, <1>5, <1>6, Sizes DEF A!Least
<1>9. A!Kept = (last - n + 1)..last
  BY <1>4, <1>7
<1>10. A!NewestKept
  <2>1. A!Cardinality(A!Kept) = n
    BY DEF A!Cardinality, Cardinality
  <2> QED BY <1>8, <1>9, <2>1, Zenon DEF A!NewestKept
<1> QED BY <1>10 DEF NewestKept

\* For any number and size of files and any number of entries: however often rotations fail or
\* are cut off between their renames, the newest entries are kept without a gap, a file of them
\* at least.
THEOREM NewestEntriesKept == MCSpec => []NewestKept
<1>1. MCInit => AuditInv
  BY AuditInit DEF MCInit
<1>2. AuditInv /\ [MCNext]_mcVars => AuditInv'
  <2>1. [MCNext]_mcVars => [A!Next]_A!vars
    BY DEF MCNext, mcVars, auditVars, A!vars
  <2> QED BY <2>1, AuditStep
<1> QED BY <1>1, <1>2, AuditKept, PTL DEF MCSpec

-----------------------------------------------------------------------------
(* The audit: types.                                                       *)

\* A log that is written to has room.
AuditTyped ==
    /\ files \in [Logs -> Seq(1..MaxEntries)] /\ \A k \in Logs : Len(files[k]) <= PerFile
    /\ step \in {"idle", "unlink", "shift", "write"} /\ index \in Logs
    /\ last \in 0..MaxEntries /\ (step # "idle" => last < MaxEntries)
    /\ step = "write" => Len(files[0]) < PerFile

LEMMA AuditTypedInit == A!Init => AuditTyped
<1> SUFFICES ASSUME A!Init  PROVE AuditTyped
  OBVIOUS
<1>1. 0 \in Logs /\ 0 \in 0..MaxEntries
  BY DiscordAssumption DEF Logs
<1>2. \A k \in Logs : files[k] = <<>>
  BY DEF A!Init, Logs
<1>3. files \in [Logs -> Seq(1..MaxEntries)] /\ \A k \in Logs : Len(files[k]) <= PerFile
  BY <1>2, Sizes DEF A!Init, Logs
<1> QED BY <1>1, <1>3 DEF A!Init, AuditTyped

LEMMA AuditTypedStep == AuditInv /\ AuditTyped /\ [A!Next]_(A!vars) => AuditTyped'
<1> SUFFICES ASSUME AuditInv, AuditTyped, [A!Next]_(A!vars)  PROVE AuditTyped'
  OBVIOUS
<1>0. /\ 0 \in Logs /\ MaxFiles - 1 \in Logs /\ MaxFiles - 2 \in Logs /\ PerFile \in Nat \ {0} /\ MaxEntries \in Nat
      /\ \A k \in Logs : Len(files[k]) \in Nat /\ files[k] \in Seq(1..MaxEntries)
  <2>1. MaxEntries \in Nat
    BY DiscordAssumption
  <2>2. MaxFiles - 1 \in Logs /\ MaxFiles - 2 \in Logs /\ 0 \in Logs
    BY Sizes DEF Logs
  <2>3. \A k \in Logs : files[k] \in Seq(1..MaxEntries)
    BY DEF AuditTyped
  <2>4. \A k \in Logs : Len(files[k]) \in Nat
    BY <2>3
  <2> QED BY <2>1, <2>2, <2>3, <2>4, Sizes
<1>1. CASE A!Record
  <2>1. /\ step' \in {"unlink", "write"} /\ last < MaxEntries /\ UNCHANGED <<files, index, last>>
        /\ step' = "write" => Len(files[0]) # PerFile
    BY <1>1 DEF A!Record
  <2>2. step' = "write" => Len(files[0]) < PerFile
    BY <1>0, <2>1 DEF AuditTyped
  <2> QED BY <2>1, <2>2 DEF AuditTyped
<1>2. CASE A!Unlink
  <2>1. /\ files' = [files EXCEPT ![MaxFiles - 1] = <<>>] /\ UNCHANGED last
        /\ step = "unlink" /\ step' = "shift" /\ index' = MaxFiles - 2
    BY <1>2, Sizes DEF A!Unlink
  <2>2. files' \in [Logs -> Seq(1..MaxEntries)] /\ \A k \in Logs : Len(files'[k]) <= PerFile
    BY <1>0, <2>1 DEF AuditTyped
  <2> QED BY <1>0, <2>1, <2>2 DEF AuditTyped, Logs
<1>3. CASE A!Shift
  <2>1. /\ files' = A!Moved(index) /\ UNCHANGED last /\ step = "shift"
        /\ \/ index = 0 /\ step' = "write" /\ index' = 0
           \/ index # 0 /\ step' = "shift" /\ index' = index - 1
    BY <1>3 DEF A!Shift
  <2>2. index \in 0..MaxFiles - 2
    BY <2>1 DEF AuditInv, Enough
  <2>3. index \in Logs /\ index + 1 \in Logs /\ index + 1 # index /\ index + 1 # 0
    BY <2>2, Sizes DEF Logs
  <2>4. ASSUME files[index] = <<>>  PROVE UNCHANGED files
    BY <2>1, <2>4 DEF A!Moved
  <2>5. ASSUME files[index] # <<>>
        PROVE  /\ files' \in [Logs -> Seq(1..MaxEntries)] /\ files'[index] = <<>>
               /\ files'[index + 1] = files[index]
               /\ \A k \in Logs : k # index /\ k # index + 1 => files'[k] = files[k]
    <3>1. files' = [files EXCEPT ![index + 1] = files[index], ![index] = <<>>]
      BY <2>1, <2>5 DEF A!Moved
    <3>2. files \in [Logs -> Seq(1..MaxEntries)] /\ files[index] \in Seq(1..MaxEntries) /\ <<>> \in Seq(1..MaxEntries)
      BY <1>0, <2>3 DEF AuditTyped
    <3> QED BY <2>3, <3>1, <3>2, Zenon
  <2>6. /\ files' \in [Logs -> Seq(1..MaxEntries)] /\ \A k \in Logs : Len(files'[k]) <= PerFile
        /\ index = 0 => files'[0] = <<>>
    <3>1. CASE files[index] = <<>>
      BY <2>4, <3>1 DEF AuditTyped
    <3>2. CASE files[index] # <<>>
      <4>1. ASSUME NEW k \in Logs  PROVE Len(files'[k]) <= PerFile
        <5>1. \/ files'[k] = <<>> \/ files'[k] = files[index] \/ files'[k] = files[k]
          BY <2>5, <3>2, <4>1, Zenon
        <5> QED BY <1>0, <2>3, <4>1, <5>1 DEF AuditTyped
      <4> QED BY <2>5, <3>2, <4>1
    <3> QED BY <3>1, <3>2
  <2>7. step' = "write" => Len(files'[0]) < PerFile
    BY <1>0, <2>1, <2>6
  <2>8. index' \in Logs
    BY <2>1, <2>2, Sizes DEF Logs
  <2> QED BY <2>1, <2>6, <2>7, <2>8 DEF AuditTyped, Logs
<1>4. CASE A!Write
  <2>1. /\ step = "write" /\ step' = "idle" /\ last' = last + 1 /\ UNCHANGED index
        /\ files' = [files EXCEPT ![0] = Append(@, last + 1)]
    BY <1>4 DEF A!Write
  <2>2. last + 1 \in 1..MaxEntries
    BY <1>0, <2>1 DEF AuditTyped
  <2> DEFINE new == Append(files[0], last + 1)
  <2>3. new \in Seq(1..MaxEntries) /\ Len(new) = Len(files[0]) + 1
    BY <1>0, <2>2
  <2>4. Len(new) <= PerFile
    BY <1>0, <2>1, <2>3 DEF AuditTyped
  <2>5. files' = [files EXCEPT ![0] = new]
    BY <1>0, <2>1 DEF AuditTyped
  <2> HIDE DEF new
  <2>6. files' \in [Logs -> Seq(1..MaxEntries)] /\ \A k \in Logs : Len(files'[k]) <= PerFile
    BY <1>0, <2>3, <2>4, <2>5 DEF AuditTyped
  <2>7. last' \in 0..MaxEntries
    BY <2>1, <2>2
  <2> QED BY <2>1, <2>6, <2>7 DEF AuditTyped, Logs
<1>5. CASE A!Fail
  BY <1>5 DEF A!Fail, AuditTyped, Logs
<1>6. CASE UNCHANGED A!vars
  BY <1>6 DEF A!vars, AuditTyped, Logs
<1> QED BY <1>1, <1>2, <1>3, <1>4, <1>5, <1>6 DEF A!Next

-----------------------------------------------------------------------------
(* The installer: what is left of the running phase, and what each         *)
(* component would be recovered to.                                        *)

Operations == [op : {"remove", "move", "copy", "mark", "unmark"}, from : I!Paths, to : I!Paths]
Markers == [present : BOOLEAN, library : BOOLEAN, wrapper : BOOLEAN]

Components == {"library", "wrapper"}
Backup(c) == IF c = "library" THEN "libraryBackup" ELSE "wrapperBackup"
Staging(c) == IF c = "library" THEN "staging" ELSE "wrapperStaging"
Existed(c) == IF c = "library" THEN marker.library ELSE marker.wrapper
Recovered(c) == I!Recovered(c, Backup(c), Existed(c))

There(p) == disk[p] # I!None
Staged == \A c \in Components : disk[Staging(c)] = version

\* An operation, and what follows it.
Then(o, s) == <<o>> \o s

\* What is left of a component's part of a program: all is its rest with r after it.
RestoreLeft(c, all, r) ==
    \/ all = r /\ ~There(Backup(c)) /\ (~Existed(c) => ~There(c))
    \/ all = Then(I!Remove(c), Then(I!Remove(Backup(c)), r)) /\ ~Existed(c)
    \/ all = Then(I!Remove(Backup(c)), r) /\ ~Existed(c) /\ ~There(c)
    \/ all = Then(I!Remove(c), Then(I!Move(Backup(c), c), r)) /\ Existed(c) /\ There(Backup(c))
    \/ all = Then(I!Move(Backup(c), c), r) /\ Existed(c) /\ There(Backup(c))

LegacyLeft(c, all, r) ==
    \/ all = r /\ ~There(Backup(c))
    \/ all = Then(I!Remove(Backup(c)), r) /\ There(c)
    \/ all = Then(I!Move(Backup(c), c), r) /\ There(Backup(c)) /\ ~There(c)

PublishLeft(c, all, r) ==
    \/ /\ all = Then(I!Move(c, Backup(c)), Then(I!Move(Staging(c), c), r))
       /\ Existed(c) /\ There(c) /\ ~There(Backup(c)) /\ disk[Staging(c)] = version
    \/ /\ all = Then(I!Move(Staging(c), c), r)
       /\ disk[Staging(c)] = version /\ (Existed(c) => There(Backup(c)))
    \/ all = r /\ disk[c] = version /\ (Existed(c) => There(Backup(c)))

\* The ends of a recovery, a rollback, a publication and an install.
Unmarked == Then(I!Unmark, <<>>)
Cleared == Then(I!Remove("libraryBackup"), Then(I!Remove("wrapperBackup"), Unmarked))
RecoverEnds == {Unmarked, Then(I!Remove("wrapperBackup"), Unmarked), Cleared}
RollbackEnds ==
    RecoverEnds \cup {Then(I!Remove("wrapperStaging"), Cleared),
                      Then(I!Remove("staging"), Then(I!Remove("wrapperStaging"), Cleared))}
Cleanings == {Then(I!Remove("libraryBackup"), Then(I!Remove("wrapperBackup"), <<>>)),
              Then(I!Remove("wrapperBackup"), <<>>), <<>>}
Droppings == {Then(I!Remove("staging"), Then(I!Remove("wrapperStaging"), <<>>)),
              Then(I!Remove("wrapperStaging"), <<>>), <<>>}
Copies == Then(I!Copy("staging"), Then(I!Copy("wrapperStaging"), <<>>))
Preparations == {Then(I!Remove("staging"), Then(I!Remove("wrapperStaging"), Copies)),
                 Then(I!Remove("wrapperStaging"), Copies), Copies}

\* What each phase has left to do, and what it has done.
Preparing ==
    \/ todo \in Preparations
    \/ todo = Then(I!Copy("wrapperStaging"), <<>>) /\ disk["staging"] = version
    \/ todo = <<>> /\ Staged

Restoring(ends) ==
    /\ marker.present
    /\ \E t, r \in Seq(Operations) : /\ RestoreLeft("library", todo, t) /\ RestoreLeft("wrapper", t, r)
                                     /\ r \in ends

Tidying ==
    /\ ~marker.present
    /\ \E t \in Seq(Operations) : LegacyLeft("library", todo, t) /\ LegacyLeft("wrapper", t, <<>>)

Marking ==
    /\ Staged /\ \A c \in Components : ~There(Backup(c))
    /\ \/ todo = Then(I!Mark, <<>>) /\ ~marker.present
       \/ todo = <<>> /\ marker.present /\ \A c \in Components : Existed(c) <=> There(c)

Publishing ==
    /\ marker.present
    /\ \E t \in Seq(Operations) : PublishLeft("library", todo, t) /\ PublishLeft("wrapper", t, <<>>)

Cleaning ==
    /\ \A c \in Components : disk[c] = version
    /\ \/ todo = Then(I!Unmark, Then(I!Remove("libraryBackup"), Then(I!Remove("wrapperBackup"), <<>>)))
          /\ marker.present
       \/ todo \in Cleanings /\ ~marker.present

Left ==
    \/ phase = "idle" /\ todo = <<>>
    \/ phase = "prepare" /\ Preparing
    \/ phase = "recover" /\ Staged /\ (Restoring(RecoverEnds) \/ Tidying)
    \/ phase = "mark" /\ Marking
    \/ phase = "publish" /\ Publishing
    \/ phase = "rollback" /\ (Restoring(RollbackEnds) \/ todo = <<>>)
    \/ phase = "clean" /\ Cleaning
    \/ phase = "drop" /\ todo \in Droppings

Coherent == Recovered("library") = Recovered("wrapper") /\ Recovered("library") # I!Broken

Disks == [I!Paths -> {I!None, I!Broken} \cup I!Versions]

Kept == disk \in Disks /\ marker \in Markers /\ version \in 0..MaxInstalls /\ (phase # "idle" => version # 0)

InstallInv == Kept /\ Coherent /\ Left

-----------------------------------------------------------------------------
(* Paths, versions and programs.                                           *)

LEMMA Places ==
    \A c \in Components :
        /\ c \in I!Paths /\ Backup(c) \in I!Paths /\ Staging(c) \in I!Paths
        /\ c # Backup(c) /\ c # Staging(c) /\ Backup(c) # Staging(c)
        /\ \A d \in Components \ {c} : /\ c \notin {d, Backup(d), Staging(d)}
                                       /\ Backup(c) \notin {d, Backup(d), Staging(d)}
                                       /\ Staging(c) \notin {d, Backup(d), Staging(d)}
BY DEF Components, Backup, Staging, I!Paths, I!Directories

LEMMA VersionsAreWhole ==
    ASSUME NEW v \in 0..MaxInstalls, v # 0
    PROVE  v \in I!Versions /\ v # I!None /\ v # I!Broken
BY DiscordAssumption DEF I!Versions, I!None, I!Broken

LEMMA AreOperations ==
    /\ I!Mark \in Operations /\ I!Unmark \in Operations
    /\ \A p \in I!Paths : I!Remove(p) \in Operations /\ I!Copy(p) \in Operations
    /\ \A p, q \in I!Paths : I!Move(p, q) \in Operations
<1>1. "library" \in I!Paths /\ "wrapper" \in I!Paths
  BY DEF I!Paths, I!Directories
<1> QED BY <1>1 DEF Operations, I!Mark, I!Unmark, I!Remove, I!Copy, I!Move

LEMMA ThenFacts ==
    ASSUME NEW O, NEW o \in O, NEW s \in Seq(O)
    PROVE  /\ Then(o, s) \in Seq(O) /\ Then(o, s) # <<>> /\ Head(Then(o, s)) = o /\ Tail(Then(o, s)) = s
           /\ Len(Then(o, s)) = Len(s) + 1
<1>1. <<o>> \in Seq(O) /\ Len(<<o>>) = 1 /\ <<o>>[1] = o
  OBVIOUS
<1> DEFINE a == <<o>> \o s
<1>2. /\ a \in Seq(O) /\ Len(a) = 1 + Len(s) /\ Len(s) \in Nat
      /\ \A i \in 1 .. 1 + Len(s) : a[i] = IF i <= 1 THEN <<o>>[i] ELSE s[i - 1]
  BY <1>1, ConcatProperties
<1> HIDE DEF a
<1>3. a # <<>> /\ Head(a) = o
  BY <1>1, <1>2
<1>4. Tail(a) \in Seq(O) /\ Len(Tail(a)) = Len(s) /\ \A i \in 1..Len(s) : Tail(a)[i] = s[i]
  BY <1>2, <1>3
<1>5. Tail(a) = s
  BY <1>4, SeqEqual
<1> QED BY <1>2, <1>3, <1>5 DEF a, Then

-----------------------------------------------------------------------------
(* What one operation does.                                                *)

LEMMA Operated ==
    ASSUME NEW o \in Operations, NEW r \in Seq(Operations), todo = Then(o, r), I!Operate
    PROVE  /\ todo' = r /\ UNCHANGED <<phase, version>> /\ I!Possible(o) /\ disk' = I!Done(o)
           /\ o.op \notin {"mark", "unmark"} => marker' = marker
           /\ o.op = "mark" => marker' = [present |-> TRUE, library |-> There("library"), wrapper |-> There("wrapper")]
           /\ o.op = "unmark" => marker' = I!NoMarker
<1>1. Head(todo) = o /\ Tail(todo) = r
  BY ThenFacts
<1>2. I!Possible(o) /\ disk' = I!Done(o) /\ todo' = r /\ UNCHANGED <<phase, version>>
  BY <1>1 DEF I!Operate
<1>3. marker' = CASE o.op = "mark"   -> [present |-> TRUE, library |-> I!Exists("library"), wrapper |-> I!Exists("wrapper")]
                  [] o.op = "unmark" -> I!NoMarker
                  [] OTHER           -> marker
  BY <1>1 DEF I!Operate
<1> QED BY <1>2, <1>3 DEF I!Exists, There

LEMMA RemoveDone ==
    ASSUME Kept, NEW p \in I!Paths, NEW r \in Seq(Operations), todo = Then(I!Remove(p), r), I!Operate
    PROVE  /\ todo' = r /\ UNCHANGED <<phase, version, marker>>
           /\ disk' = [disk EXCEPT ![p] = I!None] /\ disk' \in Disks
           /\ disk'[p] = I!None /\ \A q \in I!Paths \ {p} : disk'[q] = disk[q]
<1>1. I!Remove(p).op = "remove" /\ I!Remove(p).from = p
  BY DEF I!Remove
<1>2. disk' = [disk EXCEPT ![p] = I!None]
  BY <1>1, Operated, AreOperations DEF I!Done
<1> QED BY <1>1, <1>2, Operated, AreOperations DEF Kept, Disks

LEMMA MoveDone ==
    ASSUME Kept, NEW p \in I!Paths, NEW q \in I!Paths, p # q, NEW r \in Seq(Operations),
           todo = Then(I!Move(p, q), r), I!Operate
    PROVE  /\ todo' = r /\ UNCHANGED <<phase, version, marker>> /\ disk' \in Disks
           /\ There(p) /\ disk'[q] = disk[p] /\ disk'[p] = I!None
           /\ \A x \in I!Paths \ {p, q} : disk'[x] = disk[x]
<1> DEFINE o == I!Move(p, q)
<1>1. o.op = "move" /\ o.from = p /\ o.to = q /\ o \in Operations
  BY AreOperations DEF I!Move
<1> HIDE DEF o
<1>2. todo = Then(o, r)
  BY DEF o
<1>3. disk' = [disk EXCEPT ![q] = disk[p], ![p] = I!None] /\ There(p)
  BY <1>1, <1>2, Operated DEF I!Done, I!Possible, I!Exists, There
<1> QED BY <1>1, <1>2, <1>3, Operated DEF Kept, Disks

LEMMA CopyDone ==
    ASSUME Kept, NEW p \in I!Paths, NEW r \in Seq(Operations), todo = Then(I!Copy(p), r), I!Operate, version # 0
    PROVE  /\ todo' = r /\ UNCHANGED <<phase, version, marker>> /\ disk' \in Disks
           /\ disk'[p] = version /\ \A q \in I!Paths \ {p} : disk'[q] = disk[q]
<1>1. I!Copy(p).op = "copy" /\ I!Copy(p).from = p
  BY DEF I!Copy
<1>2. disk' = [disk EXCEPT ![p] = version]
  BY <1>1, Operated, AreOperations DEF I!Done
<1>3. version \in I!Versions
  BY VersionsAreWhole DEF Kept
<1> QED BY <1>1, <1>2, <1>3, Operated, AreOperations DEF Kept, Disks

LEMMA MarkDone ==
    ASSUME NEW r \in Seq(Operations), todo = Then(I!Mark, r), I!Operate
    PROVE  /\ todo' = r /\ UNCHANGED <<phase, version, disk>>
           /\ marker' = [present |-> TRUE, library |-> There("library"), wrapper |-> There("wrapper")]
<1>1. I!Mark.op = "mark"
  BY DEF I!Mark
<1> QED BY <1>1, Operated, AreOperations DEF I!Done

LEMMA UnmarkDone ==
    ASSUME NEW r \in Seq(Operations), todo = Then(I!Unmark, r), I!Operate
    PROVE  todo' = r /\ UNCHANGED <<phase, version, disk>> /\ marker' = I!NoMarker
<1>1. I!Unmark.op = "unmark"
  BY DEF I!Unmark
<1> QED BY <1>1, Operated, AreOperations DEF I!Done

-----------------------------------------------------------------------------
(* What a component is recovered to.                                       *)

LEMMA RecoveredIs ==
    ASSUME NEW c \in Components
    PROVE  Recovered(c) = IF marker.present
                          THEN IF ~Existed(c) THEN I!None
                               ELSE IF There(Backup(c)) THEN disk[Backup(c)] ELSE disk[c]
                          ELSE IF There(c) THEN disk[c] ELSE disk[Backup(c)]
BY DEF Recovered, I!Recovered, I!Exists, There

LEMMA RecoveredSame ==
    ASSUME NEW c \in Components, marker' = marker, disk'[c] = disk[c], disk'[Backup(c)] = disk[Backup(c)]
    PROVE  Recovered(c)' = Recovered(c) /\ Existed(c)' = Existed(c)
BY DEF Recovered, I!Recovered, I!Exists, Existed

\* A path that is recovered from nowhere: it may be removed, and also halfway.
Spare(p) ==
    \E c \in Components :
        \/ p = Staging(c)
        \/ p = c /\ marker.present /\ (~Existed(c) \/ There(Backup(c)))
        \/ p = Backup(c) /\ (IF marker.present THEN ~Existed(c) \/ ~There(p) ELSE There(c))

LEMMA SpareChanges ==
    ASSUME Kept, NEW p, Spare(p), NEW x, x # I!None => There(p), marker' = marker, disk' = [disk EXCEPT ![p] = x]
    PROVE  \A c \in Components : Recovered(c)' = Recovered(c)
<1>1. PICK c \in Components :
        \/ p = Staging(c)
        \/ p = c /\ marker.present /\ (~Existed(c) \/ There(Backup(c)))
        \/ p = Backup(c) /\ (IF marker.present THEN ~Existed(c) \/ ~There(p) ELSE There(c))
  BY DEF Spare
<1>2. p \in I!Paths /\ DOMAIN disk = I!Paths
  BY <1>1, Places DEF Kept, Disks
<1>3. disk'[p] = x /\ \A q \in I!Paths \ {p} : disk'[q] = disk[q]
  BY <1>2
<1>4. ASSUME NEW d \in Components, p # d, p # Backup(d) PROVE Recovered(d)' = Recovered(d)
  BY <1>3, <1>4, Places, RecoveredSame
<1>5. CASE p = Staging(c)
  BY <1>4, <1>5, Places
<1>6. ASSUME NEW d \in Components, d # c, p # Staging(c) PROVE Recovered(d)' = Recovered(d)
  BY <1>1, <1>4, <1>6, Places
<1>7. CASE p = c /\ marker.present /\ (~Existed(c) \/ There(Backup(c)))
  <2>1. disk'[Backup(c)] = disk[Backup(c)] /\ p # Staging(c)
    BY <1>3, <1>7, Places
  <2>2. Existed(c)' = Existed(c)
    BY DEF Existed
  <2>3. Recovered(c)' = Recovered(c)
    BY <1>7, <2>1, <2>2, RecoveredIs DEF Recovered, I!Recovered, I!Exists, There
  <2> QED BY <1>6, <2>1, <2>3
<1>8. CASE p = Backup(c) /\ (IF marker.present THEN ~Existed(c) \/ ~There(p) ELSE There(c))
  <2>1. disk'[c] = disk[c] /\ p # Staging(c)
    BY <1>3, <1>8, Places
  <2>2. Existed(c)' = Existed(c)
    BY DEF Existed
  <2>3. Recovered(c)' = Recovered(c)
    BY <1>3, <1>8, <2>1, <2>2 DEF Recovered, I!Recovered, I!Exists, There
  <2> QED BY <1>6, <2>1, <2>3
<1> QED BY <1>1, <1>5, <1>7, <1>8

-----------------------------------------------------------------------------
(* One operation of a component's part.                                    *)

\* A part goes on to its rest; nothing else is touched, and what is recovered stays.
Goes(c) ==
    /\ todo' \in Seq(Operations) /\ disk' \in Disks /\ UNCHANGED <<phase, version, marker>>
    /\ Recovered(c)' = Recovered(c)
    /\ \A p \in I!Paths \ {c, Backup(c), Staging(c)} : disk'[p] = disk[p]

LEMMA RestoreStep ==
    ASSUME Kept, marker.present, NEW c \in Components, NEW r \in Seq(Operations),
           RestoreLeft(c, todo, r), todo # r, I!Operate
    PROVE  Goes(c) /\ RestoreLeft(c, todo, r)' /\ disk'[Staging(c)] = disk[Staging(c)]
<1> DEFINE b == Backup(c)
<1>1. /\ c \in I!Paths /\ b \in I!Paths /\ Staging(c) \in I!Paths /\ c # b /\ Staging(c) \notin {c, b}
      /\ Then(I!Remove(b), r) \in Seq(Operations) /\ Then(I!Move(b, c), r) \in Seq(Operations)
  BY Places, AreOperations, ThenFacts
<1>2. /\ Recovered(c) = IF ~Existed(c) THEN I!None ELSE IF There(b) THEN disk[b] ELSE disk[c]
      /\ marker' = marker => /\ Existed(c)' = Existed(c) /\ There(b)' = (disk'[b] # I!None) /\ There(c)' = (disk'[c] # I!None)
                             /\ Recovered(c)' = IF ~Existed(c) THEN I!None ELSE IF There(b)' THEN disk'[b] ELSE disk'[c]
  BY RecoveredIs DEF Recovered, I!Recovered, I!Exists, Existed, There
<1>3. CASE todo = Then(I!Remove(c), Then(I!Remove(b), r)) /\ ~Existed(c)
  <2>1. /\ todo' = Then(I!Remove(b), r) /\ UNCHANGED <<phase, version, marker>> /\ disk' \in Disks
        /\ disk'[c] = I!None /\ \A q \in I!Paths \ {c} : disk'[q] = disk[q]
    BY <1>1, <1>3, RemoveDone
  <2> QED BY <1>1, <1>2, <1>3, <2>1 DEF Goes, RestoreLeft
<1>4. CASE todo = Then(I!Remove(b), r) /\ ~Existed(c) /\ ~There(c)
  <2>1. /\ todo' = r /\ UNCHANGED <<phase, version, marker>> /\ disk' \in Disks
        /\ disk'[b] = I!None /\ \A q \in I!Paths \ {b} : disk'[q] = disk[q]
    BY <1>1, <1>4, RemoveDone
  <2> QED BY <1>1, <1>2, <1>4, <2>1 DEF Goes, RestoreLeft, There
<1>5. CASE todo = Then(I!Remove(c), Then(I!Move(b, c), r)) /\ Existed(c) /\ There(b)
  <2>1. /\ todo' = Then(I!Move(b, c), r) /\ UNCHANGED <<phase, version, marker>> /\ disk' \in Disks
        /\ disk'[c] = I!None /\ \A q \in I!Paths \ {c} : disk'[q] = disk[q]
    BY <1>1, <1>5, RemoveDone
  <2> QED BY <1>1, <1>2, <1>5, <2>1 DEF Goes, RestoreLeft, There
<1>6. CASE todo = Then(I!Move(b, c), r) /\ Existed(c) /\ There(b)
  <2>1. /\ todo' = r /\ UNCHANGED <<phase, version, marker>> /\ disk' \in Disks
        /\ disk'[c] = disk[b] /\ disk'[b] = I!None /\ \A q \in I!Paths \ {b, c} : disk'[q] = disk[q]
    BY <1>1, <1>6, MoveDone
  <2> QED BY <1>1, <1>2, <1>6, <2>1 DEF Goes, RestoreLeft, There
<1> QED BY <1>3, <1>4, <1>5, <1>6 DEF RestoreLeft

LEMMA LegacyStep ==
    ASSUME Kept, ~marker.present, NEW c \in Components, NEW r \in Seq(Operations),
           LegacyLeft(c, todo, r), todo # r, I!Operate
    PROVE  Goes(c) /\ LegacyLeft(c, todo, r)' /\ disk'[Staging(c)] = disk[Staging(c)]
<1> DEFINE b == Backup(c)
<1>1. c \in I!Paths /\ b \in I!Paths /\ Staging(c) \in I!Paths /\ c # b /\ Staging(c) \notin {c, b}
  BY Places
<1>2. /\ Recovered(c) = IF There(c) THEN disk[c] ELSE disk[b]
      /\ marker' = marker => /\ There(b)' = (disk'[b] # I!None) /\ There(c)' = (disk'[c] # I!None)
                             /\ Recovered(c)' = IF There(c)' THEN disk'[c] ELSE disk'[b]
  BY RecoveredIs DEF Recovered, I!Recovered, I!Exists, There
<1>3. CASE todo = Then(I!Remove(b), r) /\ There(c)
  <2>1. /\ todo' = r /\ UNCHANGED <<phase, version, marker>> /\ disk' \in Disks
        /\ disk'[b] = I!None /\ \A q \in I!Paths \ {b} : disk'[q] = disk[q]
    BY <1>1, <1>3, RemoveDone
  <2> QED BY <1>1, <1>2, <1>3, <2>1 DEF Goes, LegacyLeft, There
<1>4. CASE todo = Then(I!Move(b, c), r) /\ There(b) /\ ~There(c)
  <2>1. /\ todo' = r /\ UNCHANGED <<phase, version, marker>> /\ disk' \in Disks
        /\ disk'[c] = disk[b] /\ disk'[b] = I!None /\ \A q \in I!Paths \ {b, c} : disk'[q] = disk[q]
    BY <1>1, <1>4, MoveDone
  <2> QED BY <1>1, <1>2, <1>4, <2>1 DEF Goes, LegacyLeft, There
<1> QED BY <1>3, <1>4 DEF LegacyLeft

LEMMA PublishStep ==
    ASSUME Kept, marker.present, version # 0, NEW c \in Components, NEW r \in Seq(Operations),
           PublishLeft(c, todo, r), todo # r, I!Operate
    PROVE  Goes(c) /\ PublishLeft(c, todo, r)'
<1> DEFINE b == Backup(c)
           n == Staging(c)
<1>1. /\ c \in I!Paths /\ b \in I!Paths /\ n \in I!Paths /\ c # b /\ n \notin {c, b}
      /\ Then(I!Move(n, c), r) \in Seq(Operations)
  BY Places, AreOperations, ThenFacts
<1>2. /\ Recovered(c) = IF ~Existed(c) THEN I!None ELSE IF There(b) THEN disk[b] ELSE disk[c]
      /\ marker' = marker => /\ Existed(c)' = Existed(c) /\ There(b)' = (disk'[b] # I!None)
                             /\ Recovered(c)' = IF ~Existed(c) THEN I!None ELSE IF There(b)' THEN disk'[b] ELSE disk'[c]
  BY RecoveredIs DEF Recovered, I!Recovered, I!Exists, Existed, There
<1>3. CASE /\ todo = Then(I!Move(c, b), Then(I!Move(n, c), r)) /\ Existed(c) /\ There(c) /\ ~There(b)
           /\ disk[n] = version
  <2>1. /\ todo' = Then(I!Move(n, c), r) /\ UNCHANGED <<phase, version, marker>> /\ disk' \in Disks
        /\ disk'[b] = disk[c] /\ disk'[c] = I!None /\ \A q \in I!Paths \ {b, c} : disk'[q] = disk[q]
    BY <1>1, <1>3, MoveDone
  <2> QED BY <1>1, <1>2, <1>3, <2>1 DEF Goes, PublishLeft, There
<1>4. CASE todo = Then(I!Move(n, c), r) /\ disk[n] = version /\ (Existed(c) => There(b))
  <2>1. /\ todo' = r /\ UNCHANGED <<phase, version, marker>> /\ disk' \in Disks
        /\ disk'[c] = disk[n] /\ disk'[n] = I!None /\ \A q \in I!Paths \ {n, c} : disk'[q] = disk[q]
    BY <1>1, <1>4, MoveDone
  <2> QED BY <1>1, <1>2, <1>4, <2>1 DEF Goes, PublishLeft, There
<1> QED BY <1>3, <1>4 DEF PublishLeft

\* What one component does leaves the other where it is.
LEMMA OthersRest ==
    ASSUME NEW c \in Components, NEW d \in Components, c # d, Goes(c)
    PROVE  /\ Recovered(d)' = Recovered(d) /\ (There(d)' <=> There(d)) /\ (There(Backup(d))' <=> There(Backup(d)))
           /\ disk'[Staging(d)] = disk[Staging(d)] /\ disk'[d] = disk[d] /\ Existed(d)' = Existed(d)
<1>1. disk'[d] = disk[d] /\ disk'[Backup(d)] = disk[Backup(d)] /\ disk'[Staging(d)] = disk[Staging(d)]
  BY Places DEF Goes
<1> QED BY <1>1, RecoveredSame DEF Goes, There

\* The part of the other component waits.
LEMMA OthersWait ==
    ASSUME NEW c \in Components, NEW d \in Components, c # d, Goes(c), NEW all, NEW r
    PROVE  /\ RestoreLeft(d, all, r) => RestoreLeft(d, all, r)'
           /\ LegacyLeft(d, all, r) => LegacyLeft(d, all, r)'
           /\ PublishLeft(d, all, r) => PublishLeft(d, all, r)'
<1>1. /\ There(d)' <=> There(d)
      /\ There(Backup(d))' <=> There(Backup(d))
      /\ disk'[Staging(d)] = disk[Staging(d)] /\ disk'[d] = disk[d] /\ Existed(d)' = Existed(d) /\ version' = version
  BY OthersRest DEF Goes
<1> QED BY <1>1 DEF RestoreLeft, LegacyLeft, PublishLeft

-----------------------------------------------------------------------------
(* One operation of a phase.                                               *)

LEMMA ProgramsAre ==
    /\ Cleanings \cup Droppings \cup Preparations \cup RollbackEnds \subseteq Seq(Operations)
    /\ Unmarked \in Seq(Operations) /\ Cleared \in Seq(Operations) /\ Copies \in Seq(Operations)
    /\ <<>> \in Seq(Operations)
<1>1. <<>> \in Seq(Operations)
  OBVIOUS
<1>2. \A p \in {"libraryBackup", "wrapperBackup", "staging", "wrapperStaging"} :
        I!Remove(p) \in Operations /\ I!Copy(p) \in Operations
  BY AreOperations DEF I!Paths, I!Directories
<1>3. \A o \in Operations, s \in Seq(Operations) : Then(o, s) \in Seq(Operations)
  BY ThenFacts
<1>4. Unmarked \in Seq(Operations) /\ Cleared \in Seq(Operations) /\ Copies \in Seq(Operations)
  BY <1>1, <1>2, <1>3, AreOperations DEF Unmarked, Cleared, Copies
<1>5. Cleanings \subseteq Seq(Operations) /\ Droppings \subseteq Seq(Operations) /\ Preparations \subseteq Seq(Operations)
  BY <1>1, <1>2, <1>3, <1>4 DEF Cleanings, Droppings, Preparations
<1>6. RollbackEnds \subseteq Seq(Operations)
  BY <1>2, <1>3, <1>4 DEF RollbackEnds, RecoverEnds
<1> QED BY <1>1, <1>4, <1>5, <1>6

LEMMA NotItsOwnRest ==
    ASSUME NEW o \in Operations, NEW p \in Operations, NEW s \in Seq(Operations)
    PROVE  s # Then(o, s) /\ s # Then(o, Then(p, s))
<1>1. Len(Then(o, s)) = Len(s) + 1 /\ Len(Then(o, Then(p, s))) = (Len(s) + 1) + 1 /\ Len(s) \in Nat
  <2>1. Then(p, s) \in Seq(Operations) /\ Len(Then(p, s)) = Len(s) + 1 /\ Len(Then(o, s)) = Len(s) + 1
    BY ThenFacts
  <2>2. Len(Then(o, Then(p, s))) = Len(Then(p, s)) + 1
    BY <2>1, ThenFacts
  <2> QED BY <2>1, <2>2, LenProperties
<1> QED BY <1>1

\* A component whose part is over.
Restored(c) == ~There(Backup(c)) /\ (~Existed(c) => ~There(c))
Published(c) == disk[c] = version /\ (Existed(c) => There(Backup(c)))

LEMMA PartsOver ==
    ASSUME NEW c \in Components, NEW r \in Seq(Operations)
    PROVE  /\ RestoreLeft(c, r, r) <=> Restored(c)
           /\ LegacyLeft(c, r, r) <=> ~There(Backup(c))
           /\ PublishLeft(c, r, r) <=> Published(c)
<1>1. /\ I!Remove(c) \in Operations /\ I!Remove(Backup(c)) \in Operations /\ I!Move(Backup(c), c) \in Operations
      /\ I!Move(c, Backup(c)) \in Operations /\ I!Move(Staging(c), c) \in Operations
  BY AreOperations, Places
<1> QED BY <1>1, NotItsOwnRest DEF RestoreLeft, LegacyLeft, PublishLeft, Restored, Published

\* A step after which every component is recovered to what it was before.
Same == Kept' /\ \A c \in Components : Recovered(c)' = Recovered(c)

LEMMA SameCoherent == Coherent /\ Same => Coherent'
<1>1. "library" \in Components /\ "wrapper" \in Components /\ I!Broken' = I!Broken
  BY DEF Components, I!Broken
<1> QED BY <1>1 DEF Coherent, Same

\* Every removal of spare paths is such a step.
LEMMA SpareRemoved ==
    ASSUME Kept, NEW p \in I!Paths, Spare(p), NEW r \in Seq(Operations), todo = Then(I!Remove(p), r), I!Operate
    PROVE  Same
<1>1. UNCHANGED <<phase, version, marker>> /\ disk' = [disk EXCEPT ![p] = I!None] /\ disk' \in Disks
  BY RemoveDone
<1>2. \A c \in Components : Recovered(c)' = Recovered(c)
  BY <1>1, SpareChanges
<1> QED BY <1>1, <1>2 DEF Same, Kept

LEMMA GoesSame ==
    ASSUME Kept, NEW c \in Components, NEW d \in Components, c # d, Goes(c) PROVE Same
<1>1. \A e \in Components : e = c \/ e = d
  BY DEF Components
<1> QED BY <1>1, OthersRest DEF Goes, Kept, Same

LEMMA EndStep ==
    ASSUME Kept, marker.present, \A c \in Components : Restored(c), todo \in RollbackEnds, I!Operate
    PROVE  /\ Same /\ UNCHANGED <<phase, version>>
           /\ \/ /\ todo' \in RollbackEnds /\ marker' = marker /\ \A c \in Components : Restored(c)'
                 /\ todo \in RecoverEnds => /\ todo' \in RecoverEnds
                                            /\ \A c \in Components : disk'[Staging(c)] = disk[Staging(c)]
              \/ todo' = <<>> /\ marker' = I!NoMarker /\ disk' = disk /\ \A c \in Components : ~There(Backup(c))'
<1>1. CASE todo = Unmarked
  <2>1. todo' = <<>> /\ UNCHANGED <<phase, version, disk>> /\ marker' = I!NoMarker
    BY <1>1, ProgramsAre, UnmarkDone DEF Unmarked
  <2>2. ~marker'.present /\ marker' \in Markers
    BY <2>1 DEF I!NoMarker, Markers
  <2>3. ASSUME NEW c \in Components PROVE Recovered(c)' = Recovered(c)
    <3>1. Recovered(c) = disk[c] /\ disk[Backup(c)] = I!None
      BY RecoveredIs DEF Restored, There
    <3> QED BY <2>1, <2>2, <3>1 DEF Recovered, I!Recovered, I!Exists
  <2> QED BY <2>1, <2>2, <2>3 DEF Same, Kept, Restored, There
<1>2. ASSUME NEW p \in {"libraryBackup", "wrapperBackup", "staging", "wrapperStaging"}, NEW r \in RollbackEnds,
             todo = Then(I!Remove(p), r)
      PROVE  /\ Same /\ UNCHANGED <<phase, version, marker>> /\ todo' = r /\ \A c \in Components : Restored(c)'
             /\ p \notin {"staging", "wrapperStaging"} =>
                    \A c \in Components : disk'[Staging(c)] = disk[Staging(c)]
  <2>1. p \in I!Paths /\ r \in Seq(Operations)
    BY ProgramsAre DEF I!Paths, I!Directories
  <2>2. \E c \in Components : p \in {Backup(c), Staging(c)}
    BY DEF Components, Backup, Staging
  <2>3. Spare(p)
    BY <2>2 DEF Spare, Restored
  <2>4. /\ todo' = r /\ UNCHANGED <<phase, version, marker>>
        /\ disk'[p] = I!None /\ \A q \in I!Paths \ {p} : disk'[q] = disk[q]
    BY <1>2, <2>1, RemoveDone
  <2>5. Same
    BY <1>2, <2>1, <2>3, SpareRemoved
  <2>6. ASSUME NEW c \in Components PROVE Restored(c)'
    <3>1. disk'[c] = disk[c] /\ (disk'[Backup(c)] = I!None \/ disk'[Backup(c)] = disk[Backup(c)])
      BY <2>2, <2>4, Places
    <3>2. Existed(c)' = Existed(c)
      BY <2>4 DEF Existed
    <3> QED BY <3>1, <3>2 DEF Restored, There
  <2>7. p \notin {"staging", "wrapperStaging"} => \A c \in Components : p # Staging(c)
    BY DEF Staging
  <2> QED BY <2>4, <2>5, <2>6, <2>7, Places
<1>3. \/ todo = Unmarked
      \/ todo = Then(I!Remove("wrapperBackup"), Unmarked)
      \/ todo = Then(I!Remove("libraryBackup"), Then(I!Remove("wrapperBackup"), Unmarked))
      \/ todo \notin RecoverEnds /\ todo = Then(I!Remove("wrapperStaging"), Cleared)
      \/ todo \notin RecoverEnds /\ todo = Then(I!Remove("staging"), Then(I!Remove("wrapperStaging"), Cleared))
  BY DEF RollbackEnds, RecoverEnds, Cleared
<1>4. /\ {Unmarked, Then(I!Remove("wrapperBackup"), Unmarked)} \subseteq RecoverEnds
      /\ RecoverEnds \subseteq RollbackEnds /\ Cleared \in RecoverEnds
      /\ Then(I!Remove("wrapperStaging"), Cleared) \in RollbackEnds
  BY DEF RollbackEnds, RecoverEnds
<1> QED BY <1>1, <1>2, <1>3, <1>4

LEMMA Two == "library" \in Components /\ "wrapper" \in Components /\ "library" # "wrapper"
BY DEF Components

LEMMA RestoringStep ==
    ASSUME Kept, NEW ends, ends \in {RecoverEnds, RollbackEnds}, Restoring(ends), I!Operate
    PROVE  /\ Same /\ UNCHANGED <<phase, version>>
           /\ Restoring(ends)' \/ (todo' = <<>> /\ ~marker.present' /\ \A c \in Components : ~There(Backup(c))')
           /\ ends = RecoverEnds => \A c \in Components : disk'[Staging(c)] = disk[Staging(c)]
<1>1. PICK t \in Seq(Operations), r \in Seq(Operations) :
        RestoreLeft("library", todo, t) /\ RestoreLeft("wrapper", t, r) /\ r \in ends
  BY DEF Restoring
<1>2. marker.present
  BY DEF Restoring
<1>3. CASE todo # t
  <2>1. Goes("library") /\ RestoreLeft("library", todo, t)' /\ disk'[Staging("library")] = disk[Staging("library")]
    BY <1>1, <1>2, <1>3, RestoreStep, Two
  <2>2. Same /\ RestoreLeft("wrapper", t, r)' /\ disk'[Staging("wrapper")] = disk[Staging("wrapper")]
    BY <1>1, <2>1, GoesSame, OthersWait, OthersRest, Two
  <2>3. Restoring(ends)' /\ UNCHANGED <<phase, version>>
    BY <1>1, <1>2, <2>1, <2>2 DEF Restoring, Goes
  <2> QED BY <2>1, <2>2, <2>3 DEF Components
<1>4. CASE todo = t /\ t # r
  <2>1. Goes("wrapper") /\ RestoreLeft("wrapper", todo, r)' /\ disk'[Staging("wrapper")] = disk[Staging("wrapper")]
    BY <1>1, <1>2, <1>4, RestoreStep, Two
  <2>2. Restored("library")
    BY <1>1, <1>4, PartsOver, Two
  <2>3. Same /\ Restored("library")' /\ disk'[Staging("library")] = disk[Staging("library")]
    BY <2>1, <2>2, GoesSame, OthersRest, Two DEF Restored
  <2>4. todo' \in Seq(Operations) /\ UNCHANGED <<phase, version, marker>>
    BY <2>1 DEF Goes
  <2>5. RestoreLeft("library", todo, todo)'
    BY <2>3 DEF RestoreLeft, Restored
  <2>6. Restoring(ends)'
    BY <1>1, <1>2, <2>1, <2>4, <2>5 DEF Restoring
  <2> QED BY <2>1, <2>3, <2>4, <2>6 DEF Components
<1>5. CASE todo = t /\ t = r
  <2>1. \A c \in Components : Restored(c)
    BY <1>1, <1>5, PartsOver DEF Components
  <2>2. RecoverEnds \subseteq RollbackEnds /\ todo \in ends
    BY <1>1, <1>5 DEF RollbackEnds
  <2>3. /\ Same /\ UNCHANGED <<phase, version>>
        /\ \/ /\ todo' \in RollbackEnds /\ marker' = marker /\ \A c \in Components : Restored(c)'
              /\ todo \in RecoverEnds => /\ todo' \in RecoverEnds
                                         /\ \A c \in Components : disk'[Staging(c)] = disk[Staging(c)]
           \/ todo' = <<>> /\ marker' = I!NoMarker /\ disk' = disk /\ \A c \in Components : ~There(Backup(c))'
    BY <1>2, <2>1, <2>2, EndStep
  <2>4. CASE todo' \in ends /\ marker' = marker /\ \A c \in Components : Restored(c)'
    <3>1. todo' \in Seq(Operations)
      BY <2>2, <2>4, ProgramsAre
    <3>2. \A c \in Components : RestoreLeft(c, todo, todo)'
      BY <2>4 DEF RestoreLeft, Restored
    <3>3. Restoring(ends)'
      BY <1>2, <2>4, <3>1, <3>2, Two DEF Restoring
    <3> QED BY <2>2, <2>3, <3>3
  <2>5. ~I!NoMarker.present
    BY DEF I!NoMarker
  <2> QED BY <2>2, <2>3, <2>4, <2>5
<1> QED BY <1>3, <1>4, <1>5

LEMMA TidyingStep ==
    ASSUME Kept, Tidying, todo # <<>>, I!Operate
    PROVE  /\ Same /\ UNCHANGED <<phase, version>> /\ Tidying'
           /\ \A c \in Components : disk'[Staging(c)] = disk[Staging(c)]
<1>1. PICK t \in Seq(Operations) : LegacyLeft("library", todo, t) /\ LegacyLeft("wrapper", t, <<>>)
  BY DEF Tidying
<1>2. ~marker.present /\ <<>> \in Seq(Operations)
  BY ProgramsAre DEF Tidying
<1>3. CASE todo # t
  <2>1. Goes("library") /\ LegacyLeft("library", todo, t)' /\ disk'[Staging("library")] = disk[Staging("library")]
    BY <1>1, <1>2, <1>3, LegacyStep, Two
  <2>2. Same /\ LegacyLeft("wrapper", t, <<>>)' /\ disk'[Staging("wrapper")] = disk[Staging("wrapper")]
    BY <1>1, <2>1, GoesSame, OthersWait, OthersRest, Two
  <2>3. Tidying' /\ UNCHANGED <<phase, version>>
    BY <1>1, <1>2, <2>1, <2>2 DEF Tidying, Goes
  <2> QED BY <2>1, <2>2, <2>3 DEF Components
<1>4. CASE todo = t
  <2>1. Goes("wrapper") /\ LegacyLeft("wrapper", todo, <<>>)' /\ disk'[Staging("wrapper")] = disk[Staging("wrapper")]
    BY <1>1, <1>2, <1>4, LegacyStep, Two
  <2>2. ~There(Backup("library"))
    BY <1>1, <1>4, PartsOver, Two
  <2>3. Same /\ ~There(Backup("library"))' /\ disk'[Staging("library")] = disk[Staging("library")]
    BY <2>1, <2>2, GoesSame, OthersRest, Two
  <2>4. todo' \in Seq(Operations) /\ UNCHANGED <<phase, version, marker>>
    BY <2>1 DEF Goes
  <2>5. LegacyLeft("library", todo, todo)'
    BY <2>3 DEF LegacyLeft
  <2>6. Tidying'
    BY <1>2, <2>1, <2>4, <2>5 DEF Tidying
  <2> QED BY <2>1, <2>3, <2>4, <2>6 DEF Components
<1> QED BY <1>3, <1>4

LEMMA PublishingStep ==
    ASSUME Kept, version # 0, Publishing, todo # <<>>, I!Operate
    PROVE  Same /\ UNCHANGED <<phase, version>> /\ Publishing'
<1>1. PICK t \in Seq(Operations) : PublishLeft("library", todo, t) /\ PublishLeft("wrapper", t, <<>>)
  BY DEF Publishing
<1>2. marker.present /\ <<>> \in Seq(Operations)
  BY ProgramsAre DEF Publishing
<1>3. CASE todo # t
  <2>1. Goes("library") /\ PublishLeft("library", todo, t)'
    BY <1>1, <1>2, <1>3, PublishStep, Two
  <2>2. Same /\ PublishLeft("wrapper", t, <<>>)'
    BY <1>1, <2>1, GoesSame, OthersWait, Two
  <2> QED BY <1>1, <1>2, <2>1, <2>2 DEF Publishing, Goes
<1>4. CASE todo = t
  <2>1. Goes("wrapper") /\ PublishLeft("wrapper", todo, <<>>)'
    BY <1>1, <1>2, <1>4, PublishStep, Two
  <2>2. Published("library")
    BY <1>1, <1>4, PartsOver, Two
  <2>3. todo' \in Seq(Operations) /\ UNCHANGED <<phase, version, marker>>
    BY <2>1 DEF Goes
  <2>4. Same /\ Published("library")'
    BY <2>1, <2>2, <2>3, GoesSame, OthersRest, Two DEF Published
  <2>5. PublishLeft("library", todo, todo)'
    BY <2>4 DEF PublishLeft, Published
  <2> QED BY <1>2, <2>1, <2>3, <2>4, <2>5 DEF Publishing
<1> QED BY <1>3, <1>4

LEMMA StagingOnly ==
    ASSUME Kept, NEW c \in Components, UNCHANGED <<phase, version, marker>>, disk' \in Disks,
           \A q \in I!Paths \ {Staging(c)} : disk'[q] = disk[q]
    PROVE  Same
<1>1. ASSUME NEW d \in Components PROVE disk'[d] = disk[d] /\ disk'[Backup(d)] = disk[Backup(d)]
  BY Places
<1>2. \A d \in Components : Recovered(d)' = Recovered(d)
  BY <1>1, RecoveredSame
<1> QED BY <1>2 DEF Same, Kept

LEMMA StagingNames ==
    /\ Staging("library") = "staging" /\ Staging("wrapper") = "wrapperStaging"
    /\ Backup("library") = "libraryBackup" /\ Backup("wrapper") = "wrapperBackup"
    /\ {"staging", "wrapperStaging", "libraryBackup", "wrapperBackup"} \subseteq I!Paths
BY DEF Staging, Backup, I!Paths, I!Directories

LEMMA DroppingStep ==
    ASSUME Kept, todo \in Droppings, todo # <<>>, I!Operate
    PROVE  Same /\ UNCHANGED <<phase, version>> /\ todo' \in Droppings
<1>1. ASSUME NEW c \in Components, NEW r \in Droppings, todo = Then(I!Remove(Staging(c)), r)
      PROVE  Same /\ UNCHANGED <<phase, version>> /\ todo' = r
  <2>1. r \in Seq(Operations) /\ Staging(c) \in I!Paths
    BY ProgramsAre, Places
  <2>2. Spare(Staging(c))
    BY DEF Spare
  <2> QED BY <1>1, <2>1, <2>2, SpareRemoved, RemoveDone
<1>2. {Then(I!Remove("wrapperStaging"), <<>>), <<>>} \subseteq Droppings
  BY DEF Droppings
<1>3. \/ todo = Then(I!Remove("staging"), Then(I!Remove("wrapperStaging"), <<>>))
      \/ todo = Then(I!Remove("wrapperStaging"), <<>>)
  BY DEF Droppings
<1> QED BY <1>1, <1>2, <1>3, StagingNames, Two

LEMMA PreparingStep ==
    ASSUME Kept, version # 0, Preparing, todo # <<>>, I!Operate
    PROVE  Same /\ UNCHANGED <<phase, version>> /\ Preparing'
<1>1. ASSUME NEW c \in Components, NEW r \in Preparations, todo = Then(I!Remove(Staging(c)), r)
      PROVE  Same /\ UNCHANGED <<phase, version>> /\ Preparing'
  <2>1. r \in Seq(Operations) /\ Staging(c) \in I!Paths
    BY ProgramsAre, Places
  <2>2. Spare(Staging(c))
    BY DEF Spare
  <2> QED BY <1>1, <2>1, <2>2, SpareRemoved, RemoveDone DEF Preparing
<1>2. ASSUME NEW c \in Components, NEW r \in Seq(Operations), todo = Then(I!Copy(Staging(c)), r)
      PROVE  /\ Same /\ UNCHANGED <<phase, version>> /\ todo' = r /\ disk'[Staging(c)] = version
             /\ \A q \in I!Paths \ {Staging(c)} : disk'[q] = disk[q]
  <2>1. Staging(c) \in I!Paths
    BY Places
  <2>2. /\ todo' = r /\ UNCHANGED <<phase, version, marker>> /\ disk' \in Disks
        /\ disk'[Staging(c)] = version /\ \A q \in I!Paths \ {Staging(c)} : disk'[q] = disk[q]
    BY <1>2, <2>1, CopyDone
  <2> QED BY <2>2, StagingOnly
<1>3. CASE todo \in Preparations \ {Copies}
  <2>1. {Then(I!Remove("wrapperStaging"), Copies), Copies} \subseteq Preparations
    BY DEF Preparations
  <2>2. \/ todo = Then(I!Remove("staging"), Then(I!Remove("wrapperStaging"), Copies))
        \/ todo = Then(I!Remove("wrapperStaging"), Copies)
    BY <1>3 DEF Preparations
  <2> QED BY <1>1, <2>1, <2>2, StagingNames, Two
<1>4. CASE todo = Copies
  <2>1. Then(I!Copy("wrapperStaging"), <<>>) \in Seq(Operations)
    BY ProgramsAre, AreOperations, ThenFacts, StagingNames
  <2>2. todo = Then(I!Copy(Staging("library")), Then(I!Copy("wrapperStaging"), <<>>))
    BY <1>4, StagingNames DEF Copies
  <2>3. /\ Same /\ UNCHANGED <<phase, version>> /\ todo' = Then(I!Copy("wrapperStaging"), <<>>)
        /\ disk'["staging"] = version
    BY <1>2, <2>1, <2>2, StagingNames, Two
  <2> QED BY <2>3 DEF Preparing, Then, I!Copy
<1>5. CASE todo = Then(I!Copy("wrapperStaging"), <<>>) /\ disk["staging"] = version
  <2>1. /\ Same /\ UNCHANGED <<phase, version>> /\ todo' = <<>> /\ disk'["wrapperStaging"] = version
        /\ \A q \in I!Paths \ {"wrapperStaging"} : disk'[q] = disk[q]
    BY <1>2, <1>5, ProgramsAre, StagingNames, Two
  <2>2. disk'["staging"] = version
    BY <1>5, <2>1, StagingNames
  <2>3. Staged'
    BY <2>1, <2>2, StagingNames DEF Staged, Components
  <2> QED BY <2>1, <2>3 DEF Preparing
<1> QED BY <1>3, <1>4, <1>5 DEF Preparing

LEMMA MarkingStep ==
    ASSUME Kept, Marking, todo # <<>>, I!Operate
    PROVE  Same /\ UNCHANGED <<phase, version>> /\ Marking'
<1>1. todo = Then(I!Mark, <<>>) /\ ~marker.present /\ Staged /\ \A c \in Components : ~There(Backup(c))
  BY DEF Marking
<1>2. /\ todo' = <<>> /\ UNCHANGED <<phase, version, disk>>
      /\ marker' = [present |-> TRUE, library |-> There("library"), wrapper |-> There("wrapper")]
  BY <1>1, MarkDone, ProgramsAre
<1>3. marker' \in Markers /\ marker'.present /\ \A c \in Components : Existed(c)' <=> There(c)
  BY <1>2 DEF Markers, There, Existed, Components
<1>4. ASSUME NEW c \in Components PROVE Recovered(c)' = Recovered(c)
  <2>1. Recovered(c) = disk[c]
    BY <1>1, RecoveredIs DEF There
  <2>2. Recovered(c)' = disk[c]
    BY <1>1, <1>2, <1>3 DEF Recovered, I!Recovered, I!Exists, There, I!None
  <2> QED BY <2>1, <2>2
<1> QED BY <1>1, <1>2, <1>3, <1>4 DEF Same, Kept, Marking, Staged, There

LEMMA CleaningStep ==
    ASSUME Kept, Coherent, version # 0, Cleaning, todo # <<>>, I!Operate
    PROVE  Kept' /\ Coherent' /\ UNCHANGED <<phase, version>> /\ Cleaning'
<1>1. \A c \in Components : disk[c] = version /\ There(c)
  BY VersionsAreWhole DEF Cleaning, Kept, There
<1>2. CASE todo = Then(I!Unmark, Then(I!Remove("libraryBackup"), Then(I!Remove("wrapperBackup"), <<>>)))
  <2>1. Then(I!Remove("libraryBackup"), Then(I!Remove("wrapperBackup"), <<>>)) \in Cleanings
    BY DEF Cleanings
  <2>2. todo' \in Cleanings /\ UNCHANGED <<phase, version, disk>> /\ marker' = I!NoMarker
    BY <1>2, <2>1, UnmarkDone, ProgramsAre
  <2>3. marker' \in Markers /\ ~marker'.present
    BY <2>2 DEF I!NoMarker, Markers
  <2>4. \A c \in Components : Recovered(c)' = version
    BY <1>1, <2>2, <2>3 DEF Recovered, I!Recovered, I!Exists, There
  <2>5. version # I!Broken
    BY VersionsAreWhole DEF Kept
  <2>6. Coherent'
    BY <2>2, <2>4, <2>5, Two DEF Coherent, I!Broken
  <2> QED BY <1>1, <2>2, <2>3, <2>6 DEF Kept, Cleaning
<1>3. ASSUME NEW c \in Components, NEW r \in Cleanings, todo = Then(I!Remove(Backup(c)), r), ~marker.present
      PROVE  Kept' /\ Coherent' /\ UNCHANGED <<phase, version>> /\ Cleaning'
  <2>1. r \in Seq(Operations) /\ Backup(c) \in I!Paths
    BY ProgramsAre, Places
  <2>2. Spare(Backup(c))
    BY <1>1, <1>3 DEF Spare
  <2>3. Same
    BY <1>3, <2>1, <2>2, SpareRemoved
  <2>4. todo' = r /\ UNCHANGED <<phase, version, marker>> /\ \A q \in I!Paths \ {Backup(c)} : disk'[q] = disk[q]
    BY <1>3, <2>1, RemoveDone
  <2>5. \A d \in Components : disk'[d] = disk[d]
    BY <2>4, Places
  <2> QED BY <1>1, <1>3, <2>3, <2>4, <2>5, SameCoherent DEF Same, Cleaning
<1>4. CASE todo \in Cleanings /\ ~marker.present
  <2>1. {Then(I!Remove("wrapperBackup"), <<>>), <<>>} \subseteq Cleanings
    BY DEF Cleanings
  <2>2. \/ todo = Then(I!Remove("libraryBackup"), Then(I!Remove("wrapperBackup"), <<>>))
        \/ todo = Then(I!Remove("wrapperBackup"), <<>>)
    BY <1>4 DEF Cleanings
  <2> QED BY <1>3, <1>4, <2>1, <2>2, StagingNames, Two
<1> QED BY <1>2, <1>4 DEF Cleaning

LEMMA OperateHolds == ASSUME InstallInv, I!Operate PROVE InstallInv'
<1>1. Kept /\ Coherent /\ Left /\ todo # <<>>
  BY DEF InstallInv, I!Operate
<1>2. CASE phase = "prepare" /\ Preparing
  <2>1. Same /\ UNCHANGED <<phase, version>> /\ Preparing'
    BY <1>1, <1>2, PreparingStep DEF Kept
  <2> QED BY <1>1, <1>2, <2>1, SameCoherent DEF InstallInv, Left, Same
<1>3. CASE phase = "recover" /\ Staged /\ Restoring(RecoverEnds)
  <2>1. /\ Same /\ UNCHANGED <<phase, version>>
        /\ Restoring(RecoverEnds)' \/ (todo' = <<>> /\ ~marker.present' /\ \A c \in Components : ~There(Backup(c))')
        /\ \A c \in Components : disk'[Staging(c)] = disk[Staging(c)]
    BY <1>1, <1>3, RestoringStep
  <2>2. Staged'
    BY <1>3, <2>1 DEF Staged
  <2>3. CASE todo' = <<>> /\ ~marker.present' /\ \A c \in Components : ~There(Backup(c))'
    <3>1. \A c \in Components : LegacyLeft(c, todo, <<>>)'
      BY <2>3 DEF LegacyLeft
    <3>2. Tidying'
      BY <2>3, <3>1, ProgramsAre, Two DEF Tidying
    <3> QED BY <1>1, <1>3, <2>1, <2>2, <3>2, SameCoherent DEF InstallInv, Left, Same
  <2>4. CASE Restoring(RecoverEnds)'
    BY <1>1, <1>3, <2>1, <2>2, <2>4, SameCoherent DEF InstallInv, Left, Same
  <2> QED BY <2>1, <2>3, <2>4
<1>4. CASE phase = "recover" /\ Staged /\ Tidying
  <2>1. Same /\ UNCHANGED <<phase, version>> /\ Tidying' /\ \A c \in Components : disk'[Staging(c)] = disk[Staging(c)]
    BY <1>1, <1>4, TidyingStep
  <2>2. Staged'
    BY <1>4, <2>1 DEF Staged
  <2> QED BY <1>1, <1>4, <2>1, <2>2, SameCoherent DEF InstallInv, Left, Same
<1>5. CASE phase = "mark" /\ Marking
  <2>1. Same /\ UNCHANGED <<phase, version>> /\ Marking'
    BY <1>1, <1>5, MarkingStep
  <2> QED BY <1>1, <1>5, <2>1, SameCoherent DEF InstallInv, Left, Same
<1>6. CASE phase = "publish" /\ Publishing
  <2>1. Same /\ UNCHANGED <<phase, version>> /\ Publishing'
    BY <1>1, <1>6, PublishingStep DEF Kept
  <2> QED BY <1>1, <1>6, <2>1, SameCoherent DEF InstallInv, Left, Same
<1>7. CASE phase = "rollback" /\ Restoring(RollbackEnds)
  <2>1. Same /\ UNCHANGED <<phase, version>> /\ (Restoring(RollbackEnds)' \/ todo' = <<>>)
    BY <1>1, <1>7, RestoringStep
  <2> QED BY <1>1, <1>7, <2>1, SameCoherent DEF InstallInv, Left, Same
<1>8. CASE phase = "clean" /\ Cleaning
  <2>1. Kept' /\ Coherent' /\ UNCHANGED <<phase, version>> /\ Cleaning'
    BY <1>1, <1>8, CleaningStep DEF Kept
  <2> QED BY <1>8, <2>1 DEF InstallInv, Left
<1>9. CASE phase = "drop" /\ todo \in Droppings
  <2>1. Same /\ UNCHANGED <<phase, version>> /\ todo' \in Droppings
    BY <1>1, <1>9, DroppingStep
  <2>2. Droppings' = Droppings
    BY DEF Droppings, I!Remove, Then
  <2> QED BY <1>1, <1>9, <2>1, <2>2, SameCoherent DEF InstallInv, Left, Same
<1> QED BY <1>1, <1>2, <1>3, <1>4, <1>5, <1>6, <1>7, <1>8, <1>9 DEF Left

-----------------------------------------------------------------------------
(* The phases' programs.                                                   *)

LEMMA FirstAndRest ==
    ASSUME NEW O, NEW s \in Seq(O), s # <<>>  PROVE s = Then(Head(s), Tail(s))
<1>1. /\ Head(s) \in O /\ Tail(s) \in Seq(O) /\ Len(Tail(s)) = Len(s) - 1 /\ Len(s) \in Nat \ {0} /\ Head(s) = s[1]
      /\ \A i \in 1 .. Len(Tail(s)) : Tail(s)[i] = s[i + 1]
  BY HeadTailProperties, EmptySeq
<1> DEFINE t == Tail(s)
           h == <<Head(s)>>
           a == h \o t
<1>2. h \in Seq(O) /\ Len(h) = 1 /\ h[1] = s[1]
  BY <1>1
<1> HIDE DEF h
<1>3. a \in Seq(O) /\ Len(a) = Len(s) /\ \A i \in 1..Len(s) : a[i] = IF i <= 1 THEN h[i] ELSE t[i - 1]
  <2>1. a \in Seq(O) /\ Len(a) = Len(h) + Len(t) /\ \A i \in 1 .. Len(h) + Len(t) : a[i] = IF i <= Len(h) THEN h[i] ELSE t[i - Len(h)]
    BY <1>1, <1>2, ConcatProperties
  <2> QED BY <1>1, <1>2, <2>1
<1> HIDE DEF a
<1>4. \A i \in 1..Len(s) : a[i] = s[i]
  BY <1>1, <1>2, <1>3
<1>5. a = s
  BY <1>3, <1>4, SeqEqual
<1> QED BY <1>5 DEF a, h, Then

LEMMA List1 == ASSUME NEW a PROVE <<a>> = Then(a, <<>>)
<1>1. <<a>> \in Seq({a}) /\ <<a>> # <<>> /\ Head(<<a>>) = a /\ Tail(<<a>>) = <<>>
  OBVIOUS
<1> QED BY <1>1, FirstAndRest

LEMMA List2 == ASSUME NEW a, NEW b PROVE <<a, b>> = Then(a, Then(b, <<>>))
<1>1. <<a, b>> \in Seq({a, b}) /\ <<a, b>> # <<>> /\ Head(<<a, b>>) = a /\ Tail(<<a, b>>) = <<b>>
  OBVIOUS
<1>2. <<a, b>> = Then(a, <<b>>)
  BY <1>1, FirstAndRest
<1> QED BY <1>2, List1

LEMMA List3 == ASSUME NEW a, NEW b, NEW c PROVE <<a, b, c>> = Then(a, Then(b, Then(c, <<>>)))
<1>1. /\ <<a, b, c>> \in Seq({a, b, c}) /\ <<a, b, c>> # <<>>
      /\ Head(<<a, b, c>>) = a /\ Tail(<<a, b, c>>) = <<b, c>>
  OBVIOUS
<1>2. <<a, b, c>> = Then(a, <<b, c>>)
  BY <1>1, FirstAndRest
<1> QED BY <1>2, List2

LEMMA List5 ==
    ASSUME NEW a, NEW b, NEW c, NEW d, NEW e
    PROVE  <<a, b, c, d, e>> = Then(a, Then(b, Then(c, Then(d, Then(e, <<>>)))))
<1>1. /\ <<b, c, d, e>> \in Seq({b, c, d, e}) /\ <<b, c, d, e>> # <<>>
      /\ Head(<<b, c, d, e>>) = b /\ Tail(<<b, c, d, e>>) = <<c, d, e>>
  OBVIOUS
<1>2. /\ <<a, b, c, d, e>> \in Seq({a, b, c, d, e}) /\ <<a, b, c, d, e>> # <<>>
      /\ Head(<<a, b, c, d, e>>) = a /\ Tail(<<a, b, c, d, e>>) = <<b, c, d, e>>
  OBVIOUS
<1>3. <<b, c, d, e>> = Then(b, <<c, d, e>>)
  BY <1>1, FirstAndRest
<1>4. <<a, b, c, d, e>> = Then(a, <<b, c, d, e>>)
  BY <1>2, FirstAndRest
<1>5. <<c, d, e>> = Then(c, Then(d, Then(e, <<>>)))
  BY List3
<1> QED BY <1>3, <1>4, <1>5

LEMMA OneThen == ASSUME NEW a, NEW s PROVE <<a>> \o s = Then(a, s)
BY DEF Then

LEMMA TwoThen ==
    ASSUME NEW a \in Operations, NEW b \in Operations, NEW s \in Seq(Operations)
    PROVE  <<a, b>> \o s = Then(a, Then(b, s))
<1>1. <<a>> \in Seq(Operations) /\ <<b>> \in Seq(Operations)
  OBVIOUS
<1>2. <<a, b>> = <<a>> \o <<b>>
  BY List1, List2 DEF Then
<1>3. (<<a>> \o <<b>>) \o s = <<a>> \o (<<b>> \o s)
  BY <1>1, ConcatAssociative
<1> QED BY <1>2, <1>3 DEF Then

LEMMA ProgramsAreWritten ==
    /\ <<I!Remove("libraryBackup"), I!Remove("wrapperBackup"), I!Unmark>> \in RecoverEnds
    /\ <<I!Remove("staging"), I!Remove("wrapperStaging"), I!Remove("libraryBackup"), I!Remove("wrapperBackup"),
         I!Unmark>> \in RollbackEnds
    /\ I!Cleaning = Then(I!Unmark, Then(I!Remove("libraryBackup"), Then(I!Remove("wrapperBackup"), <<>>)))
    /\ I!Dropping \in Droppings
    /\ I!Dropping \o <<I!Copy("staging"), I!Copy("wrapperStaging")>> \in Preparations
    /\ <<I!Mark>> = Then(I!Mark, <<>>)
<1>1. <<I!Remove("libraryBackup"), I!Remove("wrapperBackup"), I!Unmark>> = Cleared
  BY List3 DEF Cleared, Unmarked
<1>2. <<I!Remove("staging"), I!Remove("wrapperStaging"), I!Remove("libraryBackup"), I!Remove("wrapperBackup"),
        I!Unmark>> = Then(I!Remove("staging"), Then(I!Remove("wrapperStaging"), Cleared))
  BY List5 DEF Cleared, Unmarked
<1>3. I!Cleaning = Then(I!Unmark, Then(I!Remove("libraryBackup"), Then(I!Remove("wrapperBackup"), <<>>)))
  BY List3 DEF I!Cleaning
<1>4. I!Dropping = Then(I!Remove("staging"), Then(I!Remove("wrapperStaging"), <<>>))
  BY List2 DEF I!Dropping
<1>5. I!Dropping \o <<I!Copy("staging"), I!Copy("wrapperStaging")>>
      = Then(I!Remove("staging"), Then(I!Remove("wrapperStaging"), Copies))
  <2>1. <<I!Copy("staging"), I!Copy("wrapperStaging")>> = Copies
    BY List2 DEF Copies
  <2>2. I!Remove("staging") \in Operations /\ I!Remove("wrapperStaging") \in Operations
    BY AreOperations, StagingNames
  <2> QED BY <2>1, <2>2, ProgramsAre, TwoThen DEF I!Dropping
<1>6. <<I!Mark>> = Then(I!Mark, <<>>)
  BY List1
<1> QED BY <1>1, <1>2, <1>3, <1>4, <1>5, <1>6 DEF RecoverEnds, RollbackEnds, Droppings, Preparations

\* The parts of a recovery, a legacy recovery and a publication.
RestorePart(c) == I!Restore(c, Backup(c), Existed(c))
LegacyPart(c) == I!Legacy(c, Backup(c))
PublishPart(c) == (IF I!Exists(c) THEN <<I!Move(c, Backup(c))>> ELSE <<>>) \o <<I!Move(Staging(c), c)>>

LEMMA RestoreStarts ==
    ASSUME NEW c \in Components, NEW r \in Seq(Operations)
    PROVE  /\ RestorePart(c) \in Seq(Operations) /\ RestorePart(c) \o r \in Seq(Operations)
           /\ RestoreLeft(c, RestorePart(c) \o r, r)
<1>1. /\ I!Remove(c) \in Operations /\ I!Remove(Backup(c)) \in Operations /\ I!Move(Backup(c), c) \in Operations
  BY AreOperations, Places
<1>2. CASE ~Existed(c)
  <2>1. RestorePart(c) = <<I!Remove(c), I!Remove(Backup(c))>>
    BY <1>2 DEF RestorePart, I!Restore
  <2>2. RestorePart(c) \o r = Then(I!Remove(c), Then(I!Remove(Backup(c)), r))
    BY <1>1, <2>1, TwoThen
  <2> QED BY <1>1, <1>2, <2>1, <2>2 DEF RestoreLeft
<1>3. CASE Existed(c) /\ There(Backup(c))
  <2>1. RestorePart(c) = <<I!Remove(c), I!Move(Backup(c), c)>>
    BY <1>3 DEF RestorePart, I!Restore, I!Exists, There
  <2>2. RestorePart(c) \o r = Then(I!Remove(c), Then(I!Move(Backup(c), c), r))
    BY <1>1, <2>1, TwoThen
  <2> QED BY <1>1, <1>3, <2>1, <2>2 DEF RestoreLeft
<1>4. CASE Existed(c) /\ ~There(Backup(c))
  <2>1. RestorePart(c) = <<>>
    BY <1>4 DEF RestorePart, I!Restore, I!Exists, There
  <2>2. RestorePart(c) \o r = r
    BY <2>1, ConcatEmptySeq
  <2> QED BY <1>4, <2>1, <2>2 DEF RestoreLeft
<1> QED BY <1>2, <1>3, <1>4

LEMMA LegacyStarts ==
    ASSUME NEW c \in Components, NEW r \in Seq(Operations)
    PROVE  /\ LegacyPart(c) \in Seq(Operations) /\ LegacyPart(c) \o r \in Seq(Operations)
           /\ LegacyLeft(c, LegacyPart(c) \o r, r)
<1>1. I!Remove(Backup(c)) \in Operations /\ I!Move(Backup(c), c) \in Operations
  BY AreOperations, Places
<1>2. CASE ~There(Backup(c))
  <2>1. LegacyPart(c) = <<>>
    BY <1>2 DEF LegacyPart, I!Legacy, I!Exists, There
  <2>2. LegacyPart(c) \o r = r
    BY <2>1, ConcatEmptySeq
  <2> QED BY <1>2, <2>1, <2>2 DEF LegacyLeft
<1>3. CASE There(Backup(c)) /\ There(c)
  <2>1. LegacyPart(c) = <<I!Remove(Backup(c))>>
    BY <1>3 DEF LegacyPart, I!Legacy, I!Exists, There
  <2>2. LegacyPart(c) \o r = Then(I!Remove(Backup(c)), r)
    BY <1>1, <2>1, OneThen
  <2> QED BY <1>1, <1>3, <2>1, <2>2 DEF LegacyLeft
<1>4. CASE There(Backup(c)) /\ ~There(c)
  <2>1. LegacyPart(c) = <<I!Move(Backup(c), c)>>
    BY <1>4 DEF LegacyPart, I!Legacy, I!Exists, There
  <2>2. LegacyPart(c) \o r = Then(I!Move(Backup(c), c), r)
    BY <1>1, <2>1, OneThen
  <2> QED BY <1>1, <1>4, <2>1, <2>2 DEF LegacyLeft
<1> QED BY <1>2, <1>3, <1>4

LEMMA PublishStarts ==
    ASSUME NEW c \in Components, NEW r \in Seq(Operations),
           disk[Staging(c)] = version, ~There(Backup(c)), Existed(c) <=> There(c)
    PROVE  /\ PublishPart(c) \in Seq(Operations) /\ PublishPart(c) \o r \in Seq(Operations)
           /\ PublishLeft(c, PublishPart(c) \o r, r)
<1>1. I!Move(c, Backup(c)) \in Operations /\ I!Move(Staging(c), c) \in Operations
  BY AreOperations, Places
<1>2. <<I!Move(Staging(c), c)>> \in Seq(Operations) /\ <<I!Move(c, Backup(c))>> \in Seq(Operations)
  BY <1>1
<1>3. CASE ~There(c)
  <2>1. PublishPart(c) = <<I!Move(Staging(c), c)>>
    BY <1>2, <1>3, ConcatEmptySeq DEF PublishPart, I!Exists, There
  <2>2. PublishPart(c) \o r = Then(I!Move(Staging(c), c), r)
    BY <1>1, <2>1, OneThen
  <2> QED BY <1>2, <1>3, <2>1, <2>2 DEF PublishLeft
<1>4. CASE There(c)
  <2>1. PublishPart(c) = <<I!Move(c, Backup(c))>> \o <<I!Move(Staging(c), c)>>
    BY <1>4 DEF PublishPart, I!Exists, There
  <2>2. PublishPart(c) \o r = <<I!Move(c, Backup(c))>> \o (<<I!Move(Staging(c), c)>> \o r)
    BY <1>2, <2>1, ConcatAssociative
  <2>3. PublishPart(c) \o r = Then(I!Move(c, Backup(c)), Then(I!Move(Staging(c), c), r))
    BY <2>2 DEF Then
  <2>4. PublishPart(c) \in Seq(Operations)
    BY <1>2, <2>1, ConcatProperties
  <2>5. PublishPart(c) \o r \in Seq(Operations)
    BY <2>4, ConcatProperties
  <2> QED BY <1>4, <2>3, <2>4, <2>5 DEF PublishLeft
<1> QED BY <1>3, <1>4

-----------------------------------------------------------------------------
(* From one phase to the next.                                             *)

LEMMA LeftRests ==
    ASSUME UNCHANGED <<disk, marker, version>>, NEW all, NEW r, NEW c
    PROVE  /\ RestoreLeft(c, all, r) => RestoreLeft(c, all, r)'
           /\ LegacyLeft(c, all, r) => LegacyLeft(c, all, r)'
           /\ PublishLeft(c, all, r) => PublishLeft(c, all, r)'
BY DEF RestoreLeft, LegacyLeft, PublishLeft, There, Existed

\* The program of a restoration, with the end that belongs to it.
LEMMA RestorationStarts ==
    ASSUME marker.present, UNCHANGED <<disk, marker, version>>, NEW ends, NEW end \in Seq(Operations), end \in ends,
           todo' = RestorePart("library") \o RestorePart("wrapper") \o end
    PROVE  Restoring(ends)'
<1>1. /\ RestorePart("wrapper") \in Seq(Operations)
      /\ RestorePart("wrapper") \o end \in Seq(Operations) /\ RestoreLeft("wrapper", RestorePart("wrapper") \o end, end)
  BY RestoreStarts, Two
<1>2. PICK t \in Seq(Operations) : t = RestorePart("wrapper") \o end
  BY <1>1
<1>3. RestorePart("library") \in Seq(Operations) /\ RestoreLeft("library", RestorePart("library") \o t, t)
  BY RestoreStarts, Two
<1>4. todo' = RestorePart("library") \o t
  BY <1>1, <1>2, <1>3, ConcatAssociative
<1>5. RestoreLeft("library", todo', t) /\ RestoreLeft("wrapper", t, end)
  BY <1>1, <1>2, <1>3, <1>4
<1>6. PICK all : all = todo'
  OBVIOUS
<1>7. RestoreLeft("library", all, t)' /\ RestoreLeft("wrapper", t, end)'
  BY <1>5, <1>6, LeftRests
<1>8. RestoreLeft("library", todo, t)'
  BY <1>6, <1>7 DEF RestoreLeft
<1> QED BY <1>7, <1>8 DEF Restoring

LEMMA RollbackStarts ==
    ASSUME marker.present, UNCHANGED <<disk, marker, version>>, todo' = I!Rollback
    PROVE  Restoring(RollbackEnds)'
<1> DEFINE end == <<I!Remove("staging"), I!Remove("wrapperStaging"), I!Remove("libraryBackup"),
                    I!Remove("wrapperBackup"), I!Unmark>>
<1>1. end \in RollbackEnds /\ end \in Seq(Operations)
  BY ProgramsAreWritten, ProgramsAre
<1>2. I!Rollback = RestorePart("library") \o RestorePart("wrapper") \o end
  BY StagingNames, Two DEF I!Rollback, RestorePart, Existed
<1> QED BY <1>1, <1>2, RestorationStarts

LEMMA RecoveryStarts ==
    ASSUME UNCHANGED <<disk, marker, version>>, todo' = I!Recovery
    PROVE  Restoring(RecoverEnds)' \/ Tidying'
<1>1. CASE marker.present
  <2> DEFINE end == <<I!Remove("libraryBackup"), I!Remove("wrapperBackup"), I!Unmark>>
  <2>1. end \in RecoverEnds /\ end \in Seq(Operations)
    BY ProgramsAreWritten, ProgramsAre DEF RollbackEnds
  <2>2. I!Recovery = RestorePart("library") \o RestorePart("wrapper") \o end
    BY <1>1, StagingNames, Two DEF I!Recovery, RestorePart, Existed
  <2> QED BY <1>1, <2>1, <2>2, RestorationStarts
<1>2. CASE ~marker.present
  <2>1. /\ LegacyPart("wrapper") \in Seq(Operations) /\ <<>> \in Seq(Operations)
        /\ LegacyLeft("wrapper", LegacyPart("wrapper") \o <<>>, <<>>)
    BY LegacyStarts, ProgramsAre, Two
  <2>2. PICK t \in Seq(Operations) : t = LegacyPart("wrapper")
    BY <2>1
  <2>3. LegacyLeft("wrapper", t, <<>>)
    BY <2>1, <2>2, ConcatEmptySeq
  <2>4. LegacyLeft("library", LegacyPart("library") \o t, t)
    BY LegacyStarts, Two
  <2>5. todo' = LegacyPart("library") \o t
    BY <1>2, <2>2, StagingNames DEF I!Recovery, LegacyPart
  <2>6. PICK all : all = todo'
    OBVIOUS
  <2>7. LegacyLeft("library", all, t)' /\ LegacyLeft("wrapper", t, <<>>)'
    BY <2>3, <2>4, <2>5, <2>6, LeftRests
  <2>8. LegacyLeft("library", todo, t)'
    BY <2>6, <2>7 DEF LegacyLeft
  <2> QED BY <1>2, <2>7, <2>8 DEF Tidying
<1> QED BY <1>1, <1>2

LEMMA PublicationStarts ==
    ASSUME Marking, todo = <<>>, UNCHANGED <<disk, marker, version>>, todo' = I!Publication
    PROVE  Publishing'
<1>1. todo # Then(I!Mark, <<>>)
  BY AreOperations, ProgramsAre, ThenFacts
<1>2. marker.present /\ \A c \in Components : disk[Staging(c)] = version /\ ~There(Backup(c)) /\ (Existed(c) <=> There(c))
  BY <1>1 DEF Marking, Staged
<1>3. /\ PublishPart("wrapper") \in Seq(Operations) /\ <<>> \in Seq(Operations)
      /\ PublishLeft("wrapper", PublishPart("wrapper") \o <<>>, <<>>)
  BY <1>2, PublishStarts, ProgramsAre, Two
<1>4. PICK t \in Seq(Operations) : t = PublishPart("wrapper")
  BY <1>3
<1>5. PublishLeft("wrapper", t, <<>>)
  BY <1>3, <1>4, ConcatEmptySeq
<1>6. PublishLeft("library", PublishPart("library") \o t, t) /\ PublishPart("library") \in Seq(Operations)
  BY <1>2, PublishStarts, Two
<1>7. todo' = PublishPart("library") \o t
  <2> DEFINE b == IF I!Exists("wrapper") THEN <<I!Move("wrapper", "wrapperBackup")>> ELSE <<>>
             m == <<I!Move("wrapperStaging", "wrapper")>>
  <2>1. b \in Seq(Operations) /\ m \in Seq(Operations) /\ t = b \o m
    <3>1. I!Move("wrapper", "wrapperBackup") \in Operations /\ I!Move("wrapperStaging", "wrapper") \in Operations
      BY AreOperations, Places, StagingNames, Two
    <3> QED BY <1>4, <3>1, StagingNames DEF PublishPart
  <2>2. todo' = (PublishPart("library") \o b) \o m
    BY StagingNames DEF I!Publication, PublishPart
  <2> HIDE DEF b, m
  <2> QED BY <1>6, <2>1, <2>2, ConcatAssociative
<1>8. PICK all : all = todo'
  OBVIOUS
<1>9. PublishLeft("library", all, t)' /\ PublishLeft("wrapper", t, <<>>)'
  BY <1>5, <1>6, <1>7, <1>8, LeftRests
<1>10. PublishLeft("library", todo, t)'
  BY <1>8, <1>9 DEF PublishLeft
<1> QED BY <1>2, <1>9, <1>10 DEF Publishing

LEMMA OverIsOver ==
    ASSUME NEW c \in Components, NEW r \in Seq(Operations)
    PROVE  /\ RestoreLeft(c, <<>>, r) => r = <<>>
           /\ LegacyLeft(c, <<>>, r) => r = <<>>
           /\ PublishLeft(c, <<>>, r) => r = <<>>
<1>1. /\ I!Remove(c) \in Operations /\ I!Remove(Backup(c)) \in Operations /\ I!Move(Backup(c), c) \in Operations
      /\ I!Move(c, Backup(c)) \in Operations /\ I!Move(Staging(c), c) \in Operations
  BY AreOperations, Places
<1>2. \A o \in Operations, s \in Seq(Operations) : Then(o, s) \in Seq(Operations) /\ Then(o, s) # <<>>
  BY ThenFacts
<1> QED BY <1>1, <1>2 DEF RestoreLeft, LegacyLeft, PublishLeft

LEMMA EndsAreNotOver == \A r \in RollbackEnds \cup Preparations : r # <<>>
<1>1. \A o \in Operations, s \in Seq(Operations) : Then(o, s) \in Seq(Operations) /\ Then(o, s) # <<>>
  BY ThenFacts
<1>2. \A p \in {"libraryBackup", "wrapperBackup", "staging", "wrapperStaging"} :
        I!Remove(p) \in Operations /\ I!Copy(p) \in Operations
  BY AreOperations, StagingNames
<1>3. <<>> \in Seq(Operations) /\ Unmarked \in Seq(Operations) /\ Cleared \in Seq(Operations) /\ Copies \in Seq(Operations)
  BY ProgramsAre
<1>4. Unmarked # <<>> /\ Cleared # <<>> /\ Copies # <<>>
  BY <1>1, <1>2, <1>3, AreOperations DEF Unmarked, Cleared, Copies
<1> QED BY <1>1, <1>2, <1>3, <1>4 DEF RollbackEnds, RecoverEnds, Preparations

LEMMA RestoringGoesOn ==
    ASSUME NEW ends, ends \in {RecoverEnds, RollbackEnds}, Restoring(ends) PROVE todo # <<>>
<1>1. PICK t \in Seq(Operations), r \in Seq(Operations) :
        RestoreLeft("library", todo, t) /\ RestoreLeft("wrapper", t, r) /\ r \in ends
  BY DEF Restoring
<1>2. r # <<>>
  BY <1>1, EndsAreNotOver DEF RollbackEnds
<1> QED BY <1>1, <1>2, OverIsOver, Two

LEMMA TidyIsTidy == ASSUME Tidying, todo = <<>> PROVE ~marker.present /\ \A c \in Components : ~There(Backup(c))
<1>1. PICK t \in Seq(Operations) : LegacyLeft("library", todo, t) /\ LegacyLeft("wrapper", t, <<>>)
  BY DEF Tidying
<1>2. t = <<>> /\ <<>> \in Seq(Operations)
  BY <1>1, OverIsOver, ProgramsAre, Two
<1> QED BY <1>1, <1>2, PartsOver, Two DEF Tidying, Components

LEMMA PublishedIsPublished ==
    ASSUME Publishing, todo = <<>> PROVE marker.present /\ \A c \in Components : disk[c] = version
<1>1. PICK t \in Seq(Operations) : PublishLeft("library", todo, t) /\ PublishLeft("wrapper", t, <<>>)
  BY DEF Publishing
<1>2. t = <<>> /\ <<>> \in Seq(Operations)
  BY <1>1, OverIsOver, ProgramsAre, Two
<1> QED BY <1>1, <1>2, PartsOver, Two DEF Publishing, Published, Components

LEMMA StillCoherent ==
    ASSUME Kept, Coherent, UNCHANGED <<disk, marker, version>>, phase' # "idle" => version # 0
    PROVE  Kept' /\ Coherent'
BY DEF Kept, Coherent, Disks, Markers, Recovered, I!Recovered, I!Exists, Existed, I!Broken

LEMMA ProceedHolds == ASSUME InstallInv, I!Proceed PROVE InstallInv'
<1>1. Kept /\ Coherent /\ Left /\ phase # "idle" /\ todo = <<>> /\ UNCHANGED <<disk, marker, version>>
  BY DEF InstallInv, I!Proceed
<1>2. Kept' /\ Coherent'
  BY <1>1, StillCoherent DEF Kept
<1>3. CASE phase = "prepare" /\ I!Enter("recover", I!Recovery)
  <2>1. Then(I!Copy("wrapperStaging"), <<>>) # <<>>
    BY AreOperations, ThenFacts, ProgramsAre, StagingNames
  <2>2. Staged
    BY <1>1, <1>3, <2>1, EndsAreNotOver DEF Left, Preparing
  <2>3. Staged'
    BY <1>1, <2>2 DEF Staged
  <2>4. Restoring(RecoverEnds)' \/ Tidying'
    BY <1>1, <1>3, RecoveryStarts DEF I!Enter
  <2> QED BY <1>2, <1>3, <2>3, <2>4 DEF InstallInv, Left, I!Enter
<1>4. CASE phase = "recover" /\ I!Enter("mark", <<I!Mark>>)
  <2>1. Staged /\ ~marker.present /\ \A c \in Components : ~There(Backup(c))
    BY <1>1, <1>4, RestoringGoesOn, TidyIsTidy DEF Left
  <2>2. todo' = Then(I!Mark, <<>>) /\ phase' = "mark"
    BY <1>4, ProgramsAreWritten DEF I!Enter
  <2>3. I!Mark' = I!Mark
    BY DEF I!Mark
  <2>4. Marking'
    BY <1>1, <2>1, <2>2, <2>3 DEF Marking, Staged, There, Then
  <2> QED BY <1>2, <2>2, <2>4 DEF InstallInv, Left
<1>5. CASE phase = "mark" /\ I!Enter("publish", I!Publication)
  <2>1. Marking
    BY <1>1, <1>5 DEF Left
  <2>2. Publishing'
    BY <1>1, <1>5, <2>1, PublicationStarts DEF I!Enter
  <2> QED BY <1>2, <1>5, <2>2 DEF InstallInv, Left, I!Enter
<1>6. CASE phase = "publish" /\ I!Enter("clean", I!Cleaning)
  <2>1. marker.present /\ \A c \in Components : disk[c] = version
    BY <1>1, <1>6, PublishedIsPublished DEF Left
  <2>2. todo' = Then(I!Unmark, Then(I!Remove("libraryBackup"), Then(I!Remove("wrapperBackup"), <<>>)))
    BY <1>6, ProgramsAreWritten DEF I!Enter
  <2>3. Cleaning'
    BY <1>1, <2>1, <2>2 DEF Cleaning, Then, I!Unmark, I!Remove
  <2> QED BY <1>2, <1>6, <2>3 DEF InstallInv, Left, I!Enter
<1>7. CASE phase = "rollback" /\ I!Enter("drop", I!Dropping)
  <2>1. todo' \in Droppings'
    BY <1>7, ProgramsAreWritten DEF I!Enter, Droppings, Then, I!Remove
  <2> QED BY <1>2, <1>7, <2>1 DEF InstallInv, Left, I!Enter
<1>8. CASE I!Enter("idle", <<>>)
  BY <1>2, <1>8 DEF InstallInv, Left, I!Enter
<1> QED BY <1>3, <1>4, <1>5, <1>6, <1>7, <1>8 DEF I!Proceed

LEMMA InstallStarts == ASSUME InstallInv, I!Install PROVE InstallInv'
<1>1. /\ Kept /\ Coherent /\ version' = version + 1 /\ version < MaxInstalls /\ UNCHANGED <<disk, marker>>
      /\ phase' = "prepare" /\ todo' \in Preparations
  BY ProgramsAreWritten DEF InstallInv, I!Install, I!Enter
<1>2. version' \in 0..MaxInstalls /\ version' # 0
  BY <1>1, DiscordAssumption DEF Kept
<1>3. Kept' /\ Coherent'
  BY <1>1, <1>2 DEF Kept, Coherent, Disks, Markers, Recovered, I!Recovered, I!Exists, Existed, I!Broken
<1>4. Preparations' = Preparations
  BY DEF Preparations, Copies, Then, I!Remove, I!Copy
<1> QED BY <1>1, <1>3, <1>4 DEF InstallInv, Left, Preparing

-----------------------------------------------------------------------------
(* An operation that fails, and a death, halfway.                          *)

Harmless(o) ==
    /\ o \in Operations
    /\ o.op = "remove" => Spare(o.from)
    /\ o.op = "copy" => \E c \in Components : o.from = Staging(c)

LEMMA HarmlessAre ==
    /\ \A p \in I!Paths : Spare(p) => Harmless(I!Remove(p))
    /\ \A c \in Components : Harmless(I!Copy(Staging(c))) /\ Harmless(I!Remove(Staging(c)))
    /\ \A p, q \in I!Paths : Harmless(I!Move(p, q))
    /\ Harmless(I!Mark) /\ Harmless(I!Unmark)
<1>1. ASSUME NEW p \in I!Paths, Spare(p) PROVE Harmless(I!Remove(p))
  BY <1>1, AreOperations DEF Harmless, I!Remove
<1>2. ASSUME NEW c \in Components PROVE Harmless(I!Copy(Staging(c))) /\ Harmless(I!Remove(Staging(c)))
  <2>1. Spare(Staging(c)) /\ Staging(c) \in I!Paths
    BY Places DEF Spare
  <2> QED BY <1>1, <2>1, AreOperations DEF Harmless, I!Copy
<1>3. ASSUME NEW p \in I!Paths, NEW q \in I!Paths PROVE Harmless(I!Move(p, q))
  BY AreOperations DEF Harmless, I!Move
<1>4. Harmless(I!Mark) /\ Harmless(I!Unmark)
  BY AreOperations DEF Harmless, I!Mark, I!Unmark
<1> QED BY <1>1, <1>2, <1>3, <1>4

\* What follows a harmless operation is of no account.
LEMMA HeadIs ==
    ASSUME NEW o, Harmless(o), NEW s \in Seq(Operations), todo = Then(o, s) PROVE Harmless(Head(todo))
BY ThenFacts DEF Harmless

LEMMA RestoringHarmless ==
    ASSUME NEW c \in Components, NEW r \in Seq(Operations), marker.present, RestoreLeft(c, todo, r)
    PROVE  Harmless(Head(todo)) \/ (todo = r /\ Restored(c))
<1>1. c \in I!Paths /\ Backup(c) \in I!Paths
  BY Places
<1>2. Then(I!Remove(Backup(c)), r) \in Seq(Operations) /\ Then(I!Move(Backup(c), c), r) \in Seq(Operations)
  BY <1>1, AreOperations, ThenFacts
<1>3. ASSUME ~Existed(c) PROVE Harmless(I!Remove(c)) /\ Harmless(I!Remove(Backup(c)))
  BY <1>1, <1>3, HarmlessAre DEF Spare
<1>4. ASSUME There(Backup(c)) PROVE Harmless(I!Remove(c))
  BY <1>1, <1>4, HarmlessAre DEF Spare
<1>5. Harmless(I!Move(Backup(c), c))
  BY <1>1, HarmlessAre
<1> QED BY <1>2, <1>3, <1>4, <1>5, HeadIs DEF RestoreLeft, Restored

LEMMA EndHarmless ==
    ASSUME marker.present, \A c \in Components : Restored(c), todo \in RollbackEnds PROVE Harmless(Head(todo))
<1>1. ASSUME NEW c \in Components
      PROVE  Harmless(I!Remove(Backup(c))) /\ Harmless(I!Remove(Staging(c))) /\ Harmless(I!Unmark)
  BY <1>1, HarmlessAre, Places DEF Spare, Restored
<1>2. Unmarked \in Seq(Operations) /\ Cleared \in Seq(Operations) /\ <<>> \in Seq(Operations)
  BY ProgramsAre
<1>3. /\ Then(I!Remove("wrapperBackup"), Unmarked) \in Seq(Operations)
      /\ Then(I!Remove("wrapperStaging"), Cleared) \in Seq(Operations)
  BY <1>2, AreOperations, ThenFacts, StagingNames
<1>4. /\ Harmless(I!Remove("libraryBackup")) /\ Harmless(I!Remove("wrapperBackup")) /\ Harmless(I!Unmark)
      /\ Harmless(I!Remove("staging")) /\ Harmless(I!Remove("wrapperStaging"))
  BY <1>1, StagingNames, Two
<1>5. CASE todo = Unmarked
  BY <1>2, <1>4, <1>5, HeadIs DEF Unmarked
<1>6. CASE todo = Then(I!Remove("wrapperBackup"), Unmarked)
  BY <1>2, <1>4, <1>6, HeadIs
<1>7. CASE todo = Cleared
  BY <1>3, <1>4, <1>7, HeadIs DEF Cleared
<1>8. CASE todo = Then(I!Remove("wrapperStaging"), Cleared)
  BY <1>2, <1>4, <1>8, HeadIs
<1>9. CASE todo = Then(I!Remove("staging"), Then(I!Remove("wrapperStaging"), Cleared))
  BY <1>3, <1>4, <1>9, HeadIs
<1> QED BY <1>5, <1>6, <1>7, <1>8, <1>9 DEF RollbackEnds, RecoverEnds

LEMMA HeadHarmless == ASSUME InstallInv, todo # <<>> PROVE Harmless(Head(todo))
<1>1. Kept /\ Left
  BY DEF InstallInv
<1>2. <<>> \in Seq(Operations) /\ Copies \in Seq(Operations)
  BY ProgramsAre
<1>3. /\ Harmless(I!Remove("staging")) /\ Harmless(I!Remove("wrapperStaging"))
      /\ Harmless(I!Copy("staging")) /\ Harmless(I!Copy("wrapperStaging"))
  BY HarmlessAre, StagingNames, Two
<1>4. /\ Then(I!Remove("wrapperStaging"), <<>>) \in Seq(Operations)
      /\ Then(I!Remove("wrapperStaging"), Copies) \in Seq(Operations)
      /\ Then(I!Copy("wrapperStaging"), <<>>) \in Seq(Operations)
      /\ Then(I!Remove("wrapperBackup"), <<>>) \in Seq(Operations)
      /\ Then(I!Remove("libraryBackup"), Then(I!Remove("wrapperBackup"), <<>>)) \in Seq(Operations)
  BY <1>2, AreOperations, ThenFacts, StagingNames
<1>5. CASE Preparing
  <2>1. \/ todo = Then(I!Remove("staging"), Then(I!Remove("wrapperStaging"), Copies))
        \/ todo = Then(I!Remove("wrapperStaging"), Copies)
        \/ todo = Then(I!Copy("staging"), Then(I!Copy("wrapperStaging"), <<>>))
        \/ todo = Then(I!Copy("wrapperStaging"), <<>>)
    BY <1>5 DEF Preparing, Preparations, Copies
  <2> QED BY <1>2, <1>3, <1>4, <2>1, HeadIs
<1>6. ASSUME NEW ends, ends \in {RecoverEnds, RollbackEnds}, Restoring(ends) PROVE Harmless(Head(todo))
  <2>1. PICK t \in Seq(Operations), r \in Seq(Operations) :
          RestoreLeft("library", todo, t) /\ RestoreLeft("wrapper", t, r) /\ r \in ends
    BY <1>6 DEF Restoring
  <2>2. marker.present
    BY <1>6 DEF Restoring
  <2>3. r \in RollbackEnds
    BY <1>6, <2>1 DEF RollbackEnds
  <2>4. CASE todo = t /\ Restored("library")
    <3>1. Harmless(Head(todo)) \/ (todo = r /\ Restored("wrapper"))
      BY <2>1, <2>2, <2>4, RestoringHarmless, Two
    <3> QED BY <2>2, <2>3, <2>4, <3>1, EndHarmless DEF Components
  <2> QED BY <2>1, <2>2, <2>4, RestoringHarmless, Two
<1>7. CASE Tidying
  <2>1. PICK t \in Seq(Operations) : LegacyLeft("library", todo, t) /\ LegacyLeft("wrapper", t, <<>>)
    BY <1>7 DEF Tidying
  <2>2. ASSUME NEW c \in Components, NEW r \in Seq(Operations), LegacyLeft(c, todo, r)
        PROVE  Harmless(Head(todo)) \/ todo = r
    <3>1. There(c) => Harmless(I!Remove(Backup(c)))
      BY <1>7, HarmlessAre, Places DEF Spare, Tidying
    <3>2. Harmless(I!Move(Backup(c), c))
      BY HarmlessAre, Places
    <3> QED BY <2>2, <3>1, <3>2, HeadIs DEF LegacyLeft
  <2>3. Harmless(Head(todo)) \/ todo = t
    BY <2>1, <2>2, Two
  <2>4. todo = t => Harmless(Head(todo)) \/ todo = <<>>
    BY <1>2, <2>1, <2>2, Two
  <2> QED BY <2>3, <2>4
<1>8. CASE Publishing
  <2>1. PICK t \in Seq(Operations) : PublishLeft("library", todo, t) /\ PublishLeft("wrapper", t, <<>>)
    BY <1>8 DEF Publishing
  <2>2. ASSUME NEW c \in Components, NEW r \in Seq(Operations), PublishLeft(c, todo, r)
        PROVE  Harmless(Head(todo)) \/ todo = r
    <3>1. Harmless(I!Move(c, Backup(c))) /\ Harmless(I!Move(Staging(c), c))
      BY HarmlessAre, Places
    <3>2. Then(I!Move(Staging(c), c), r) \in Seq(Operations)
      BY AreOperations, Places, ThenFacts
    <3> QED BY <2>2, <3>1, <3>2, HeadIs DEF PublishLeft
  <2>3. Harmless(Head(todo)) \/ todo = t
    BY <2>1, <2>2, Two
  <2>4. todo = t => Harmless(Head(todo)) \/ todo = <<>>
    BY <1>2, <2>1, <2>2, Two
  <2> QED BY <2>3, <2>4
<1>9. CASE Marking
  BY <1>2, <1>9, HarmlessAre, HeadIs DEF Marking
<1>10. CASE phase = "clean" /\ Cleaning
  <2>1. version # 0
    BY <1>1, <1>10 DEF Kept
  <2>2. \A c \in Components : There(c)
    BY <1>1, <1>10, <2>1, VersionsAreWhole DEF Cleaning, Kept, There
  <2>3. ~marker.present => Harmless(I!Remove("libraryBackup")) /\ Harmless(I!Remove("wrapperBackup"))
    BY <2>2, HarmlessAre, StagingNames, Two DEF Spare
  <2>4. \/ todo = Then(I!Unmark, Then(I!Remove("libraryBackup"), Then(I!Remove("wrapperBackup"), <<>>)))
        \/ ~marker.present /\ \/ todo = Then(I!Remove("libraryBackup"), Then(I!Remove("wrapperBackup"), <<>>))
                              \/ todo = Then(I!Remove("wrapperBackup"), <<>>)
    BY <1>10 DEF Cleaning, Cleanings
  <2> QED BY <1>2, <1>4, <2>3, <2>4, HarmlessAre, HeadIs
<1>11. CASE todo \in Droppings
  <2>1. \/ todo = Then(I!Remove("staging"), Then(I!Remove("wrapperStaging"), <<>>))
        \/ todo = Then(I!Remove("wrapperStaging"), <<>>)
    BY <1>11 DEF Droppings
  <2> QED BY <1>2, <1>3, <1>4, <2>1, HeadIs
<1> QED BY <1>1, <1>5, <1>6, <1>7, <1>8, <1>9, <1>10, <1>11 DEF Left

LEMMA HalfIsHarmless ==
    ASSUME InstallInv, todo # <<>>, disk' \in I!Half, UNCHANGED <<marker, version>>
    PROVE  Same /\ (phase = "publish" => disk' = disk)
<1>1. Kept /\ Harmless(Head(todo)) /\ phase # "idle" /\ version # 0
  BY HeadHarmless DEF InstallInv, Kept, Left
<1>2. PICK o \in Operations : o = Head(todo)
  BY <1>1 DEF Harmless
<1>3. \/ disk' = disk
      \/ /\ disk' = [disk EXCEPT ![o.from] = I!Broken]
         /\ o.op = "copy" \/ (o.op = "remove" /\ There(o.from))
  BY <1>2 DEF I!Half, I!Exists, There
<1>4. o.from \in I!Paths
  BY DEF Operations
<1>5. disk' \in Disks
  BY <1>1, <1>3, <1>4 DEF Kept, Disks
<1>6. Kept'
  BY <1>1, <1>5 DEF Kept, Disks, Markers, I!Broken, I!Versions, I!None
<1>7. \A c \in Components : Recovered(c)' = Recovered(c)
  <2>1. CASE disk' = disk
    BY <2>1, RecoveredSame
  <2>2. CASE disk' = [disk EXCEPT ![o.from] = I!Broken] /\ o.op = "remove" /\ There(o.from)
    <3>1. Spare(o.from)
      BY <1>1, <1>2, <2>2 DEF Harmless
    <3> QED BY <1>1, <2>2, <3>1, SpareChanges
  <2>3. CASE disk' = [disk EXCEPT ![o.from] = I!Broken] /\ o.op = "copy"
    <3>1. PICK c \in Components : o.from = Staging(c)
      BY <1>1, <1>2, <2>3 DEF Harmless
    <3>2. ASSUME NEW d \in Components PROVE disk'[d] = disk[d] /\ disk'[Backup(d)] = disk[Backup(d)]
      BY <1>1, <2>3, <3>1, Places DEF Kept, Disks
    <3> QED BY <3>2, RecoveredSame
  <2> QED BY <1>3, <2>1, <2>2, <2>3
<1>8. phase = "publish" => o.op = "move"
  <2> SUFFICES ASSUME phase = "publish" PROVE o.op = "move"
    OBVIOUS
  <2>1. PICK t \in Seq(Operations) : PublishLeft("library", todo, t) /\ PublishLeft("wrapper", t, <<>>)
    BY DEF InstallInv, Left, Publishing
  <2>2. ASSUME NEW c \in Components, NEW r \in Seq(Operations), PublishLeft(c, todo, r)
        PROVE  o.op = "move" \/ todo = r
    <3>1. /\ I!Move(c, Backup(c)) \in Operations /\ I!Move(Staging(c), c) \in Operations
          /\ Then(I!Move(Staging(c), c), r) \in Seq(Operations)
      BY AreOperations, Places, ThenFacts
    <3>2. I!Move(c, Backup(c)).op = "move" /\ I!Move(Staging(c), c).op = "move"
      BY DEF I!Move
    <3>3. ASSUME NEW p \in Operations, NEW s \in Seq(Operations), todo = Then(p, s) PROVE o = p
      BY <1>2, <3>3, ThenFacts
    <3> QED BY <2>2, <3>1, <3>2, <3>3 DEF PublishLeft
  <2>3. o.op = "move" \/ todo = t
    BY <2>1, <2>2, Two
  <2>4. todo = t => o.op = "move" \/ todo = <<>>
    BY <2>1, <2>2, ProgramsAre, Two
  <2> QED BY <2>3, <2>4
<1> QED BY <1>3, <1>6, <1>7, <1>8 DEF Same

LEMMA FailHolds == ASSUME InstallInv, I!Fail PROVE InstallInv'
<1>1. todo # <<>> /\ disk' \in I!Half /\ UNCHANGED <<marker, version>>
  BY DEF I!Fail
<1>2. Same /\ Coherent' /\ (phase = "publish" => disk' = disk)
  BY <1>1, HalfIsHarmless, SameCoherent DEF InstallInv
<1>3. CASE phase = "publish"
  <2>1. I!Enter("rollback", I!Rollback) /\ marker.present
    BY <1>3 DEF I!Fail, InstallInv, Left, Publishing
  <2>2. Restoring(RollbackEnds)'
    BY <1>1, <1>2, <1>3, <2>1, RollbackStarts DEF I!Enter
  <2> QED BY <1>2, <2>1, <2>2 DEF InstallInv, Left, I!Enter, Same
<1>4. CASE I!Enter("drop", I!Dropping)
  <2>1. todo' \in Droppings'
    BY <1>4, ProgramsAreWritten DEF I!Enter, Droppings, Then, I!Remove
  <2> QED BY <1>2, <1>4, <2>1 DEF InstallInv, Left, I!Enter, Same
<1>5. CASE I!Enter("idle", <<>>)
  BY <1>2, <1>5 DEF InstallInv, Left, I!Enter, Same
<1> QED BY <1>3, <1>4, <1>5 DEF I!Fail

LEMMA DieHolds == ASSUME InstallInv, I!Die PROVE InstallInv'
<1>1. I!Enter("idle", <<>>) /\ UNCHANGED <<marker, version>> /\ phase # "idle"
  BY DEF I!Die
<1>2. CASE todo = <<>>
  <2>1. disk' = disk
    BY <1>2 DEF I!Die
  <2> QED BY <1>1, <2>1, StillCoherent DEF InstallInv, Left, I!Enter, Kept
<1>3. CASE todo # <<>>
  <2>1. Same /\ Coherent'
    BY <1>1, <1>3, HalfIsHarmless, SameCoherent DEF I!Die, InstallInv
  <2> QED BY <1>1, <2>1 DEF InstallInv, Left, I!Enter, Same
<1> QED BY <1>2, <1>3

-----------------------------------------------------------------------------
(* The pair is whole.                                                      *)

LEMMA InstallHolds == ASSUME InstallInv, [I!Next]_(I!vars) PROVE InstallInv'
<1>1. CASE UNCHANGED I!vars
  <2>1. Kept' /\ Coherent' /\ UNCHANGED <<disk, marker, todo, phase, version>>
    BY <1>1, StillCoherent DEF InstallInv, I!vars, Kept
  <2>2. Left'
    BY <2>1, SMTT(60) DEF InstallInv, Left, Preparing, Staged, Restoring, Tidying, Marking, Publishing, Cleaning, RestoreLeft,
           LegacyLeft, PublishLeft, There, Existed
  <2> QED BY <2>1, <2>2 DEF InstallInv
<1> QED BY <1>1, InstallStarts, OperateHolds, ProceedHolds, FailHolds, DieHolds DEF I!Next

LEMMA InstallInit == ASSUME I!Init PROVE InstallInv
<1>1. Kept /\ Left
  BY DiscordAssumption DEF I!Init, Kept, Left, Disks, Markers, I!NoMarker
<1>2. Recovered("library") = I!None /\ Recovered("wrapper") = I!None
  BY DEF I!Init, Recovered, I!Recovered, I!Exists, I!NoMarker, Backup, I!Paths, I!Directories
<1>3. I!None # I!Broken
  BY DiscordAssumption DEF I!None, I!Broken
<1> QED BY <1>1, <1>2, <1>3 DEF InstallInv, Coherent

\* An install, a rollback or a recovery, wherever it dies or fails, leaves library
\* and wrapper such that a recovery makes them whole and of one version.
THEOREM InstallsAreWhole == MCSpec => []PairCoherent
<1>1. MCInit => InstallInv
  BY InstallInit DEF MCInit
<1>2. InstallInv /\ [MCNext]_mcVars => InstallInv'
  <2> SUFFICES ASSUME InstallInv, [MCNext]_mcVars PROVE InstallInv'
    OBVIOUS
  <2>1. [I!Next]_(I!vars)
    BY DEF MCNext, mcVars, installVars, I!vars
  <2> QED BY <2>1, InstallHolds
<1>3. InstallInv => PairCoherent
  BY DEF InstallInv, Coherent, Recovered, Backup, Existed, PairCoherent, I!PairCoherent
<1> QED BY <1>1, <1>2, <1>3, PTL DEF MCSpec
-----------------------------------------------------------------------------
(* The installer: what is to be done is a list of operations.              *)

TodoTyped == todo \in Seq(Operations)

LEMMA OneOperation == ASSUME NEW a \in Operations  PROVE <<a>> \in Seq(Operations)
OBVIOUS
LEMMA TwoOperations == ASSUME NEW a \in Operations, NEW b \in Operations  PROVE <<a, b>> \in Seq(Operations)
OBVIOUS

LEMMA RestoreTyped ==
    ASSUME NEW c \in Components, NEW existed
    PROVE  I!Restore(c, Backup(c), existed) \in Seq(Operations) /\ I!Legacy(c, Backup(c)) \in Seq(Operations)
<1>1. c \in I!Paths /\ Backup(c) \in I!Paths
  BY Places
<1>2. /\ <<I!Remove(c), I!Remove(Backup(c))>> \in Seq(Operations)
      /\ <<I!Remove(c), I!Move(Backup(c), c)>> \in Seq(Operations)
      /\ <<I!Remove(Backup(c))>> \in Seq(Operations) /\ <<I!Move(Backup(c), c)>> \in Seq(Operations)
  BY <1>1, AreOperations, OneOperation, TwoOperations
<1>3. <<>> \in Seq(Operations)
  OBVIOUS
<1> QED BY <1>2, <1>3 DEF I!Restore, I!Legacy

LEMMA ProgramsTyped ==
    /\ I!Recovery \in Seq(Operations) /\ I!Publication \in Seq(Operations) /\ I!Rollback \in Seq(Operations)
    /\ I!Cleaning \in Seq(Operations) /\ I!Dropping \in Seq(Operations)
    /\ I!Dropping \o <<I!Copy("staging"), I!Copy("wrapperStaging")>> \in Seq(Operations)
    /\ <<I!Mark>> \in Seq(Operations)
<1>1. /\ "library" \in Components /\ "wrapper" \in Components
      /\ Backup("library") = "libraryBackup" /\ Backup("wrapper") = "wrapperBackup"
  BY DEF Components, Backup
<1>2. /\ \A e : I!Restore("library", "libraryBackup", e) \in Seq(Operations)
      /\ \A e : I!Restore("wrapper", "wrapperBackup", e) \in Seq(Operations)
      /\ I!Legacy("library", "libraryBackup") \in Seq(Operations)
      /\ I!Legacy("wrapper", "wrapperBackup") \in Seq(Operations)
  BY <1>1, RestoreTyped
<1>3. \A p \in {"library", "libraryBackup", "staging", "wrapper", "wrapperBackup", "wrapperStaging"} : p \in I!Paths
  BY DEF I!Paths, I!Directories
<1>4. <<I!Remove("libraryBackup"), I!Remove("wrapperBackup"), I!Unmark>> \in Seq(Operations)
  BY <1>3, AreOperations
<1>5. /\ <<I!Remove("staging"), I!Remove("wrapperStaging"),
           I!Remove("libraryBackup"), I!Remove("wrapperBackup"), I!Unmark>> \in Seq(Operations)
  BY <1>3, AreOperations
<1>6. \A r, s \in Seq(Operations) : r \o s \in Seq(Operations)
  OBVIOUS
<1>7. I!Recovery \in Seq(Operations)
  BY <1>2, <1>4, <1>6, Zenon DEF I!Recovery
<1>8. I!Rollback \in Seq(Operations)
  BY <1>2, <1>5, <1>6, Zenon DEF I!Rollback
<1>9. I!Cleaning \in Seq(Operations)
  BY <1>3, AreOperations DEF I!Cleaning
<1>10. I!Dropping \in Seq(Operations)
  BY <1>3, AreOperations DEF I!Dropping
<1>11. <<I!Copy("staging"), I!Copy("wrapperStaging")>> \in Seq(Operations) /\ <<I!Mark>> \in Seq(Operations)
  BY <1>3, AreOperations
<1>12. I!Publication \in Seq(Operations)
  <2>1. /\ <<I!Move("library", "libraryBackup")>> \in Seq(Operations) /\ <<I!Move("staging", "library")>> \in Seq(Operations)
        /\ <<I!Move("wrapper", "wrapperBackup")>> \in Seq(Operations)
        /\ <<I!Move("wrapperStaging", "wrapper")>> \in Seq(Operations) /\ <<>> \in Seq(Operations)
    BY <1>3, AreOperations
  <2>2. /\ (IF I!Exists("library") THEN <<I!Move("library", "libraryBackup")>> ELSE <<>>) \in Seq(Operations)
        /\ (IF I!Exists("wrapper") THEN <<I!Move("wrapper", "wrapperBackup")>> ELSE <<>>) \in Seq(Operations)
    BY <2>1
  <2> QED BY <1>6, <2>1, <2>2, Zenon DEF I!Publication
<1> QED BY <1>6, <1>7, <1>8, <1>9, <1>10, <1>11, <1>12, Zenon

LEMMA TodoStep == TodoTyped /\ [I!Next]_(I!vars) => TodoTyped'
<1> SUFFICES ASSUME TodoTyped, [I!Next]_(I!vars)  PROVE TodoTyped'
  OBVIOUS
<1>0. <<>> \in Seq(Operations)
  OBVIOUS
<1>1. CASE I!Install
  BY <1>1, ProgramsTyped DEF I!Install, I!Enter, TodoTyped
<1>2. CASE I!Operate
  <2>1. todo # <<>> /\ todo' = Tail(todo)
    BY <1>2 DEF I!Operate
  <2> QED BY <2>1 DEF TodoTyped, Operations, I!Paths, I!Directories
<1>3. CASE I!Proceed
  BY <1>0, <1>3, ProgramsTyped, Zenon DEF I!Proceed, I!Enter, TodoTyped
<1>4. CASE I!Fail
  BY <1>0, <1>4, ProgramsTyped DEF I!Fail, I!Enter, TodoTyped
<1>5. CASE I!Die
  BY <1>0, <1>5 DEF I!Die, I!Enter, TodoTyped
<1>6. CASE UNCHANGED I!vars
  BY <1>6 DEF I!vars, TodoTyped
<1> QED BY <1>1, <1>2, <1>3, <1>4, <1>5, <1>6 DEF I!Next

LEMMA InstallTyped == InstallInv /\ TodoTyped => I!TypeOK
<1> SUFFICES ASSUME InstallInv, TodoTyped  PROVE I!TypeOK
  OBVIOUS
<1>1. phase \in {"idle", "prepare", "recover", "mark", "publish", "rollback", "clean", "drop"}
  BY DEF InstallInv, Left
<1>2. /\ disk \in [I!Paths -> {I!None, I!Broken} \cup I!Versions] /\ version \in 0..MaxInstalls
      /\ marker \in [present : BOOLEAN, library : BOOLEAN, wrapper : BOOLEAN]
  BY DEF InstallInv, Kept, Disks, Markers
<1>3. todo \in Seq([op : {"remove", "move", "copy", "mark", "unmark"}, from : I!Paths, to : I!Paths])
  BY DEF TodoTyped, Operations
<1> QED BY <1>1, <1>2, <1>3, Zenon DEF I!TypeOK

-----------------------------------------------------------------------------
(* The types of every part.                                                *)

EveryTyped ==
    /\ part \in Parts /\ ModerationInv /\ TurnsInv /\ InstallInv /\ TodoTyped
    /\ SettingsInv /\ SettingsTyped /\ AuditInv /\ AuditTyped

LEMMA EveryTypedStep == EveryTyped /\ [MCNext]_mcVars => EveryTyped'
<1> SUFFICES ASSUME EveryTyped, [MCNext]_mcVars  PROVE EveryTyped'
  OBVIOUS
<1>1. ModerationInv'
  <2>1. [Next]_vars
    BY DEF MCNext, mcVars
  <2> QED BY <2>1, ModerationHolds DEF EveryTyped
<1>2. TurnsInv'
  <2>1. [T!Next]_T!vars
    BY DEF MCNext, mcVars, turnsVars, T!vars
  <2> QED BY <2>1, TurnsInvStep DEF EveryTyped
<1>3. InstallInv' /\ TodoTyped'
  <2>1. [I!Next]_(I!vars)
    BY DEF MCNext, mcVars, installVars, I!vars
  <2> QED BY <2>1, InstallHolds, TodoStep DEF EveryTyped
<1>4. SettingsInv' /\ SettingsTyped'
  <2>1. [S!Next]_S!vars
    BY DEF MCNext, mcVars, settingsVars, S!vars
  <2> QED BY <2>1, SettingsStep, SettingsTypedStep DEF EveryTyped
<1>5. AuditInv' /\ AuditTyped'
  <2>1. [A!Next]_A!vars
    BY DEF MCNext, mcVars, auditVars, A!vars
  <2> QED BY <2>1, AuditStep, AuditTypedStep DEF EveryTyped
<1>6. part' \in Parts
  BY DEF MCNext, mcVars, EveryTyped
<1> QED BY <1>1, <1>2, <1>3, <1>4, <1>5, <1>6 DEF EveryTyped

LEMMA EveryTypedAlways == MCSpec => []EveryTyped
<1>1. MCInit => EveryTyped
  <2> SUFFICES ASSUME MCInit  PROVE EveryTyped
    OBVIOUS
  <2>1. part \in Parts /\ ModerationInv /\ TurnsInv /\ InstallInv /\ SettingsInv /\ AuditInv
    BY ModerationInit, TurnsInvInit, InstallInit, SettingsInit, AuditInit DEF MCInit
  <2>2. SettingsTyped /\ AuditTyped
    BY SettingsTypedInit, AuditTypedInit DEF MCInit
  <2>3. TodoTyped
    BY DEF MCInit, I!Init, TodoTyped
  <2> QED BY <2>1, <2>2, <2>3 DEF EveryTyped
<1> QED BY <1>1, EveryTypedStep, PTL DEF MCSpec

\* The states of every part are of their types: among them the bounds of the router's
\* buffer, of the history, of the context store and of the log's files, however many
\* answers, messages, tokens and entries come, in whichever order.
THEOREM DiscordTyped == MCSpec => []MCTypeOK
<1>1. EveryTyped => MCTypeOK
  <2> SUFFICES ASSUME EveryTyped  PROVE MCTypeOK
    OBVIOUS
  <2>1. part \in Parts /\ TypeOK
    BY DEF EveryTyped, ModerationInv
  <2>2. I!TypeOK /\ T!TypeOK /\ S!TypeOK
    BY InstallTyped, TurnsAreTyped, SettingsAreTyped DEF EveryTyped
  <2>3. A!TypeOK
    BY DEF EveryTyped, AuditTyped, A!TypeOK, Logs
  <2> QED BY <2>1, <2>2, <2>3 DEF MCTypeOK
<1> QED BY <1>1, EveryTypedAlways, PTL

\* The history has one entry of a conversation, and the buffer one answer of a turn, at most:
\* the lists are the ordered dicts of the code, in which a key is there once.
OneOfEach ==
    /\ \A i, j \in DOMAIN history : history[i].conversation = history[j].conversation => i = j
    /\ \A i, j \in DOMAIN buffered : buffered[i].turn = buffered[j].turn => i = j

\* Whatever is remembered, buffered, taken and pushed out, in whichever order the threads
\* come: a pop by key finds one entry or none.
THEOREM KeysAreUnique == MCSpec => []OneOfEach
<1>1. EveryTyped => OneOfEach
  <2> SUFFICES ASSUME EveryTyped  PROVE OneOfEach
    OBVIOUS
  <2>1. /\ \A i \in DOMAIN history : history[i] \in Recollections
        /\ \A i \in DOMAIN buffered : buffered[i] \in T!Answers
    BY DEF EveryTyped, TurnsInv, HistoryTyped, BufferTyped
  <2>2. Apart(history, Conversations) /\ Apart(buffered, TurnOf)
    BY DEF EveryTyped, TurnsInv, HistoryTyped, BufferTyped
  <2>3. \A i, j \in DOMAIN history : history[i].conversation = history[j].conversation => i = j
    BY <2>1, <2>2 DEF Apart, Conversations
  <2>4. \A i, j \in DOMAIN buffered : buffered[i].turn = buffered[j].turn => i = j
    BY <2>1, <2>2 DEF Apart, TurnOf
  <2> QED BY <2>3, <2>4 DEF OneOfEach
<1> QED BY <1>1, EveryTypedAlways, PTL
=============================================================================
