-------------------------- MODULE PipeWirePlayerProofs --------------------------
(***************************************************************************)
(* What holds of the PipeWire player for any number of callers and any     *)
(* limit of active playbacks.  The argument: a process that was seen dead  *)
(* stays dead, a writer that was seen done stays done, an id once handed   *)
(* out is not handed out again and one that left the table does not come   *)
(* back.  So what a call established about its playback stays established, *)
(* whatever the other threads, the children and the writers do.            *)
(***************************************************************************)
EXTENDS PipeWirePlayer, FiniteSetTheorems, TLAPS

\* Ids that were handed out.
Given == 1..started

\* What the call of t has established about the playbacks it deals with.
Evidence(t) ==
    /\ call[t].id \in Given \cup {None}
    /\ call[t].todo \subseteq Given /\ call[t].own \subseteq Given
    /\ At(t, "reap") => \A i \in call[t].todo : Dead(i)
    /\ call[t].pc \in {"poll", "stale", "terminate", "join", "settle"} => call[t].id \in Given
    /\ At(t, "stale") => Dead(call[t].id)
    /\ call[t].pc \in {"join", "settle"} /\ call[t].killed => Dead(call[t].id)
    /\ At(t, "settle") /\ call[t].joined => Joined(call[t].id)
    /\ call[t].pc # "ready" => call[t].result = "none"
    /\ call[t].pc \in {"reap", "admit"} => call[t].op = "play"
    /\ At(t, "next") => call[t].op = "close" /\ call[t].id = None
    /\ call[t].op = "close" /\ call[t].failures = 0 =>
          \A i \in call[t].own \ (call[t].todo \cup {call[t].id}) : Dead(i) /\ Joined(i)
    /\ call[t].result = "closed" => \A i \in call[t].own : Dead(i) /\ Joined(i)
    /\ call[t].result = "cancelled" => /\ call[t].id \in Given \ table
                                       /\ Dead(call[t].id) /\ Joined(call[t].id)

\* Nothing is in the table or alive that was not handed out.
Fresh == /\ table \subseteq Given
         /\ \A i \in Ids : process[i] = "alive" => i \in Given

IInv == TypeOK /\ Fresh /\ NoOrphan /\ \A t \in Threads : Evidence(t)

\* No step undoes what a call may have established.
Advances ==
    /\ Given \subseteq Given'
    /\ \A i \in Given : /\ Dead(i) => Dead(i)'
                        /\ Joined(i) => Joined(i)'
                        /\ i \notin table => i \notin table'

LEMMA GivenType == ASSUME TypeOK PROVE Given \subseteq Ids /\ started \in Nat
BY PlayerAssumption DEF TypeOK, Given, Ids

LEMMA NoCallType == NoCall \in Call
BY DEF NoCall, Call

\* A call that is left alone keeps its evidence.
LEMMA EvidenceStays ==
    ASSUME TypeOK, NEW u \in Threads, Evidence(u), Advances, call'[u] = call[u]
    PROVE  Evidence(u)'
BY GivenType DEF Evidence, Advances, At, None

\* One thread moves: only its own evidence has to be shown.
LEMMA ThreadMoves ==
    ASSUME IInv, NEW t \in Threads, TypeOK', Fresh', NoOrphan', Advances, Evidence(t)',
           \A u \in Threads \ {t} : call'[u] = call[u]
    PROVE  IInv'
<1>1. ASSUME NEW u \in Threads PROVE Evidence(u)'
  <2>1. CASE u = t  BY <2>1
  <2>2. CASE u # t  BY <2>2, EvidenceStays DEF IInv
  <2> QED BY <2>1, <2>2
<1> QED BY <1>1 DEF IInv

\* The table may only lose what is dead, and nothing else moves.
LEMMA TableShrinks ==
    ASSUME IInv, UNCHANGED <<started, process, writer>>, table' \subseteq table,
           \A i \in table \ table' : Dead(i)
    PROVE  Fresh' /\ NoOrphan' /\ Advances
BY DEF IInv, Fresh, NoOrphan, Advances, Given, Dead, Joined

\* play

LEMMA PlayStep == ASSUME IInv, NEW t \in Threads, Play(t) PROVE IInv'
<1> DEFINE c == [NoCall EXCEPT !.op = "play", !.pc = "reap", !.todo = {i \in table : Dead(i)}]
<1>1. c \in Call  BY NoCallType, Zenon DEF IInv, TypeOK, NoCall, Call
<1>2. TypeOK'  BY <1>1 DEF Play, Acquire, IInv, TypeOK
<1>3. Fresh' /\ NoOrphan' /\ Advances  BY TableShrinks DEF Play
<1>4. Evidence(t)'  BY DEF Play, NoCall, IInv, TypeOK, Fresh, Evidence, Given, At, Dead, Joined, None
<1>5. \A u \in Threads \ {t} : call'[u] = call[u]  BY DEF Play, IInv, TypeOK
<1> QED BY <1>2, <1>3, <1>4, <1>5, ThreadMoves

LEMMA ReapStep == ASSUME IInv, NEW t \in Threads, Reap(t) PROVE IInv'
<1>1. CASE call[t].todo = {}
  <2>1. TypeOK'  BY <1>1 DEF Reap, GoTo, IInv, TypeOK, Call
  <2>2. Fresh' /\ NoOrphan' /\ Advances  BY <1>1, TableShrinks DEF Reap
  <2>3. /\ call'[t].pc = "admit" /\ call'[t].id = call[t].id /\ call'[t].todo = call[t].todo
        /\ call'[t].own = call[t].own /\ call'[t].result = call[t].result
        /\ call'[t].op = call[t].op
    BY <1>1 DEF Reap, GoTo, IInv, TypeOK, Call
  <2>4. Evidence(t)'  BY <2>3, <1>1 DEF Reap, GoTo, IInv, Evidence, Given, At, Dead, Joined, None
  <2>5. \A u \in Threads \ {t} : call'[u] = call[u]  BY <1>1 DEF Reap, GoTo, IInv, TypeOK
  <2> QED BY <2>1, <2>2, <2>4, <2>5, ThreadMoves
<1>2. ASSUME NEW i \in call[t].todo, call' = [call EXCEPT ![t].todo = @ \ {i}],
             table' = IF Joined(i) THEN table \ {i} ELSE table
      PROVE  IInv'
  <2>1. TypeOK'  BY <1>2 DEF Reap, IInv, TypeOK, Call
  <2>2. Dead(i)  BY DEF Reap, IInv, Evidence
  <2>3. Fresh' /\ NoOrphan' /\ Advances  BY <1>2, <2>2, TableShrinks DEF Reap
  <2>4. /\ call'[t].pc = "reap" /\ call'[t].id = call[t].id /\ call'[t].todo = call[t].todo \ {i}
        /\ call'[t].own = call[t].own /\ call'[t].result = call[t].result
        /\ call'[t].op = call[t].op
    BY <1>2 DEF Reap, IInv, TypeOK, Call, At
  <2>5. Evidence(t)'  BY <2>3, <2>4 DEF Reap, IInv, Evidence, At, Advances
  <2>6. \A u \in Threads \ {t} : call'[u] = call[u]  BY <1>2 DEF IInv, TypeOK
  <2> QED BY <2>1, <2>3, <2>5, <2>6, ThreadMoves
<1> QED BY <1>1, <1>2 DEF Reap

\* What a call that returns with result r leaves behind.
Left(t, r) == [NoCall EXCEPT !.result = r,
                             !.id = IF r = "cancelled" THEN call[t].id ELSE None,
                             !.own = IF r = "closed" THEN call[t].own ELSE {}]

LEMMA Returns ==
    ASSUME IInv, NEW t \in Threads, NEW r \in {"started", "cancelled", "closed", "error"},
           Return(t, r)
    PROVE  /\ call' \in [Threads -> Call]
           /\ \A u \in Threads \ {t} : call'[u] = call[u]
           /\ call'[t] = Left(t, r)
<1>1. Left(t, r) \in Call
  <2> DEFINE i == IF r = "cancelled" THEN call[t].id ELSE None
             o == IF r = "closed" THEN call[t].own ELSE {}
  <2>1. i \in Ids \cup {None} /\ o \in SUBSET Ids  BY DEF IInv, TypeOK, Call
  <2> HIDE DEF i, o
  <2>2. [NoCall EXCEPT !.result = r, !.id = i, !.own = o] \in Call
    BY <2>1, NoCallType, Zenon DEF Call
  <2> QED BY <2>2 DEF Left, i, o
<1> QED BY <1>1 DEF Return, Left, IInv, TypeOK

\* A returned call holds nothing but the id it cancelled and the ids it closed.
LEMMA LeftFields ==
    ASSUME NEW t \in Threads, NEW r
    PROVE  /\ Left(t, r).op = "none" /\ Left(t, r).pc = "ready" /\ Left(t, r).todo = {} /\ Left(t, r).result = r
           /\ Left(t, r).id = IF r = "cancelled" THEN call[t].id ELSE None
           /\ Left(t, r).own = IF r = "closed" THEN call[t].own ELSE {}
           BY DEF Left, NoCall

\* A call that returns with an error, or started a playback, needs no evidence.
LEMMA ReturnsEmpty ==
    ASSUME IInv, NEW t \in Threads, NEW r \in {"started", "error"},
           Return(t, r), Given \subseteq Given'
    PROVE  Evidence(t)'
<1>1. call'[t] = Left(t, r)  BY Returns
<1> QED BY <1>1, LeftFields DEF Evidence, At

LEMMA RefuseStep == ASSUME IInv, NEW t \in Threads, Refuse(t) PROVE IInv'
<1>1. Return(t, "error")  BY DEF Refuse
<1>2. TypeOK'  BY <1>1, Returns DEF Refuse, Release, IInv, TypeOK
<1>3. Fresh' /\ NoOrphan' /\ Advances  BY TableShrinks DEF Refuse
<1>4. Evidence(t)'  BY <1>1, <1>3, ReturnsEmpty DEF Advances
<1>5. \A u \in Threads \ {t} : call'[u] = call[u]  BY <1>1, Returns
<1> QED BY <1>2, <1>3, <1>4, <1>5, ThreadMoves

LEMMA SpawnStep == ASSUME IInv, NEW t \in Threads, Spawn(t) PROVE IInv'
<1> USE PlayerAssumption
<1>0. /\ started' = started + 1 /\ started' \in Ids /\ Given' = Given \cup {started'}
      /\ started' \notin Given /\ Given \subseteq Ids
  BY GivenType DEF Spawn, Given, Ids, IInv, TypeOK
<1>1. /\ Fresh' /\ NoOrphan' /\ Advances
      /\ table' \subseteq Ids /\ process' \in [Ids -> {"none", "alive", "dead"}]
      /\ writer' \in [Ids -> {"none", "running", "done"}]
  BY <1>0 DEF Spawn, IInv, TypeOK, Fresh, NoOrphan, Advances, Dead, Joined
<1>2. CASE Return(t, "started") /\ Release
  <2>1. TypeOK'  BY <1>0, <1>1, <1>2, Returns DEF Release, Ids, IInv, TypeOK
  <2>2. Evidence(t)'  BY <1>0, <1>2, ReturnsEmpty
  <2>3. \A u \in Threads \ {t} : call'[u] = call[u]  BY <1>2, Returns
  <2> QED BY <1>1, <2>1, <2>2, <2>3, ThreadMoves
<1>3. CASE /\ call' = [call EXCEPT ![t].pc = "terminate", ![t].id = started']
           /\ UNCHANGED <<writer, lock>>
  <2> DEFINE c == [call[t] EXCEPT !.pc = "terminate", !.id = started']
  <2>0. c \in Call
    <3>1. call[t] \in Call /\ started' \in Ids \cup {None}  BY <1>0 DEF IInv, TypeOK
    <3> QED BY <3>1, Zenon DEF Call
  <2>1. call' = [call EXCEPT ![t] = c]  BY <1>3
  <2> HIDE DEF c
  <2>2. call' \in [Threads -> Call]  BY <2>0, <2>1 DEF IInv, TypeOK
  <2>3. TypeOK'  BY <1>0, <1>1, <1>3, <2>2 DEF Ids, IInv, TypeOK
  <2>4. /\ call'[t].id = started' /\ call'[t].pc = "terminate" /\ call'[t].todo = call[t].todo
        /\ call'[t].own = call[t].own /\ call'[t].result = call[t].result
        /\ call'[t].op = call[t].op
    BY <1>3 DEF IInv, TypeOK, Call
  <2>5. call[t].result = "none" /\ call[t].op = "play"
    BY DEF Spawn, IInv, Evidence, At
  <2>6. Evidence(t)'  BY <1>0, <1>1, <2>4, <2>5 DEF IInv, Evidence, At
  <2>7. \A u \in Threads \ {t} : call'[u] = call[u]  BY <1>3 DEF IInv, TypeOK
  <2> QED BY <1>1, <2>3, <2>6, <2>7, ThreadMoves
<1> QED BY <1>2, <1>3 DEF Spawn

\* cancel and close

LEMMA CancelStep == ASSUME IInv, NEW t \in Threads, NEW i \in Ids, Cancel(t, i) PROVE IInv'
<1> DEFINE c == [NoCall EXCEPT !.op = "cancel", !.pc = "poll", !.id = i]
<1>1. c \in Call  BY NoCallType, Zenon DEF Call
<1>2. Fresh' /\ NoOrphan' /\ Advances  BY TableShrinks DEF Cancel
<1>3. CASE i \in table
  <2>1. call' = [call EXCEPT ![t] = c] /\ lock' = t  BY <1>3 DEF Cancel, Acquire
  <2> HIDE DEF c
  <2>2. TypeOK'  BY <1>1, <2>1 DEF Cancel, IInv, TypeOK
  <2> USE DEF c
  <2>3. Evidence(t)'
    BY <1>3, <2>1, <1>2 DEF NoCall, IInv, TypeOK, Fresh, Advances, Evidence, At
  <2>4. \A u \in Threads \ {t} : call'[u] = call[u]  BY <2>1 DEF IInv, TypeOK
  <2> QED BY <1>2, <2>2, <2>3, <2>4, ThreadMoves
<1>4. CASE i \notin table
  <2>1. Return(t, "error") /\ UNCHANGED lock  BY <1>4 DEF Cancel
  <2>2. TypeOK'  BY <2>1, Returns DEF Cancel, IInv, TypeOK
  <2>3. Evidence(t)'  BY <2>1, <1>2, ReturnsEmpty DEF Advances
  <2>4. \A u \in Threads \ {t} : call'[u] = call[u]  BY <2>1, Returns
  <2> QED BY <1>2, <2>2, <2>3, <2>4, ThreadMoves
<1> QED BY <1>3, <1>4

LEMMA CloseStep == ASSUME IInv, NEW t \in Threads, Close(t) PROVE IInv'
<1> DEFINE c == [NoCall EXCEPT !.op = "close", !.pc = "next", !.todo = table, !.own = table]
<1>1. c \in Call
  <2>1. table \in SUBSET Ids  BY DEF IInv, TypeOK
  <2> QED BY <2>1, NoCallType, Zenon DEF Call
<1>2. TypeOK'
  <2>1. call' = [call EXCEPT ![t] = c]  BY DEF Close
  <2> HIDE DEF c
  <2> QED BY <1>1, <2>1 DEF Close, IInv, TypeOK
<1>3. Fresh' /\ NoOrphan' /\ Advances  BY TableShrinks DEF Close
<1>4. Evidence(t)'  BY DEF Close, NoCall, IInv, TypeOK, Fresh, Evidence, Given, At, None
<1>5. \A u \in Threads \ {t} : call'[u] = call[u]  BY DEF Close, IInv, TypeOK
<1> QED BY <1>2, <1>3, <1>4, <1>5, ThreadMoves

LEMMA CloseNextStep == ASSUME IInv, NEW t \in Threads, CloseNext(t) PROVE IInv'
<1>1. PICK i \in call[t].todo :
         IF i \in table
         THEN /\ lock' = t
              /\ call' = [call EXCEPT ![t].todo = @ \ {i}, ![t].id = i, ![t].pc = "poll"]
         ELSE /\ UNCHANGED lock
              /\ call' = [call EXCEPT ![t].todo = @ \ {i}, ![t].failures = @ + 1]
  BY DEF CloseNext, Acquire
<1>2. i \in Ids /\ i \in Given  BY GivenType DEF IInv, TypeOK, Evidence
<1>3. call[t] \in Call /\ call[t].failures + 1 \in Nat /\ call[t].todo \ {i} \in SUBSET Ids
  BY DEF IInv, TypeOK, Call
<1>4. Fresh' /\ NoOrphan' /\ Advances  BY TableShrinks DEF CloseNext
<1>5. CASE i \in table
  <2> DEFINE c == [call[t] EXCEPT !.todo = call[t].todo \ {i}, !.id = i, !.pc = "poll"]
  <2>1. c \in Call
    <3>1. i \in Ids \cup {None}  BY <1>2
    <3> QED BY <1>3, <3>1, Zenon DEF Call
  <2>2. call' = [call EXCEPT ![t] = c] /\ lock' = t  BY <1>1, <1>5
  <2>3. /\ c.todo = call[t].todo \ {i} /\ c.id = i /\ c.pc = "poll" /\ c.own = call[t].own
        /\ c.result = call[t].result /\ c.op = call[t].op /\ c.failures = call[t].failures
    BY <1>3 DEF Call
  <2> HIDE DEF c
  <2>4. call'[t] = c /\ \A u \in Threads \ {t} : call'[u] = call[u]  BY <2>2 DEF IInv, TypeOK
  <2>5. TypeOK'  BY <2>1, <2>2 DEF CloseNext, IInv, TypeOK
  <2>6. c.op = "close" /\ c.failures = 0 =>
           \A j \in c.own \ (c.todo \cup {c.id}) : j \in Given /\ Dead(j) /\ Joined(j)
    <3>1. Evidence(t) /\ At(t, "next")  BY DEF CloseNext, IInv
    <3>2. None \notin Given  BY DEF Given, None
    <3> SUFFICES ASSUME c.op = "close", c.failures = 0, NEW j \in c.own \ (c.todo \cup {c.id})
                 PROVE  j \in Given /\ Dead(j) /\ Joined(j)
      OBVIOUS
    <3>3. j \in call[t].own \ (call[t].todo \cup {call[t].id}) /\ j \in Given
      BY <2>3, <3>1, <3>2 DEF Evidence
    <3> QED BY <2>3, <3>1, <3>3 DEF Evidence
  <2>7. Evidence(t)'  BY <1>2, <1>4, <2>3, <2>4, <2>6 DEF CloseNext, IInv, Evidence, At, Advances
  <2> QED BY <1>4, <2>4, <2>5, <2>7, ThreadMoves
<1>6. CASE i \notin table
  <2> DEFINE c == [call[t] EXCEPT !.todo = call[t].todo \ {i}, !.failures = call[t].failures + 1]
  <2>1. c \in Call  BY <1>3, Zenon DEF Call
  <2>2. call' = [call EXCEPT ![t] = c] /\ UNCHANGED lock  BY <1>1, <1>6
  <2>3. /\ c.todo \subseteq call[t].todo /\ c.id = call[t].id /\ c.pc = call[t].pc
        /\ c.own = call[t].own /\ c.result = call[t].result /\ c.op = call[t].op
        /\ c.failures # 0
    BY <1>3 DEF Call
  <2> HIDE DEF c
  <2>4. call'[t] = c /\ \A u \in Threads \ {t} : call'[u] = call[u]  BY <2>2 DEF IInv, TypeOK
  <2>5. TypeOK'  BY <2>1, <2>2 DEF CloseNext, IInv, TypeOK
  <2>6. Evidence(t)'  BY <1>4, <2>3, <2>4 DEF CloseNext, IInv, Evidence, At, Advances
  <2> QED BY <1>4, <2>4, <2>5, <2>6, ThreadMoves
<1> QED BY <1>5, <1>6

LEMMA CloseReturnsStep == ASSUME IInv, NEW t \in Threads, CloseReturns(t) PROVE IInv'
<1> DEFINE r == IF call[t].failures = 0 THEN "closed" ELSE "error"
<1>1. r \in {"closed", "error"} /\ Return(t, r)  BY DEF CloseReturns
<1> HIDE DEF r
<1>2. TypeOK'  BY <1>1, Returns DEF CloseReturns, IInv, TypeOK
<1>3. Fresh' /\ NoOrphan' /\ Advances  BY TableShrinks DEF CloseReturns
<1>4. Evidence(t)'
  <2>1. call'[t] = Left(t, r)  BY <1>1, Returns
  <2>2. CASE r = "error"  BY <1>1, <1>3, <2>2, ReturnsEmpty DEF Advances
  <2>3. CASE r = "closed"
    <3>1. call[t].failures = 0 /\ call[t].op = "close" /\ call[t].id = None
      BY <2>3 DEF r, CloseReturns, IInv, Evidence
    <3>2. \A i \in call[t].own : i \in Given /\ i # None /\ Dead(i) /\ Joined(i)
      BY <3>1, GivenType DEF CloseReturns, IInv, Evidence, Ids, None
    <3> QED BY <1>3, <2>1, <2>3, <3>2, LeftFields DEF Evidence, At, Advances
  <2> QED BY <1>1, <2>2, <2>3
<1>5. \A u \in Threads \ {t} : call'[u] = call[u]  BY <1>1, Returns
<1> QED BY <1>2, <1>3, <1>4, <1>5, ThreadMoves

LEMMA PollStep == ASSUME IInv, NEW t \in Threads, Poll(t) PROVE IInv'
<1> DEFINE p == IF Dead(call[t].id) THEN "stale" ELSE "terminate"
<1>1. p \in {"stale", "terminate"} /\ (p = "stale" => Dead(call[t].id))
  OBVIOUS
<1>2. call' = [call EXCEPT ![t].pc = p]  BY DEF Poll, GoTo
<1> HIDE DEF p
<1>3. call[t] \in Call  BY DEF IInv, TypeOK
<1>4. /\ call'[t].pc = p /\ call'[t].id = call[t].id /\ call'[t].todo = call[t].todo
      /\ call'[t].own = call[t].own /\ call'[t].result = call[t].result
      /\ call'[t].op = call[t].op /\ call'[t].failures = call[t].failures
      /\ \A u \in Threads \ {t} : call'[u] = call[u]
  BY <1>2, <1>3 DEF IInv, TypeOK, Call
<1>5. TypeOK'  BY <1>1, <1>2, <1>3 DEF Poll, IInv, TypeOK, Call
<1>6. Fresh' /\ NoOrphan' /\ Advances  BY TableShrinks DEF Poll
<1>7. Evidence(t)'  BY <1>1, <1>4, <1>6 DEF Poll, IInv, Evidence, At, Advances, Given, Dead
<1> QED BY <1>4, <1>5, <1>6, <1>7, ThreadMoves

\* cancel() may return its id only when the playback is ended and gone.
LEMMA CancelReturned ==
    ASSUME IInv, NEW t \in Threads, NEW ok \in BOOLEAN, CancelReturns(t, ok), Advances,
           NEW i \in Ids, call[t].id = i, i \in Given, call[t].result = "none",
           ok => i \notin table' /\ Dead(i)' /\ Joined(i)'
    PROVE  /\ call' \in [Threads -> Call] /\ Evidence(t)'
           /\ \A u \in Threads \ {t} : call'[u] = call[u]
<1>1. CASE call[t].op = "close"
  <2> DEFINE n == IF ok THEN call[t].failures ELSE call[t].failures + 1
             c == [call[t] EXCEPT !.pc = "next", !.id = None, !.killed = FALSE,
                                  !.joined = FALSE, !.failures = n]
  <2>1. call[t] \in Call /\ n \in Nat  BY DEF IInv, TypeOK, Call
  <2> HIDE DEF n
  <2>2. c \in Call
    <3>1. None \in Ids \cup {None}  OBVIOUS
    <3> QED BY <2>1, <3>1, Zenon DEF Call
  <2>3. /\ c.pc = "next" /\ c.id = None /\ c.todo = call[t].todo /\ c.own = call[t].own
        /\ c.result = call[t].result /\ c.op = "close" /\ c.failures = n
    BY <1>1, <2>1 DEF Call
  <2>6. n = 0 => ok /\ call[t].failures = 0  BY DEF n, IInv, TypeOK, Call
  <2>4. call' = [call EXCEPT ![t] = c]  BY <1>1 DEF CancelReturns, n
  <2> HIDE DEF c
  <2>5. call' \in [Threads -> Call] /\ call'[t] = c /\ \A u \in Threads \ {t} : call'[u] = call[u]
    BY <2>2, <2>4 DEF IInv, TypeOK
  <2>7. ASSUME n = 0, NEW j \in call[t].own \ call[t].todo
        PROVE  Dead(j)' /\ Joined(j)'
    <3>1. Evidence(t) /\ ok /\ call[t].failures = 0 /\ j \in Given
      BY <2>6, <2>7 DEF IInv, Evidence
    <3>2. CASE j = i  BY <3>1, <3>2 DEF Dead, Joined
    <3>3. CASE j # i
      <4>1. Dead(j) /\ Joined(j)  BY <1>1, <3>1, <3>3, <2>7 DEF Evidence
      <4> QED BY <3>1, <4>1 DEF Advances
    <3> QED BY <3>2, <3>3
  <2>8. Evidence(t)'  BY <2>3, <2>5, <2>7 DEF IInv, Evidence, At, Advances
  <2> QED BY <2>5, <2>8
<1>2. CASE call[t].op # "close" /\ ok
  <2>1. Return(t, "cancelled")  BY <1>2 DEF CancelReturns
  <2>2. Evidence(t)'
    <3>1. call'[t] = Left(t, "cancelled")  BY <2>1, Returns
    <3> QED BY <1>2, <3>1, LeftFields DEF Evidence, At, Advances
  <2> QED BY <2>1, <2>2, Returns
<1>3. CASE call[t].op # "close" /\ ~ok
  <2>1. Return(t, "error")  BY <1>3 DEF CancelReturns
  <2> QED BY <2>1, Returns, ReturnsEmpty DEF Advances
<1> QED BY <1>1, <1>2, <1>3

LEMMA StaleStep == ASSUME IInv, NEW t \in Threads, Stale(t) PROVE IInv'
<1>1. call[t].id \in Given /\ Dead(call[t].id) /\ call[t].result = "none"
  BY DEF Stale, IInv, Evidence, At
<1>2. Fresh' /\ NoOrphan' /\ Advances  BY <1>1, TableShrinks DEF Stale
<1>3. CancelReturns(t, FALSE)  BY DEF Stale
<1>4. PICK i \in Ids : call[t].id = i  BY <1>1, GivenType DEF IInv
<1>5. /\ call' \in [Threads -> Call] /\ Evidence(t)'
      /\ \A u \in Threads \ {t} : call'[u] = call[u]
  BY <1>1, <1>2, <1>3, <1>4, CancelReturned
<1>6. TypeOK'  BY <1>5 DEF Stale, Release, IInv, TypeOK
<1> QED BY <1>2, <1>5, <1>6, ThreadMoves

LEMMA TerminateStep == ASSUME IInv, NEW t \in Threads, Terminate(t) PROVE IInv'
<1>0. call[t].id \in Given /\ call[t].id \in Ids
  BY GivenType DEF Terminate, IInv, Evidence, At
<1>1. PICK i \in Ids : call[t].id = i  BY <1>0
<1>2. i \in Given /\ call[t].id = i /\ call[t] \in Call
  BY <1>0, <1>1 DEF IInv, TypeOK
<1>3. PICK k \in BOOLEAN : /\ call' = [call EXCEPT ![t].killed = k, ![t].pc = "join"]
                           /\ k => process' = [process EXCEPT ![i] = "dead"]
                           /\ ~k => UNCHANGED process
  BY <1>2 DEF Terminate
<1>4. /\ process' \in [Ids -> {"none", "alive", "dead"}]
      /\ Fresh' /\ NoOrphan' /\ Advances /\ (k => Dead(i)')
  <2>1. /\ process' \in [Ids -> {"none", "alive", "dead"}] /\ (k => Dead(i)')
        /\ \A n \in Ids : process'[n] = process[n] \/ process'[n] = "dead"
    BY <1>2, <1>3 DEF IInv, TypeOK, Dead
  <2>2. UNCHANGED <<table, started, writer>>  BY DEF Terminate
  <2>3. Given \subseteq Ids  BY GivenType DEF IInv
  <2> QED BY <2>1, <2>2, <2>3 DEF IInv, Fresh, NoOrphan, Advances, Given, Dead, Joined
<1> DEFINE c == [call[t] EXCEPT !.killed = k, !.pc = "join"]
<1>5. c \in Call  BY <1>2, Zenon DEF Call
<1>6. /\ c.pc = "join" /\ c.killed = k /\ c.id = i /\ c.todo = call[t].todo
      /\ c.own = call[t].own /\ c.result = call[t].result
      /\ c.op = call[t].op /\ c.failures = call[t].failures
  BY <1>2 DEF Call
<1>7. call' = [call EXCEPT ![t] = c]  BY <1>3
<1> HIDE DEF c
<1>8. call' \in [Threads -> Call] /\ call'[t] = c /\ \A u \in Threads \ {t} : call'[u] = call[u]
  BY <1>5, <1>7 DEF IInv, TypeOK
<1>9. TypeOK'  BY <1>4, <1>8 DEF Terminate, IInv, TypeOK
<1>20. Evidence(t)'  BY <1>2, <1>4, <1>6, <1>8 DEF Terminate, IInv, Evidence, At, Advances
<1> QED BY <1>4, <1>8, <1>9, <1>20, ThreadMoves

LEMMA JoinStep == ASSUME IInv, NEW t \in Threads, Join(t) PROVE IInv'
<1>0. call[t].id \in Ids
  BY GivenType DEF Join, IInv, Evidence, At
<1>1. PICK i \in Ids : call[t].id = i  BY <1>0
<1>2. PICK j \in BOOLEAN : j = Joined(i)  BY DEF Joined
<1>3. call[t] \in Call  BY DEF IInv, TypeOK
<1>4. j => Joined(i)'  BY <1>2 DEF Join, Joined
<1> DEFINE c == [call[t] EXCEPT !.joined = j, !.pc = "settle"]
<1>5. c \in Call  BY <1>3, Zenon DEF Call
<1>6. /\ c.pc = "settle" /\ c.joined = j /\ c.killed = call[t].killed /\ c.id = i
      /\ c.todo = call[t].todo /\ c.own = call[t].own /\ c.result = call[t].result
      /\ c.op = call[t].op /\ c.failures = call[t].failures
  BY <1>3, <1>1 DEF Call
<1>7. call' = [call EXCEPT ![t] = c]  BY <1>1, <1>2 DEF Join
<1> HIDE DEF c
<1>8. call' \in [Threads -> Call] /\ call'[t] = c /\ \A u \in Threads \ {t} : call'[u] = call[u]
  BY <1>5, <1>7 DEF IInv, TypeOK
<1>9. TypeOK'  BY <1>8 DEF Join, IInv, TypeOK
<1>30. Fresh' /\ NoOrphan' /\ Advances  BY TableShrinks DEF Join
<1>31. Evidence(t)'  BY <1>1, <1>4, <1>6, <1>8, <1>30 DEF Join, IInv, Evidence, At, Advances
<1> QED BY <1>8, <1>9, <1>30, <1>31, ThreadMoves

LEMMA SettleStep == ASSUME IInv, NEW t \in Threads, Settle(t) PROVE IInv'
<1> DEFINE ok == call[t].killed /\ call[t].joined
<1>1. /\ call[t].id \in Given /\ call[t].result = "none"
      /\ ok => Dead(call[t].id) /\ Joined(call[t].id)
  BY DEF Settle, IInv, Evidence, At
<1>2. ok \in BOOLEAN  OBVIOUS
<1>3. /\ table' = IF ok THEN table \ {call[t].id} ELSE table
      /\ IF call[t].op = "play" THEN Return(t, "error") ELSE CancelReturns(t, ok)
  BY DEF Settle
<1>4. UNCHANGED <<started, process, writer>>  BY DEF Settle
<1> HIDE DEF ok
<1>5. Fresh' /\ NoOrphan' /\ Advances  BY <1>1, <1>3, <1>4, TableShrinks
<1>6. /\ call' \in [Threads -> Call] /\ Evidence(t)'
      /\ \A u \in Threads \ {t} : call'[u] = call[u]
  <2>1. CASE call[t].op = "play"
    <3>1. Return(t, "error")  BY <1>3, <2>1
    <3> QED BY <3>1, <1>5, Returns, ReturnsEmpty DEF Advances
  <2>2. CASE call[t].op # "play"
    <3>1. CancelReturns(t, ok)  BY <1>3, <2>2
    <3>2. PICK i \in Ids : call[t].id = i  BY <1>1, GivenType DEF IInv
    <3>3. ok => i \notin table' /\ Dead(i)' /\ Joined(i)'
      BY <1>1, <1>3, <1>4, <3>2 DEF Dead, Joined
    <3> QED BY <3>1, <3>2, <3>3, <1>1, <1>2, <1>5, CancelReturned
  <2> QED BY <2>1, <2>2
<1>7. TypeOK'  BY <1>3, <1>6 DEF Settle, Release, IInv, TypeOK
<1> QED BY <1>5, <1>6, <1>7, ThreadMoves

\* The children and their writers.

LEMMA ProcessEndsStep == ASSUME IInv, NEW i \in Ids, ProcessEnds(i) PROVE IInv'
BY DEF ProcessEnds, IInv, TypeOK, Fresh, Given, NoOrphan, Evidence, At, Dead, Joined

LEMMA WriterEndsStep == ASSUME IInv, NEW i \in Ids, WriterEnds(i) PROVE IInv'
BY DEF WriterEnds, IInv, TypeOK, Fresh, Given, NoOrphan, Evidence, At, Dead, Joined

-----------------------------------------------------------------------------
(* The invariant.                                                          *)

LEMMA InitHolds == Init => IInv
<1> SUFFICES ASSUME Init PROVE IInv  OBVIOUS
<1>1. TypeOK  BY NoCallType, PlayerAssumption DEF Init, TypeOK, Ids
<1>2. Fresh /\ NoOrphan  BY DEF Init, Fresh, NoOrphan
<1>3. \A t \in Threads : Evidence(t)  BY DEF Init, Evidence, NoCall, At
<1> QED BY <1>1, <1>2, <1>3 DEF IInv

LEMMA StepHolds == IInv /\ [Next]_vars => IInv'
<1> SUFFICES ASSUME IInv, [Next]_vars PROVE IInv'  OBVIOUS
<1>1. ASSUME NEW t \in Threads, Step(t) PROVE IInv'
  BY <1>1, ReapStep, RefuseStep, SpawnStep, CloseNextStep, CloseReturnsStep, PollStep,
     StaleStep, TerminateStep, JoinStep, SettleStep DEF Step
<1>2. ASSUME NEW t \in Threads, Play(t) PROVE IInv'  BY <1>2, PlayStep
<1>3. ASSUME NEW t \in Threads, Close(t) PROVE IInv'  BY <1>3, CloseStep
<1>4. ASSUME NEW t \in Threads, NEW i \in Ids, Cancel(t, i) PROVE IInv'  BY <1>4, CancelStep
<1>5. ASSUME NEW i \in Ids, ProcessEnds(i) \/ WriterEnds(i) PROVE IInv'
  BY <1>5, ProcessEndsStep, WriterEndsStep
<1>6. CASE UNCHANGED vars
  <2>1. TypeOK' /\ Fresh' /\ NoOrphan' /\ Advances
    BY <1>6 DEF vars, IInv, TypeOK, Fresh, NoOrphan, Advances, Given, Dead, Joined
  <2>2. \A u \in Threads : Evidence(u)'  BY <1>6, <2>1, EvidenceStays DEF vars, IInv
  <2> QED BY <2>1, <2>2 DEF IInv
<1> QED BY <1>1, <1>2, <1>3, <1>4, <1>5, <1>6 DEF Next

LEMMA InvHolds == Spec => []IInv
BY InitHolds, StepHolds, PTL DEF Spec

\* For any number of callers, however calls interleave and whatever fails to
\* end: a pw-play that runs is in the table (play, cancel and close never lose
\* one), and a cancel that reports success ended the process and its writer.
THEOREM PlayerSafety == Spec => [](TypeOK /\ NoOrphan /\ CancelTruthful /\ CloseTruthful)
<1>1. IInv => TypeOK /\ NoOrphan /\ CancelTruthful /\ CloseTruthful
  BY DEF IInv, Evidence, CancelTruthful, CloseTruthful
<1> QED BY <1>1, InvHolds, PTL

\* For any number of callers: who is told that a playback, or all of close()'s,
\* is over is told the truth.
THEOREM PlayerTruthful == Spec => []Truthful
<1>1. TypeOK /\ NoOrphan /\ CancelTruthful /\ CloseTruthful => Truthful  BY DEF Truthful
<1> QED BY <1>1, PlayerSafety, PTL

\* However many threads play at once, there are never more entries than
\* max_active_playbacks: the room is tested and taken in one step.
THEOREM PlayerBounded == Spec => []Bounded
<1>1. Init => Bounded
  BY PlayerAssumption, FS_EmptySet DEF Init, Bounded
<1>2. ASSUME IInv, Bounded, [Next]_vars PROVE Bounded'
  <2>1. IsFiniteSet(table) /\ Cardinality(table) \in Nat
    <3>1. IsFiniteSet(Ids)  BY PlayerAssumption, FS_Interval DEF Ids
    <3> QED BY <1>2, <3>1, FS_Subset, FS_CardinalityType DEF IInv, TypeOK
  <2>2. ASSUME table' \subseteq table PROVE Bounded'
    <3>1. Cardinality(table') \in Nat /\ Cardinality(table') <= Cardinality(table)
      BY <2>1, <2>2, FS_Subset, FS_CardinalityType
    <3> QED BY <1>2, <2>1, <3>1, PlayerAssumption DEF Bounded
  <2>3. ASSUME NEW t \in Threads, Spawn(t) PROVE Bounded'
    <3>1. started + 1 \notin table  BY <1>2 DEF IInv, TypeOK, Fresh, Given, Ids
    <3>2. Cardinality(table') = Cardinality(table) + 1
      BY <2>1, <2>3, <3>1, FS_AddElement DEF Spawn
    <3> QED BY <2>1, <2>3, <3>2, PlayerAssumption DEF Spawn, HasRoom, Bounded
  <2>4. ASSUME NEW t \in Threads, Step(t) PROVE Bounded'
    <3>1. CASE Spawn(t)  BY <2>3, <3>1
    <3>2. CASE ~Spawn(t)
      <4>1. table' \subseteq table
        BY <2>4, <3>2 DEF Step, Reap, Refuse, CloseNext, CloseReturns, Poll, Stale,
                          Terminate, Join, Settle
      <4> QED BY <4>1, <2>2
    <3> QED BY <3>1, <3>2
  <2>5. CASE Next
    <3>1. (\E t \in Threads : Step(t)) \/ table' \subseteq table
      BY <2>5 DEF Next, Play, Close, Cancel, ProcessEnds, WriterEnds
    <3> QED BY <3>1, <2>2, <2>4
  <2>6. CASE UNCHANGED vars
    BY <2>6, <2>2 DEF vars
  <2> QED BY <1>2, <2>5, <2>6
<1> QED BY <1>1, <1>2, InvHolds, PTL DEF Spec

=============================================================================
