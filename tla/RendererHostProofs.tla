-------------------------- MODULE RendererHostProofs --------------------------
(***************************************************************************)
(* What holds of the renderer host for any number of children and requests *)
(* and any size of the event queue: its state keeps its type, the event    *)
(* queue its limit, and no child escapes.  The argument: a child runs only *)
(* from the moment the host names it; it stops being the host's only when  *)
(* a shutdown takes it as its victim, and a shutdown lets go of a victim   *)
(* only when it is dead.  A number once given to a child is not given      *)
(* again, so the dead stay dead.                                           *)
(***************************************************************************)
EXTENDS RendererHost, FiniteSetTheorems, TLAPS

\* Children that were not spawned do not run, and the host's own was.
Numbered ==
    /\ host.process <= host.spawned
    /\ \A k \in Children : child[k].alive => k <= host.spawned

\* What the call of t knows of its victim and its request.
Doing(t) ==
    /\ call[t].victim <= host.spawned
    /\ call[t].pc \in {"end", "reap", "join"} <=> call[t].victim # Nobody
    /\ At(t, "join") => ~child[call[t].victim].alive
    /\ call[t].pc \in {"put", "write", "get", "pop"} => call[t].request \in Requests

IInv ==
    /\ TypeOK /\ Numbered /\ NoUntrackedChild
    /\ IsFiniteSet(DOMAIN pending) /\ \A t \in Threads : Doing(t)

LEMMA NoCallType == NoCall \in Call
BY HostAssumption DEF NoCall, Call, Content, Empty, Nobody

LEMMA Contents == Empty \in Content /\ Ended \in Content
BY HostAssumption DEF Content, Empty, Ended

\* The fields the arguments are about, without the rest of their records.
LEMMA Fields ==
    ASSUME TypeOK
    PROVE  /\ host.process \in 0..MaxChildren /\ host.spawned \in 0..MaxChildren
           /\ \A t \in Threads : call[t] \in Call /\ call[t].victim \in 0..MaxChildren
           /\ \A k \in Children : child[k] \in Child /\ child[k].alive \in BOOLEAN
<1>1. ASSUME NEW t \in Threads PROVE call[t] \in Call /\ call[t].victim \in 0..MaxChildren
  <2>1. call[t] \in Call  BY DEF TypeOK
  <2> QED BY <2>1 DEF Call
<1> QED BY <1>1 DEF TypeOK, Host, Child

\* Children may die and calls go on; the host keeps its child and every call
\* its victim.
LEMMA Quiet ==
    ASSUME IInv, TypeOK', IsFiniteSet(DOMAIN pending)',
           host'.process = host.process, host'.spawned = host.spawned,
           \A k \in Children : child'[k].alive => child[k].alive,
           \A t \in Threads : /\ call'[t].victim = call[t].victim
                              /\ call'[t] = call[t] \/ Doing(t)'
    PROVE  IInv'
<1>1. Numbered'  BY DEF IInv, Numbered
<1>2. NoUntrackedChild'  BY DEF IInv, NoUntrackedChild
<1>3. ASSUME NEW t \in Threads PROVE Doing(t)'
  <2>1. CASE call'[t] = call[t]
    <3>1. At(t, "join") => call[t].victim \in Children
      <4>1. call[t].victim \in 0..MaxChildren  BY Fields DEF IInv
      <4>2. At(t, "join") => call[t].victim # 0  BY DEF IInv, Doing, At, Nobody
      <4> QED BY HostAssumption, <4>1, <4>2 DEF Children
    <3> QED BY <2>1, <3>1 DEF IInv, Doing, At
  <2> QED BY <2>1
<1> QED BY <1>1, <1>2, <1>3 DEF IInv

\* Only the call of t moves, to c.
LEMMA CallMoves ==
    ASSUME IInv, NEW t \in Threads, NEW c \in Call, call' = [call EXCEPT ![t] = c]
    PROVE  /\ call' \in [Threads -> Call] /\ call'[t] = c
           /\ \A u \in Threads \ {t} : call'[u] = call[u]
BY DEF IInv, TypeOK

\* A call that returns, or begins anew, from a place where it has no victim.
LEMMA Returns ==
    ASSUME IInv, NEW t \in Threads, Return(t)
    PROVE  /\ call' \in [Threads -> Call]
           /\ call'[t].victim = Nobody /\ call'[t].pc \in {"ready", "closed"}
           /\ \A u \in Threads \ {t} : call'[u] = call[u]
<1> DEFINE c == [NoCall EXCEPT !.pc = IF t = Closer THEN "closed" ELSE "ready"]
<1>1. c \in Call  BY NoCallType, Zenon DEF Call
<1>2. call' = [call EXCEPT ![t] = c]  BY DEF Return
<1>3. c.victim = Nobody /\ c.pc \in {"ready", "closed"}  BY DEF NoCall
<1> HIDE DEF c
<1> QED BY <1>1, <1>2, <1>3, CallMoves

\* A call that goes on elsewhere.
LEMMA GoesTo ==
    ASSUME IInv, NEW t \in Threads,
           NEW p \in {"spawn", "await", "putback", "reap", "join", "revive", "get"},
           GoTo(t, p)
    PROVE  /\ call' \in [Threads -> Call] /\ call'[t].pc = p
           /\ call'[t].victim = call[t].victim
           /\ call'[t].request = call[t].request /\ call'[t].id = call[t].id
           /\ \A u \in Threads \ {t} : call'[u] = call[u]
<1>1. call[t] \in Call  BY Fields DEF IInv
<1> DEFINE c == [call[t] EXCEPT !.pc = p]
<1>2. /\ c \in Call /\ c.pc = p /\ c.victim = call[t].victim
      /\ c.request = call[t].request /\ c.id = call[t].id
  BY <1>1 DEF Call
<1>3. call' = [call EXCEPT ![t] = c]  BY DEF GoTo
<1> HIDE DEF c
<1>4. call' \in [Threads -> Call] /\ call'[t] = c /\ \A u \in Threads \ {t} : call'[u] = call[u]
  BY <1>2, <1>3, CallMoves
<1> QED BY <1>2, <1>4

(* start                                                                   *)

LEMMA SpawnStep == ASSUME IInv, Spawn PROVE IInv'
<1> USE HostAssumption
<1>1. CASE Return(Owner) /\ UNCHANGED <<host, child, reader>>
  <2>1. call[Owner].victim = Nobody  BY DEF Spawn, At, IInv, Doing
  <2>2. TypeOK'  BY <1>1, Returns DEF Spawn, IInv, TypeOK, Waiting
  <2>3. Doing(Owner)'  BY <1>1, Returns, Fields DEF Spawn, IInv, Doing, At, Nobody
  <2> QED BY <1>1, <2>1, <2>2, <2>3, Returns, Quiet DEF Spawn, IInv
<1>2. CASE /\ host.process = Nobody /\ ~host.stopped /\ host.spawned < MaxChildren
           /\ LET k == host.spawned + 1
              IN  /\ host' = [host EXCEPT !.process = k, !.spawned = k]
                  /\ child' = [child EXCEPT ![k].alive = TRUE]
                  /\ reader' = [reader EXCEPT ![k].pc = "read"]
           /\ GoTo(Owner, "await")
  <2> DEFINE k == host.spawned + 1
  <2>1. k \in Children /\ host.spawned \in Nat /\ k \in 0..MaxChildren
    BY <1>2, Fields DEF IInv, Children
  <2>2. host' \in Host /\ host'.process = k /\ host'.spawned = k
    BY <1>2, <2>1 DEF IInv, TypeOK, Host
  <2>3. /\ child' \in [Children -> Child] /\ child'[k].alive
        /\ \A j \in Children \ {k} : child'[j] = child[j]
    BY <1>2, <2>1 DEF IInv, TypeOK, Child
  <2>4. reader' \in [Children -> Reader]  BY <1>2, <2>1 DEF IInv, TypeOK, Reader
  <2>5. /\ call' \in [Threads -> Call] /\ call'[Owner].pc = "await"
        /\ \A t \in Threads : call'[t].victim = call[t].victim
        /\ \A t \in Threads \ {Owner} : call'[t] = call[t]
    BY <1>2, GoesTo
  <2>6. TypeOK'  BY <2>2, <2>3, <2>4, <2>5 DEF Spawn, IInv, TypeOK, Waiting
  <2>7. Numbered'  BY <2>1, <2>2, <2>3 DEF IInv, Numbered, Children
  <2>8. NoUntrackedChild'
    BY <1>2, <2>2, <2>3, <2>5 DEF IInv, NoUntrackedChild, Children, Nobody
  <2>9. ASSUME NEW t \in Threads PROVE Doing(t)'
    <3>1. call[t].victim \in 0..host.spawned  BY Fields, <2>1 DEF IInv, Doing
    <3>2. call[Owner].victim = Nobody  BY DEF Spawn, IInv, Doing, At
    <3>3. CASE t = Owner  BY <2>1, <2>2, <2>5, <3>2, <3>3 DEF Doing, At, Nobody
    <3>4. CASE t # Owner
      <4>1. call'[t] = call[t] /\ Doing(t)  BY <2>5, <3>4 DEF IInv
      <4>2. At(t, "join") => call[t].victim \in Children \ {k}
        BY <3>1, <2>1, <4>1 DEF Doing, At, Children, Nobody
      <4> QED BY <2>1, <2>2, <2>3, <3>1, <4>1, <4>2 DEF Doing, At
    <3> QED BY <3>3, <3>4
  <2> QED BY <2>6, <2>7, <2>8, <2>9 DEF Spawn, IInv
<1> QED BY <1>1, <1>2 DEF Spawn

LEMMA AwaitStep == ASSUME IInv, Await PROVE IInv'
<1> USE HostAssumption
<1>0. call[Owner] \in Call /\ call[Owner].victim = Nobody
  BY Fields DEF Await, IInv, Doing, At
<1>1. CASE GoTo(Owner, "putback") /\ UNCHANGED events
  <2>1. TypeOK'  BY <1>1, GoesTo DEF Await, IInv, TypeOK, Waiting
  <2>2. Doing(Owner)'  BY <1>0, <1>1, GoesTo, Fields DEF Await, IInv, Doing, At, Nobody
  <2> QED BY <1>1, <2>1, <2>2, GoesTo, Quiet DEF Await, IInv
<1>2. CASE /\ events # <<>> /\ events' = Tail(events)
           /\ call' = IF Head(events) = "ready"
                      THEN [call EXCEPT ![Owner].pc = "putback", ![Owner].ok = TRUE]
                      ELSE [call EXCEPT ![Owner].skipped = Append(@, Head(events))]
  <2> DEFINE c == IF Head(events) = "ready"
                  THEN [call[Owner] EXCEPT !.pc = "putback", !.ok = TRUE]
                  ELSE [call[Owner] EXCEPT !.skipped = Append(@, Head(events))]
  <2>1. /\ events' \in Seq(Event) /\ Len(events') <= MaxEvents
        /\ Head(events) \in Event
    BY <1>2 DEF IInv, TypeOK
  <2>2. /\ c \in Call /\ c.victim = Nobody
        /\ c.pc \in {"await", "putback"}
    <3>1. call[Owner].pc = "await"  BY DEF Await, At
    <3>2. CASE Head(events) = "ready"  BY <1>0, <3>2 DEF Call
    <3>3. CASE Head(events) # "ready"
      <4>1. Append(call[Owner].skipped, Head(events)) \in Seq(Event)
        BY <1>0, <2>1 DEF Call
      <4> QED BY <1>0, <3>1, <3>3, <4>1 DEF Call
    <3> QED BY <3>2, <3>3
  <2>3. call' = [call EXCEPT ![Owner] = c]  BY <1>2
  <2> HIDE DEF c
  <2>4. /\ call' \in [Threads -> Call] /\ call'[Owner] = c
        /\ \A u \in Threads \ {Owner} : call'[u] = call[u]
    BY <2>2, <2>3, CallMoves
  <2>5. TypeOK'  BY <2>1, <2>4 DEF Await, IInv, TypeOK, Waiting
  <2>6. Doing(Owner)'  BY <2>2, <2>4, Fields DEF Await, IInv, Doing, At, Nobody
  <2> QED BY <1>0, <2>2, <2>4, <2>5, <2>6, Quiet DEF Await, IInv
<1> QED BY <1>1, <1>2 DEF Await

LEMMA PutBackStep == ASSUME IInv, PutBack PROVE IInv'
<1> USE HostAssumption
<1>0. call[Owner] \in Call /\ call[Owner].victim = Nobody
  BY Fields DEF PutBack, IInv, Doing, At
<1>1. CASE call[Owner].skipped # <<>>
  <2> DEFINE c == [call[Owner] EXCEPT !.skipped = Tail(@)]
  <2>1. call[Owner].skipped \in Seq(Event)  BY <1>0 DEF Call
  <2>2. Tail(call[Owner].skipped) \in Seq(Event)
    BY <1>1, <2>1
  <2>3. Head(call[Owner].skipped) \in Event
    BY <1>1, <2>1
  <2>4. c \in Call /\ c.victim = Nobody /\ c.pc = "putback"
    BY <1>0, <2>2 DEF Call, PutBack, At
  <2>5. call' = [call EXCEPT ![Owner] = c]  BY <1>1 DEF PutBack
  <2> HIDE DEF c
  <2>6. /\ call' \in [Threads -> Call] /\ call'[Owner] = c
        /\ \A u \in Threads \ {Owner} : call'[u] = call[u]
    BY <2>4, <2>5, CallMoves
  <2>7. events' \in Seq(Event) /\ Len(events') <= MaxEvents
    <3>1. events' = Append(events, Head(call[Owner].skipped)) /\ Len(events) < MaxEvents
      BY <1>1 DEF PutBack, HasRoom
    <3>2. events \in Seq(Event)  BY DEF IInv, TypeOK
    <3> QED BY <2>3, <3>1, <3>2
  <2>8. TypeOK'  BY <2>6, <2>7 DEF PutBack, IInv, TypeOK, Waiting
  <2>9. Doing(Owner)'  BY <2>4, <2>6, Fields DEF PutBack, IInv, Doing, At, Nobody
  <2> QED BY <1>0, <2>4, <2>6, <2>8, <2>9, Quiet DEF PutBack, IInv
<1>2. CASE call[Owner].skipped = <<>> /\ Return(Owner)
  <2>1. TypeOK'  BY <1>2, Returns DEF PutBack, IInv, TypeOK, Waiting
  <2>2. Doing(Owner)'  BY <1>2, Returns, Fields DEF PutBack, IInv, Doing, At, Nobody
  <2> QED BY <1>0, <1>2, <2>1, <2>2, Returns, Quiet DEF PutBack, IInv
<1>3. CASE /\ call[Owner].skipped = <<>>
           /\ call' = [call EXCEPT ![Owner].pc = "take", ![Owner].then = "fail"]
  <2> DEFINE c == [call[Owner] EXCEPT !.pc = "take", !.then = "fail"]
  <2>1. c \in Call /\ c.victim = Nobody /\ c.pc = "take"  BY <1>0 DEF Call
  <2>2. call' = [call EXCEPT ![Owner] = c]  BY <1>3
  <2> HIDE DEF c
  <2>3. /\ call' \in [Threads -> Call] /\ call'[Owner] = c
        /\ \A u \in Threads \ {Owner} : call'[u] = call[u]
    BY <2>1, <2>2, CallMoves
  <2>4. TypeOK'  BY <1>3, <2>3 DEF PutBack, IInv, TypeOK, Waiting
  <2>5. Doing(Owner)'  BY <2>1, <2>3, Fields DEF PutBack, IInv, Doing, At, Nobody
  <2> QED BY <1>0, <1>3, <2>1, <2>3, <2>4, <2>5, Quiet DEF PutBack, IInv
<1> QED BY <1>1, <1>2, <1>3 DEF PutBack

(* shutdown and restart                                                    *)

\* A call that begins a shutdown.
LEMMA BeginsShutdown ==
    ASSUME IInv, NEW t \in Threads, NEW x \in {"revive", "close"}, At(t, "ready"),
           call' = [call EXCEPT ![t] = [NoCall EXCEPT !.pc = "take", !.then = x]],
           UNCHANGED <<host, pending, waiter, events, child, reader, log, answered>>
    PROVE  IInv'
<1> DEFINE c == [NoCall EXCEPT !.pc = "take", !.then = x]
<1>1. c \in Call  BY NoCallType, Zenon DEF Call
<1>2. c.victim = Nobody /\ c.pc = "take"  BY DEF NoCall
<1>3. call[t].victim = Nobody  BY DEF IInv, Doing, At
<1>4. call' = [call EXCEPT ![t] = c]  OBVIOUS
<1> HIDE DEF c
<1>5. /\ call' \in [Threads -> Call] /\ call'[t] = c
      /\ \A u \in Threads \ {t} : call'[u] = call[u]
  BY <1>1, <1>4, CallMoves
<1>6. TypeOK'  BY <1>5 DEF IInv, TypeOK, Waiting
<1>7. Doing(t)'  BY <1>2, <1>5, Fields DEF IInv, Doing, At, Nobody
<1> QED BY <1>2, <1>3, <1>5, <1>6, <1>7, Quiet DEF IInv

LEMMA RestartStep == ASSUME IInv, Restart PROVE IInv'
BY HostAssumption, BeginsShutdown DEF Restart

LEMMA CloseStep == ASSUME IInv, Close PROVE IInv'
BY BeginsShutdown DEF Close

\* A shutdown that is over: its call returns, or goes on to start.
LEMMA ShutdownEnds ==
    ASSUME IInv, NEW t \in Threads, ShutdownReturns(t)
    PROVE  /\ call' \in [Threads -> Call]
           /\ call'[t].victim = Nobody \/ call'[t].victim = call[t].victim
           /\ call'[t].pc \in {"ready", "closed", "revive"}
           /\ \A u \in Threads \ {t} : call'[u] = call[u]
<1>1. CASE GoTo(t, "revive")  BY <1>1, GoesTo
<1>2. CASE Return(t)  BY <1>2, Returns
<1> QED BY <1>1, <1>2 DEF ShutdownReturns

LEMMA TakeStep == ASSUME IInv, NEW t \in Threads, Take(t) PROVE IInv'
<1> USE HostAssumption
<1>0. call[t] \in Call /\ call[t].victim = Nobody /\ host.process \in 0..MaxChildren
  BY Fields DEF Take, IInv, Doing, At
<1>1. host' \in Host /\ host'.process = Nobody /\ host'.spawned = host.spawned
  <2>1. host \in Host /\ host' = [host EXCEPT !.stopped = TRUE, !.process = Nobody]
    BY DEF Take, IInv, TypeOK
  <2>2. Nobody \in 0..MaxChildren  BY DEF Nobody
  <2> QED BY <2>1, <2>2 DEF Host
<1>2. Numbered'
  <2>1. host.spawned \in Nat  BY Fields DEF IInv
  <2> QED BY <1>1, <2>1 DEF Take, IInv, Numbered, Nobody
<1>3. CASE host.process = Nobody
  <2>1. ShutdownReturns(t)  BY <1>3 DEF Take
  <2>2. TypeOK'  BY <1>1, <2>1, ShutdownEnds DEF Take, IInv, TypeOK, Waiting
  <2>3. Doing(t)'  BY <1>0, <1>1, <2>1, ShutdownEnds, Fields DEF IInv, Doing, At, Nobody
  <2>4. call'[t].victim = call[t].victim  BY <1>0, <2>1, ShutdownEnds
  <2> QED BY <1>1, <1>3, <2>1, <2>2, <2>3, <2>4, ShutdownEnds, Quiet DEF Take, IInv
<1>4. CASE host.process # Nobody
  <2> DEFINE alive == child[host.process].alive
             c == [call[t] EXCEPT !.pc = IF alive THEN "end" ELSE "join",
                                  !.victim = host.process]
  <2>1. /\ c \in Call /\ c.victim = host.process /\ c.pc \in {"end", "join"}
        /\ c.pc = "join" => ~alive
    BY <1>0 DEF Call
  <2>2. call' = [call EXCEPT ![t] = c]  BY <1>4 DEF Take
  <2> HIDE DEF c
  <2>3. /\ call' \in [Threads -> Call] /\ call'[t] = c
        /\ \A u \in Threads \ {t} : call'[u] = call[u]
    BY <2>1, <2>2, CallMoves
  <2>4. TypeOK'  BY <1>1, <2>3 DEF Take, IInv, TypeOK, Waiting
  <2>5. NoUntrackedChild'
    <3>1. SUFFICES ASSUME NEW k \in Children, child[k].alive
                   PROVE  \E u \in Threads : call'[u].victim = k
      BY DEF Take, NoUntrackedChild
    <3>2. CASE host.process = k  BY <2>1, <2>3, <3>2
    <3>3. CASE host.process # k
      <4>1. PICK u \in Threads : call[u].victim = k  BY <3>1, <3>3 DEF IInv, NoUntrackedChild
      <4>2. u # t  BY <1>0, <4>1 DEF Children, Nobody
      <4> QED BY <2>3, <4>1, <4>2
    <3> QED BY <3>2, <3>3
  <2>6. ASSUME NEW u \in Threads PROVE Doing(u)'
    <3>1. CASE u = t
      BY <1>1, <1>4, <2>1, <2>3, <3>1 DEF Take, IInv, Numbered, Doing, At
    <3>2. CASE u # t  BY <1>1, <2>3, <3>2 DEF Take, IInv, Doing, At
    <3> QED BY <3>1, <3>2
  <2> QED BY <1>2, <2>4, <2>5, <2>6 DEF Take, IInv
<1> QED BY <1>3, <1>4

\* A line more in a child's pipe.
LEMMA InboxGrows ==
    ASSUME child \in [Children -> Child], NEW k \in Children, NEW m \in Message,
           child' = [child EXCEPT ![k].inbox = Append(@, m)]
    PROVE  child' \in [Children -> Child] /\ \A j \in Children : child'[j].alive = child[j].alive
<1> DEFINE c == [child[k] EXCEPT !.inbox = Append(@, m)]
<1>1. child[k] \in Child  OBVIOUS
<1>2. Append(child[k].inbox, m) \in Seq(Message)  BY <1>1 DEF Child
<1>3. c \in Child /\ c.alive = child[k].alive  BY <1>1, <1>2 DEF Child
<1>4. child' = [child EXCEPT ![k] = c]  OBVIOUS
<1> HIDE DEF c
<1> QED BY <1>3, <1>4

LEMMA ChildDies ==
    ASSUME child \in [Children -> Child], NEW k \in Children,
           child' = [child EXCEPT ![k] = Dead(@)]
    PROVE  /\ child' \in [Children -> Child] /\ ~child'[k].alive
           /\ \A j \in Children \ {k} : child'[j] = child[j]
<1>1. child[k] \in Child  OBVIOUS
<1>2. Dead(child[k]) \in Child /\ ~Dead(child[k]).alive
  <2>1. <<>> \in Seq(Message)  OBVIOUS
  <2> HIDE DEF Message
  <2> QED BY <1>1, <2>1 DEF Child, Dead
<1> QED BY <1>2

LEMMA EndInputStep == ASSUME IInv, NEW t \in Threads, EndInput(t) PROVE IInv'
<1> USE HostAssumption
<1>1. GoTo(t, "reap") /\ call[t].victim # Nobody  BY DEF EndInput, IInv, Doing, At
<1>2. child \in [Children -> Child]  BY DEF IInv, TypeOK
<1>3. /\ child' \in [Children -> Child]
      /\ \A k \in Children : child'[k].alive = child[k].alive
  <2>1. CASE child' = child  BY <1>2, <2>1
  <2>2. CASE host.process # Nobody
              /\ child' = [child EXCEPT ![host.process].inbox = Append(@, Shutdown)]
    <3>1. host.process \in Children  BY <2>2, Fields DEF IInv, Children, Nobody
    <3>2. Shutdown \in Message  BY DEF Message
    <3> QED BY <1>2, <2>2, <3>1, <3>2, InboxGrows
  <2> QED BY <2>1, <2>2 DEF EndInput
<1>4. TypeOK'  BY <1>1, <1>3, GoesTo DEF EndInput, IInv, TypeOK, Waiting
<1>5. Doing(t)'  BY <1>1, GoesTo, Fields DEF EndInput, IInv, Doing, At, Nobody
<1> QED BY <1>1, <1>3, <1>4, <1>5, GoesTo, Quiet DEF EndInput, IInv

LEMMA ReapStep == ASSUME IInv, NEW t \in Threads, Reap(t) PROVE IInv'
<1> USE HostAssumption
<1>1. GoTo(t, "join") /\ call[t].victim \in Children
  BY Fields DEF Reap, IInv, Doing, At, Nobody, Children
<1>2. /\ child' \in [Children -> Child] /\ ~child'[call[t].victim].alive
      /\ \A k \in Children : child'[k].alive => child[k].alive
  BY <1>1, ChildDies DEF Reap, IInv, TypeOK
<1>3. TypeOK'  BY <1>1, <1>2, GoesTo DEF Reap, IInv, TypeOK, Waiting
<1>4. Doing(t)'  BY <1>1, <1>2, GoesTo, Fields DEF Reap, IInv, Doing, At, Nobody, Children
<1> QED BY <1>1, <1>2, <1>3, <1>4, GoesTo, Quiet DEF Reap, IInv

\* A victim is let go of, and it is dead.
LEMMA JoinStep == ASSUME IInv, NEW t \in Threads, Join(t) PROVE IInv'
<1> USE HostAssumption
<1> DEFINE n == Cardinality(DOMAIN pending)
           c == [call[t] EXCEPT !.pc = "wake", !.seen = {}, !.victim = Nobody, !.size = n]
<1>1. call[t] \in Call /\ n \in Nat  BY Fields, FS_CardinalityType DEF IInv
<1>2. call' = [call EXCEPT ![t] = c]  BY DEF Join
<1> HIDE DEF n
<1>3. c \in Call /\ c.pc = "wake" /\ c.victim = Nobody
  <2>1. Nobody \in 0..MaxChildren /\ {} \in SUBSET Requests  BY DEF Nobody
  <2>2. c \in Call  BY <1>1, <2>1, Zenon DEF Call
  <2> QED BY <1>1, <2>2 DEF Call
<1> HIDE DEF c
<1>4. /\ call' \in [Threads -> Call] /\ call'[t] = c
      /\ \A u \in Threads \ {t} : call'[u] = call[u]
  BY <1>2, <1>3, CallMoves
<1>5. TypeOK'  BY <1>4 DEF Join, IInv, TypeOK, Waiting
<1>6. ~child[call[t].victim].alive  BY DEF Join, IInv, Doing
<1>7. NoUntrackedChild'
  <2>1. SUFFICES ASSUME NEW k \in Children, child[k].alive, host.process # k
                 PROVE  \E u \in Threads : call'[u].victim = k
    BY DEF Join, NoUntrackedChild
  <2>2. PICK u \in Threads : call[u].victim = k  BY <2>1 DEF IInv, NoUntrackedChild
  <2>3. u # t  BY <1>6, <2>1, <2>2
  <2> QED BY <1>4, <2>2, <2>3
<1>8. Doing(t)'  BY <1>3, <1>4, Fields DEF Join, IInv, Doing, At, Nobody
<1>9. ASSUME NEW u \in Threads PROVE Doing(u)'
  BY <1>4, <1>8, <1>9 DEF Join, IInv, Doing, At
<1> QED BY <1>5, <1>7, <1>9 DEF Join, IInv, Numbered

LEMMA WakeStep == ASSUME IInv, NEW t \in Threads, Wake(t) PROVE IInv'
<1> USE HostAssumption
<1>0. call[t] \in Call /\ call[t].victim = Nobody  BY Fields DEF Wake, IInv, Doing, At
<1>1. CASE Return(t) /\ UNCHANGED pending
  <2>1. TypeOK'  BY <1>1, Returns DEF Wake, IInv, TypeOK, Waiting
  <2>2. Doing(t)'  BY <1>1, Returns, Fields DEF Wake, IInv, Doing, At, Nobody
  <2> QED BY <1>0, <1>1, <2>1, <2>2, Returns, Quiet DEF Wake, IInv
<1>2. CASE ShutdownReturns(t) /\ pending' = <<>>
  <2>1. DOMAIN pending' = {} /\ Waiting' = {}  BY <1>2 DEF Waiting
  <2>2. TypeOK'  BY <1>2, <2>1, ShutdownEnds DEF Wake, IInv, TypeOK
  <2>3. Doing(t)'  BY <1>0, <1>2, ShutdownEnds, Fields DEF Wake, IInv, Doing, At, Nobody
  <2>4. IsFiniteSet(DOMAIN pending)'  BY <2>1, FS_EmptySet
  <2>5. call'[t].victim = call[t].victim  BY <1>0, <1>2, ShutdownEnds
  <2> QED BY <1>2, <2>2, <2>3, <2>4, <2>5, ShutdownEnds, Quiet DEF Wake, IInv
<1>3. ASSUME NEW r \in Waiting, UNCHANGED pending,
             call' = [call EXCEPT ![t].pc = "put", ![t].request = r]
      PROVE  IInv'
  <2> DEFINE c == [call[t] EXCEPT !.pc = "put", !.request = r]
  <2>1. r \in Requests /\ r \in 0..MaxRequests  BY DEF IInv, TypeOK, Requests
  <2>2. c \in Call /\ c.pc = "put" /\ c.victim = Nobody /\ c.request = r
    BY <1>0, <2>1 DEF Call
  <2>3. call' = [call EXCEPT ![t] = c]  BY <1>3
  <2> HIDE DEF c
  <2>4. /\ call' \in [Threads -> Call] /\ call'[t] = c
        /\ \A u \in Threads \ {t} : call'[u] = call[u]
    BY <2>2, <2>3, CallMoves
  <2>5. TypeOK'
    <3>1. UNCHANGED <<host, waiter, events, child, reader, log, answered>>  BY DEF Wake
    <3> QED BY <1>3, <2>4, <3>1 DEF IInv, TypeOK, Waiting
  <2>6. Doing(t)'  BY <2>1, <2>2, <2>4, Fields DEF Wake, IInv, Doing, At, Nobody
  <2> QED BY <1>0, <1>3, <2>2, <2>4, <2>5, <2>6, Quiet DEF Wake, IInv
<1> QED BY <1>1, <1>2, <1>3 DEF Wake

LEMMA PutStep == ASSUME IInv, NEW t \in Threads, Put(t) PROVE IInv'
<1> USE HostAssumption
<1>0. call[t] \in Call /\ call[t].victim = Nobody /\ call[t].request \in Requests
  BY Fields DEF Put, IInv, Doing, At
<1> DEFINE c == [call[t] EXCEPT !.pc = "wake", !.request = 0, !.seen = @ \cup {call[t].request}]
<1>1. c \in Call /\ c.pc = "wake" /\ c.victim = Nobody
  <2>1. 0 \in 0..MaxRequests  OBVIOUS
  <2>2. call[t].seen \cup {call[t].request} \in SUBSET Requests  BY <1>0 DEF Call
  <2>3. c \in Call  BY <1>0, <2>1, <2>2, Zenon DEF Call
  <2> QED BY <1>0, <2>3 DEF Call
<1>2. call' = [call EXCEPT ![t] = c]  BY DEF Put
<1> HIDE DEF c
<1>3. /\ call' \in [Threads -> Call] /\ call'[t] = c
      /\ \A u \in Threads \ {t} : call'[u] = call[u]
  BY <1>1, <1>2, CallMoves
<1>4. waiter' \in [Requests -> Content]  BY Contents DEF Put, IInv, TypeOK
<1>5. TypeOK'  BY <1>3, <1>4 DEF Put, IInv, TypeOK, Waiting
<1>6. Doing(t)'  BY <1>1, <1>3, Fields DEF Put, IInv, Doing, At, Nobody
<1> QED BY <1>0, <1>1, <1>3, <1>5, <1>6, Quiet DEF Put, IInv

LEMMA ReviveStep == ASSUME IInv, Revive PROVE IInv'
<1> USE HostAssumption
<1>1. GoTo(Owner, "spawn") /\ call[Owner].victim = Nobody
  BY DEF Revive, IInv, Doing, At
<1>2. host' \in Host /\ host'.process = host.process /\ host'.spawned = host.spawned
  BY DEF Revive, IInv, TypeOK, Host
<1>3. TypeOK'  BY <1>1, <1>2, GoesTo DEF Revive, IInv, TypeOK, Waiting
<1>4. Doing(Owner)'  BY <1>1, <1>2, GoesTo, Fields DEF Revive, IInv, Doing, At, Nobody
<1> QED BY <1>1, <1>2, <1>3, <1>4, GoesTo, Quiet DEF Revive, IInv

(* request and drain_events                                                *)

LEMMA RequestStep == ASSUME IInv, Request PROVE IInv'
<1> USE HostAssumption
<1>0. call[Owner].victim = Nobody  BY DEF Request, IInv, Doing, At
<1>1. CASE Return(Owner) /\ UNCHANGED <<host, pending>>
  <2>1. TypeOK'  BY <1>1, Returns DEF Request, IInv, TypeOK, Waiting
  <2>2. Doing(Owner)'  BY <1>1, Returns, Fields DEF Request, IInv, Doing, At, Nobody
  <2> QED BY <1>0, <1>1, <2>1, <2>2, Returns, Quiet DEF Request, IInv
<1>2. CASE LET r == host.asked + 1
           IN  /\ host' = [host EXCEPT !.next = @ + 1, !.asked = r]
               /\ pending' = [i \in DOMAIN pending \cup {host.next} |->
                                 IF i = host.next THEN r ELSE pending[i]]
               /\ call' = [call EXCEPT ![Owner] =
                              [NoCall EXCEPT !.pc = "write", !.id = host.next, !.request = r]]
  <2> DEFINE r == host.asked + 1
             c == [NoCall EXCEPT !.pc = "write", !.id = host.next, !.request = r]
  <2>1. host \in Host /\ host.asked < MaxRequests  BY DEF Request, IInv, TypeOK
  <2>2. r \in Requests /\ r \in 0..MaxRequests /\ host.next \in Nat
    BY <2>1 DEF Host, Requests
  <2>3. /\ host' \in Host /\ host'.process = host.process /\ host'.spawned = host.spawned
    <3> DEFINE n == host.next + 1
    <3>1. host' = [host EXCEPT !.next = n, !.asked = r]  BY <1>2
    <3>2. n \in Nat  BY <2>2
    <3> HIDE DEF r, n
    <3> QED BY <2>1, <2>2, <3>1, <3>2 DEF Host
  <2>4. /\ DOMAIN pending' = DOMAIN pending \cup {host.next}
        /\ Waiting' \subseteq Waiting \cup {r}
    <3>1. pending' = [i \in DOMAIN pending \cup {host.next} |->
                         IF i = host.next THEN r ELSE pending[i]]
      BY <1>2
    <3>2. DOMAIN pending' = DOMAIN pending \cup {host.next}  BY <3>1
    <3>3. ASSUME NEW i \in DOMAIN pending' PROVE pending'[i] \in Waiting \cup {r}
      BY <3>1, <3>3 DEF Waiting
    <3> QED BY <3>2, <3>3 DEF Waiting
  <2>5. IsFiniteSet(DOMAIN pending')  BY <2>4, FS_AddElement DEF IInv
  <2>6. call' = [call EXCEPT ![Owner] = c]  BY <1>2
  <2> HIDE DEF r
  <2>7. c \in Call  BY <2>2, NoCallType, Zenon DEF Call
  <2>8. c.victim = Nobody /\ c.pc = "write" /\ c.request = r  BY DEF NoCall
  <2> HIDE DEF c
  <2>9. /\ call' \in [Threads -> Call] /\ call'[Owner] = c
        /\ \A u \in Threads \ {Owner} : call'[u] = call[u]
    BY <2>6, <2>7, CallMoves
  <2>10. TypeOK'
    <3>1. UNCHANGED <<waiter, events, child, reader, log, answered>>  BY DEF Request
    <3>2. DOMAIN pending' \subseteq Nat /\ Waiting' \subseteq Requests
      BY <2>2, <2>4 DEF IInv, TypeOK
    <3> QED BY <2>3, <2>9, <3>1, <3>2 DEF IInv, TypeOK
  <2>11. Doing(Owner)'  BY <2>2, <2>3, <2>8, <2>9, Fields DEF IInv, Doing, At, Nobody
  <2> QED BY <1>0, <2>3, <2>5, <2>8, <2>9, <2>10, <2>11, Quiet DEF Request, IInv
<1> QED BY <1>1, <1>2 DEF Request

\* One request fewer waits.
LEMMA Popped ==
    ASSUME IInv, NEW i, pending' = Without(i)
    PROVE  /\ DOMAIN pending' \subseteq Nat /\ Waiting' \subseteq Requests
           /\ IsFiniteSet(DOMAIN pending')
<1>1. DOMAIN pending' = DOMAIN pending \ {i} /\ Waiting' \subseteq Waiting
  BY DEF Without, Waiting
<1>2. IsFiniteSet(DOMAIN pending \ {i})  BY FS_RemoveElement DEF IInv
<1> QED BY <1>1, <1>2 DEF IInv, TypeOK

LEMMA WriteStep == ASSUME IInv, Write PROVE IInv'
<1> USE HostAssumption
<1>0. call[Owner] \in Call /\ call[Owner].victim = Nobody /\ call[Owner].request \in Requests
  BY Fields DEF Write, IInv, Doing, At
<1>1. CASE /\ host.process # Nobody
           /\ child' = [child EXCEPT ![host.process].inbox =
                            Append(@, [id |-> call[Owner].id, request |-> call[Owner].request])]
           /\ GoTo(Owner, "get") /\ UNCHANGED pending
  <2> DEFINE m == [id |-> call[Owner].id, request |-> call[Owner].request]
  <2>1. host.process \in Children  BY <1>1, Fields DEF IInv, Children, Nobody
  <2>2. m \in Message  BY <1>0 DEF Call, Message
  <2>3. child' = [child EXCEPT ![host.process].inbox = Append(@, m)]  BY <1>1
  <2> HIDE DEF m
  <2>4. /\ child' \in [Children -> Child]
        /\ \A k \in Children : child'[k].alive = child[k].alive
    BY <2>1, <2>2, <2>3, InboxGrows DEF IInv, TypeOK
  <2>5. TypeOK'  BY <1>1, <2>4, GoesTo DEF Write, IInv, TypeOK, Waiting
  <2>6. Doing(Owner)'  BY <1>0, <1>1, GoesTo, Fields DEF Write, IInv, Doing, At, Nobody
  <2> QED BY <1>1, <2>4, <2>5, <2>6, GoesTo, Quiet DEF Write, IInv
<1>2. CASE Return(Owner) /\ pending' = Without(call[Owner].id) /\ UNCHANGED child
  <2>1. TypeOK'
    <3>1. UNCHANGED <<host, waiter, events, reader, log, answered>>  BY DEF Write
    <3> QED BY <1>2, <3>1, Returns, Popped DEF IInv, TypeOK
  <2>2. Doing(Owner)'  BY <1>2, Returns, Fields DEF Write, IInv, Doing, At, Nobody
  <2> QED BY <1>0, <1>2, <2>1, <2>2, Returns, Popped, Quiet DEF Write, IInv
<1> QED BY <1>1, <1>2 DEF Write

LEMMA GetStep == ASSUME IInv, Get PROVE IInv'
<1> USE HostAssumption
<1>0. call[Owner] \in Call /\ call[Owner].victim = Nobody /\ call[Owner].request \in Requests
  BY Fields DEF Get, IInv, Doing, At
<1> DEFINE c == [call[Owner] EXCEPT !.pc = "pop", !.reply = waiter[call[Owner].request]]
<1>1. waiter[call[Owner].request] \in Content  BY <1>0 DEF IInv, TypeOK
<1>2. c \in Call /\ c.pc = "pop" /\ c.victim = Nobody /\ c.request = call[Owner].request
  BY <1>0, <1>1 DEF Call
<1>3. call' = [call EXCEPT ![Owner] = c]  BY DEF Get
<1> HIDE DEF c
<1>4. /\ call' \in [Threads -> Call] /\ call'[Owner] = c
      /\ \A u \in Threads \ {Owner} : call'[u] = call[u]
  BY <1>2, <1>3, CallMoves
<1>5. waiter' \in [Requests -> Content]  BY Contents DEF Get, IInv, TypeOK
<1>6. TypeOK'  BY <1>4, <1>5 DEF Get, IInv, TypeOK, Waiting
<1>7. Doing(Owner)'  BY <1>0, <1>2, <1>4, Fields DEF Get, IInv, Doing, At, Nobody
<1> QED BY <1>0, <1>2, <1>4, <1>6, <1>7, Quiet DEF Get, IInv

LEMMA PopStep == ASSUME IInv, Pop PROVE IInv'
<1> USE HostAssumption
<1>0. call[Owner].victim = Nobody /\ call[Owner].request \in Requests /\ Return(Owner)
  BY DEF Pop, IInv, Doing, At
<1>1. answered' \subseteq Requests  BY <1>0 DEF Pop, IInv, TypeOK
<1>2. pending' = Without(call[Owner].id)  BY DEF Pop
<1>3. TypeOK'
  <2>1. UNCHANGED <<host, waiter, events, child, reader, log>>  BY DEF Pop
  <2> QED BY <1>0, <1>1, <1>2, <2>1, Returns, Popped DEF IInv, TypeOK
<1>4. Doing(Owner)'  BY <1>0, Returns, Fields DEF Pop, IInv, Doing, At, Nobody
<1> QED BY <1>0, <1>2, <1>3, <1>4, Returns, Popped, Quiet DEF Pop, IInv

LEMMA DrainStep == ASSUME IInv, DrainEvents PROVE IInv'
<1>1. events' \in Seq(Event) /\ Len(events') <= MaxEvents
  BY HostAssumption DEF DrainEvents
<1>2. TypeOK'  BY <1>1 DEF DrainEvents, IInv, TypeOK, Waiting
<1> QED BY <1>2, Quiet DEF DrainEvents, IInv

(* The reader threads and the children                                     *)

\* The reader of k goes on as d; nothing else of the state's shape changes.
LEMMA ReaderMoves ==
    ASSUME IInv, NEW k \in Children, NEW d \in Reader, reader' = [reader EXCEPT ![k] = d]
    PROVE  reader' \in [Children -> Reader]
BY DEF IInv, TypeOK

\* What the readers do touches neither the host nor the calls.
LEMMA ReaderQuiet ==
    ASSUME IInv, UNCHANGED <<host, pending, call, log, answered>>,
           waiter' \in [Requests -> Content], reader' \in [Children -> Reader],
           events' \in Seq(Event), Len(events') <= MaxEvents,
           child' \in [Children -> Child],
           \A k \in Children : child'[k].alive => child[k].alive
    PROVE  IInv'
<1>1. TypeOK'  BY DEF IInv, TypeOK, Waiting
<1> QED BY <1>1, Quiet DEF IInv

\* A line less on a child's stdout.
LEMMA OutboxShrinks ==
    ASSUME IInv, NEW k \in Children, child[k].outbox # <<>>,
           child' = [child EXCEPT ![k].outbox = Tail(@)]
    PROVE  /\ Head(child[k].outbox) \in Line
           /\ child' \in [Children -> Child] /\ \A j \in Children : child'[j].alive = child[j].alive
<1> DEFINE c == [child[k] EXCEPT !.outbox = Tail(@)]
<1>1. child \in [Children -> Child] /\ child[k] \in Child  BY DEF IInv, TypeOK
<1>2. child[k].outbox \in Seq(Line)  BY <1>1 DEF Child
<1>3. Tail(child[k].outbox) \in Seq(Line) /\ Head(child[k].outbox) \in Line
  <2> HIDE DEF Line
  <2> QED BY <1>2
<1>4. c \in Child /\ c.alive = child[k].alive  BY <1>1, <1>3 DEF Child
<1>5. child' = [child EXCEPT ![k] = c]  OBVIOUS
<1> HIDE DEF c
<1> QED BY <1>1, <1>3, <1>4, <1>5

LEMMA ReadLineStep == ASSUME IInv, NEW k \in Children, ReadLine(k) PROVE IInv'
<1> DEFINE line == Head(child[k].outbox)
<1>1. /\ line \in Line /\ child' \in [Children -> Child]
      /\ \A j \in Children : child'[j].alive = child[j].alive
  BY OutboxShrinks DEF ReadLine
<1>2. reader[k] \in Reader  BY DEF IInv, TypeOK
<1> HIDE DEF line
<1>3. CASE HasRoom /\ events' = Append(events, EventName(line)) /\ UNCHANGED reader
  <2>1. events' \in Seq(Event) /\ Len(events') <= MaxEvents
    BY <1>3, HostAssumption DEF HasRoom, EventName, Event, IInv, TypeOK
  <2> QED BY <1>1, <1>3, <2>1, ReaderQuiet DEF ReadLine, IInv, TypeOK
<1>4. CASE /\ UNCHANGED events /\ line.id \in DOMAIN pending
           /\ reader' = [reader EXCEPT ![k].pc = "hand", ![k].line = line,
                                       ![k].target = pending[line.id]]
  <2> DEFINE d == [reader[k] EXCEPT !.pc = "hand", !.line = line, !.target = pending[line.id]]
  <2>1. pending[line.id] \in 0..MaxRequests
    <3>1. pending[line.id] \in Waiting  BY <1>4 DEF Waiting
    <3>2. Waiting \subseteq Requests  BY DEF IInv, TypeOK
    <3>3. Requests \subseteq 0..MaxRequests  BY HostAssumption DEF Requests
    <3> QED BY <3>1, <3>2, <3>3
  <2>2. d \in Reader  BY <1>1, <1>2, <2>1 DEF Reader
  <2>3. reader' = [reader EXCEPT ![k] = d]  BY <1>4
  <2> HIDE DEF d
  <2>4. reader' \in [Children -> Reader]  BY <2>2, <2>3, ReaderMoves
  <2> QED BY <1>1, <1>4, <2>4, ReaderQuiet DEF ReadLine, IInv, TypeOK
<1>5. CASE UNCHANGED <<events, reader>>
  BY <1>1, <1>5, ReaderQuiet DEF ReadLine, IInv, TypeOK
<1> QED BY <1>3, <1>4, <1>5 DEF ReadLine, line

LEMMA HandOverStep == ASSUME IInv, NEW k \in Children, HandOver(k) PROVE IInv'
<1> DEFINE d == [reader[k] EXCEPT !.pc = "read", !.line = ReadySignal, !.target = 0]
<1>1. reader[k] \in Reader /\ reader[k].line \in Line  BY DEF IInv, TypeOK, Reader
<1>2. reader[k].line.content \in Content  BY <1>1 DEF Line
<1>3. waiter' \in [Requests -> Content]  BY <1>2 DEF HandOver, IInv, TypeOK
<1>4. ReadySignal \in Line /\ 0 \in 0..MaxRequests
  BY Contents, HostAssumption DEF ReadySignal, Line
<1>5. d \in Reader  BY <1>1, <1>4 DEF Reader
<1>6. reader' = [reader EXCEPT ![k] = d]  BY DEF HandOver
<1> HIDE DEF d
<1>7. reader' \in [Children -> Reader]  BY <1>5, <1>6, ReaderMoves
<1> QED BY <1>3, <1>7, ReaderQuiet DEF HandOver, IInv, TypeOK

LEMMA EndOfFileStep == ASSUME IInv, NEW k \in Children, EndOfFile(k) PROVE IInv'
<1> DEFINE d == [reader[k] EXCEPT !.pc = "left"]
<1>1. d \in Reader  BY DEF IInv, TypeOK, Reader
<1>2. reader' = [reader EXCEPT ![k] = d]  BY DEF EndOfFile
<1> HIDE DEF d
<1>3. reader' \in [Children -> Reader]  BY <1>1, <1>2, ReaderMoves
<1>4. events' \in Seq(Event) /\ Len(events') <= MaxEvents
  BY HostAssumption DEF EndOfFile, HasRoom, Event, IInv, TypeOK
<1> QED BY <1>3, <1>4, ReaderQuiet DEF EndOfFile, IInv, TypeOK

LEMMA ListWaitingStep == ASSUME IInv, NEW k \in Children, ListWaiting(k) PROVE IInv'
<1> DEFINE d == [reader[k] EXCEPT !.pc = "wake", !.todo = Waiting]
<1>1. d \in Reader  BY DEF IInv, TypeOK, Reader
<1>2. reader' = [reader EXCEPT ![k] = d]  BY DEF ListWaiting
<1> HIDE DEF d
<1>3. reader' \in [Children -> Reader]  BY <1>1, <1>2, ReaderMoves
<1> QED BY <1>3, ReaderQuiet DEF ListWaiting, IInv, TypeOK

LEMMA WakeWaitingStep == ASSUME IInv, NEW k \in Children, WakeWaiting(k) PROVE IInv'
<1>0. reader[k] \in Reader  BY DEF IInv, TypeOK
<1>1. CASE reader' = [reader EXCEPT ![k].pc = "done"] /\ UNCHANGED waiter
  <2>1. reader' \in [Children -> Reader]  BY <1>0, <1>1 DEF IInv, TypeOK, Reader
  <2> QED BY <1>1, <2>1, ReaderQuiet DEF WakeWaiting, IInv, TypeOK
<1>2. ASSUME NEW r \in reader[k].todo, waiter' = [waiter EXCEPT ![r] = Ended],
             reader' = [reader EXCEPT ![k].todo = @ \ {r}]
      PROVE  IInv'
  <2> DEFINE d == [reader[k] EXCEPT !.todo = @ \ {r}]
  <2>1. d \in Reader  BY <1>0 DEF Reader
  <2>2. reader' = [reader EXCEPT ![k] = d]  BY <1>2
  <2> HIDE DEF d
  <2>3. reader' \in [Children -> Reader]  BY <2>1, <2>2, ReaderMoves
  <2>4. waiter' \in [Requests -> Content]  BY <1>2, Contents DEF IInv, TypeOK
  <2> QED BY <2>3, <2>4, ReaderQuiet DEF WakeWaiting, IInv, TypeOK
<1> QED BY <1>1, <1>2 DEF WakeWaiting

LEMMA SignalReadyStep == ASSUME IInv, NEW k \in Children, SignalReady(k) PROVE IInv'
<1> DEFINE c == [child[k] EXCEPT !.said = TRUE, !.outbox = Append(@, ReadySignal)]
<1>1. child[k] \in Child /\ child[k].outbox \in Seq(Line)  BY DEF IInv, TypeOK, Child
<1>2. ReadySignal \in Line  BY Contents DEF ReadySignal, Line
<1>3. Append(child[k].outbox, ReadySignal) \in Seq(Line)
  <2> HIDE DEF Line
  <2> QED BY <1>1, <1>2
<1>4. c \in Child /\ c.alive = child[k].alive  BY <1>1, <1>3 DEF Child
<1>5. child' = [child EXCEPT ![k] = c]  BY DEF SignalReady
<1> HIDE DEF c
<1> QED BY <1>4, <1>5, ReaderQuiet DEF SignalReady, IInv, TypeOK

LEMMA PostPageStep == ASSUME IInv, NEW k \in Children, PostPage(k) PROVE IInv'
<1> DEFINE c == [child[k] EXCEPT !.posted = @ + 1, !.outbox = Append(@, PageSignal)]
<1>1. child[k] \in Child /\ child[k].outbox \in Seq(Line) /\ child[k].posted \in 0..MaxPage
  BY DEF IInv, TypeOK, Child
<1>2. PageSignal \in Line  BY Contents DEF PageSignal, Line
<1>3. Append(child[k].outbox, PageSignal) \in Seq(Line)
  <2> HIDE DEF Line
  <2> QED BY <1>1, <1>2
<1>4. child[k].posted + 1 \in 0..MaxPage  BY <1>1, HostAssumption DEF PostPage
<1>5. c \in Child /\ c.alive = child[k].alive  BY <1>1, <1>3, <1>4 DEF Child
<1>6. child' = [child EXCEPT ![k] = c]  BY DEF PostPage
<1> HIDE DEF c
<1> QED BY <1>5, <1>6, ReaderQuiet DEF PostPage, IInv, TypeOK

LEMMA DieStep == ASSUME IInv, NEW k \in Children, Die(k) PROVE IInv'
<1>1. child' \in [Children -> Child] /\ \A j \in Children : child'[j].alive => child[j].alive
  BY ChildDies DEF Die, IInv, TypeOK
<1> QED BY <1>1, ReaderQuiet DEF Die, IInv, TypeOK

LEMMA ServeStep == ASSUME IInv, NEW k \in Children, Serve(k) PROVE IInv'
<1> DEFINE m == Head(child[k].inbox)
           done == [child EXCEPT ![k].inbox = Tail(@)]
           say(ok) == [done EXCEPT ![k].outbox =
                          Append(@, [id |-> m.id, content |-> Reply(m.request, ok)])]
<1>0. child[k] \in Child /\ child[k].inbox \in Seq(Message) /\ child[k].outbox \in Seq(Line)
  BY DEF IInv, TypeOK, Child
<1>1. m \in Message /\ Tail(child[k].inbox) \in Seq(Message)
  <2>1. child[k].inbox # <<>>  BY DEF Serve
  <2> HIDE DEF Message
  <2> QED BY <1>0, <2>1
<1>2. CASE child' = [child EXCEPT ![k] = Dead(@)] /\ UNCHANGED log
  <2>1. child' \in [Children -> Child] /\ \A j \in Children : child'[j].alive => child[j].alive
    BY <1>2, ChildDies DEF IInv, TypeOK
  <2> QED BY <1>2, <2>1, ReaderQuiet DEF Serve, IInv, TypeOK
<1>3. ASSUME m # Shutdown, log' \in {log, Append(log, m.request)},
             child' \in {done, say(TRUE), say(FALSE)}
      PROVE  IInv'
  <2>1. m.request \in Requests /\ m.id \in Nat /\ m.request \in 0..MaxRequests
    BY <1>1, <1>3 DEF Message, Requests
  <2>2. log' \in Seq(Requests)
    <3> HIDE DEF m
    <3>1. log \in Seq(Requests)  BY DEF IInv, TypeOK
    <3> QED BY <1>3, <2>1, <3>1
  <2>3. ASSUME NEW ok \in BOOLEAN
        PROVE  Append(child[k].outbox, [id |-> m.id, content |-> Reply(m.request, ok)]) \in Seq(Line)
    <3>1. [id |-> m.id, content |-> Reply(m.request, ok)] \in Line
      BY <2>1 DEF Line, Reply, Content
    <3> HIDE DEF Line
    <3> QED BY <1>0, <3>1
  <2> DEFINE c0 == [child[k] EXCEPT !.inbox = Tail(@)]
             c(ok) == [c0 EXCEPT !.outbox =
                          Append(@, [id |-> m.id, content |-> Reply(m.request, ok)])]
  <2>4. c0 \in Child /\ c0.alive = child[k].alive /\ c0.outbox = child[k].outbox
    BY <1>0, <1>1 DEF Child
  <2>5. ASSUME NEW ok \in BOOLEAN PROVE c(ok) \in Child /\ c(ok).alive = child[k].alive
    BY <2>3, <2>4 DEF Child
  <2>6. \E d \in Child : d.alive = child[k].alive /\ child' = [child EXCEPT ![k] = d]
    <3>1. CASE child' = done  BY <2>4, <3>1
    <3>2. ASSUME NEW ok \in BOOLEAN, child' = say(ok)
          PROVE  child' = [child EXCEPT ![k] = c(ok)]
      BY <3>2 DEF IInv, TypeOK
    <3> QED BY <1>3, <2>5, <3>1, <3>2
  <2>7. /\ child' \in [Children -> Child]
        /\ \A j \in Children : child'[j].alive = child[j].alive
    BY <2>6 DEF IInv, TypeOK
  <2>8. TypeOK'  BY <2>2, <2>7 DEF Serve, IInv, TypeOK, Waiting
  <2> QED BY <2>7, <2>8, Quiet DEF Serve, IInv
<1> QED BY <1>2, <1>3 DEF Serve

(* The results                                                             *)

LEMMA InitHolds == Init => IInv
<1> SUFFICES ASSUME Init PROVE IInv  OBVIOUS
<1> USE HostAssumption
<1>1. host \in Host /\ host.process = 0 /\ host.spawned = 0  BY DEF Init, Host, Nobody
<1>2. DOMAIN pending = {} /\ Waiting = {}  BY DEF Init, Waiting
<1>3. child \in [Children -> Child] /\ \A k \in Children : ~child[k].alive
  <2>1. <<>> \in Seq(Message) /\ <<>> \in Seq(Line) /\ 0 \in 0..MaxPage  OBVIOUS
  <2> DEFINE d == [alive |-> FALSE, said |-> FALSE, posted |-> 0, inbox |-> <<>>, outbox |-> <<>>]
  <2>2. d \in Child  BY <2>1, Zenon DEF Child
  <2>3. child = [k \in Children |-> d] /\ ~d.alive  BY DEF Init
  <2> HIDE DEF d
  <2> QED BY <2>2, <2>3
<1>4. reader \in [Children -> Reader]
  <2>1. ReadySignal \in Line  BY Contents DEF ReadySignal, Line
  <2>2. 0 \in 0..MaxRequests /\ {} \in SUBSET Requests  OBVIOUS
  <2> DEFINE d == [pc |-> "none", line |-> ReadySignal, target |-> 0, todo |-> {}]
  <2>3. d \in Reader  BY <2>1, <2>2, Zenon DEF Reader
  <2>4. reader = [k \in Children |-> d]  BY DEF Init
  <2> HIDE DEF d
  <2> QED BY <2>3, <2>4
<1>5. call \in [Threads -> Call] /\ \A t \in Threads : call[t] = NoCall
  BY NoCallType DEF Init
<1>6. TypeOK
  <2>1. waiter \in [Requests -> Content]  BY Contents DEF Init
  <2>2. events \in Seq(Event) /\ Len(events) <= MaxEvents  BY DEF Init
  <2>3. log \in Seq(Requests) /\ answered \subseteq Requests  BY DEF Init
  <2> QED BY <1>1, <1>2, <1>3, <1>4, <1>5, <2>1, <2>2, <2>3 DEF TypeOK
<1>7. ASSUME NEW t \in Threads PROVE Doing(t)
  BY <1>1, <1>5 DEF Doing, At, NoCall, Nobody
<1> QED BY <1>1, <1>2, <1>3, <1>6, <1>7, FS_EmptySet DEF IInv, Numbered, NoUntrackedChild

LEMMA StepKeeps == IInv /\ [Next]_vars => IInv'
<1> SUFFICES ASSUME IInv, [Next]_vars PROVE IInv'  OBVIOUS
<1>1. CASE UNCHANGED vars
  BY <1>1 DEF vars, IInv, TypeOK, Waiting, Numbered, NoUntrackedChild, Doing, At
<1>2. CASE Restart \/ Request \/ DrainEvents \/ Close
  BY <1>2, RestartStep, RequestStep, DrainStep, CloseStep
<1>3. CASE OwnerStep
  BY <1>3, SpawnStep, AwaitStep, PutBackStep, ReviveStep, WriteStep, GetStep, PopStep DEF OwnerStep
<1>4. ASSUME NEW t \in Threads, ShutdownStep(t) PROVE IInv'
  BY <1>4, TakeStep, EndInputStep, ReapStep, JoinStep, WakeStep, PutStep DEF ShutdownStep
<1>5. ASSUME NEW k \in Children, ReaderStep(k) PROVE IInv'
  BY <1>5, ReadLineStep, HandOverStep, EndOfFileStep, ListWaitingStep, WakeWaitingStep
     DEF ReaderStep
<1>6. ASSUME NEW k \in Children, SignalReady(k) \/ PostPage(k) \/ Serve(k) \/ Die(k) PROVE IInv'
  BY <1>6, SignalReadyStep, PostPageStep, ServeStep, DieStep
<1> QED BY <1>1, <1>2, <1>3, <1>4, <1>5, <1>6 DEF Next

\* The host keeps its types and its event queue its limit, and every child that
\* runs is the host's own or the victim of a shutdown, whichever threads start,
\* restart and shut down, and however children die.
THEOREM HostSafety == Spec => [](TypeOK /\ NoUntrackedChild)
<1>1. IInv => TypeOK /\ NoUntrackedChild  BY DEF IInv
<1> QED BY InitHolds, StepKeeps, <1>1, PTL DEF Spec

=============================================================================
