------------------------ MODULE RendererHostRefinement ------------------------
(***************************************************************************)
(* The renderer host implements RendererService, and answers every request *)
(* with its own reply.  The argument: a request is numbered like its id,   *)
(* because the two counters move together and never back; so the id that a *)
(* line carries tells the request it is about, wherever it is (Books,      *)
(* Replies).  A request is written once, to one pipe, and leaves it to be  *)
(* executed, so it is executed once at most; "ok" comes from its execution *)
(* (Once, Replies).                                                        *)
(***************************************************************************)
EXTENDS RendererHostProofs

Asking == {"write", "get", "pop"}
Done == {log[i] : i \in DOMAIN log}

\* The ids of waiting requests, and of the one the owner is at, are their numbers.
Books ==
    /\ host.next = host.asked + 1
    /\ \A i \in DOMAIN pending : pending[i] = i
    /\ call[Owner].pc \in Asking => call[Owner].id = call[Owner].request

\* What can be said of content c that reaches request r once those in d are done.
Fits(c, r, d) ==
    /\ c.what = "reply" => c.request = r
    /\ c.ok => c.what = "reply" /\ c.request \in d

\* Wherever content is on its way to a request, it fits it.
Replies ==
    /\ \A r \in Requests : Fits(waiter[r], r, Done)
    /\ \A k \in Children : \A i \in DOMAIN child[k].outbox :
          Fits(child[k].outbox[i].content, child[k].outbox[i].id, Done)
    /\ \A k \in Children : reader[k].pc = "hand" =>
          /\ reader[k].target = reader[k].line.id
          /\ Fits(reader[k].line.content, reader[k].line.id, Done)
    /\ At(Owner, "pop") => Fits(call[Owner].reply, call[Owner].request, Done)

\* What is done or answered was asked.
Known == Done \subseteq 1..host.asked /\ answered \subseteq 1..host.asked

\* A request in a pipe was asked and is not done.
Piped ==
    \A k \in Children : \A i \in DOMAIN child[k].inbox :
       \/ child[k].inbox[i] = Shutdown
       \/ /\ child[k].inbox[i].id = child[k].inbox[i].request
          /\ child[k].inbox[i].request \in (1..host.asked) \ Done

\* A request is in one place of one pipe only.
Single ==
    \A k, l \in Children :
       \A i \in DOMAIN child[k].inbox, j \in DOMAIN child[l].inbox :
          child[k].inbox[i].request = child[l].inbox[j].request
             => child[k].inbox[i] = Shutdown \/ (k = l /\ i = j)

\* The request the owner is at is not answered,
Current == call[Owner].pc \in Asking => call[Owner].request \in (1..host.asked) \ answered

\* and before it is written it is neither done nor in a pipe.
Unwritten ==
    At(Owner, "write") =>
       /\ call[Owner].request \notin Done
       /\ \A k \in Children : \A i \in DOMAIN child[k].inbox :
             child[k].inbox[i].request # call[Owner].request

Once == Known /\ Piped /\ Single /\ Current /\ Unwritten

RInv == IInv /\ Books /\ Replies /\ Once

(* Sequences                                                               *)

LEMMA TailOf ==
    ASSUME NEW S, NEW s \in Seq(S), s # <<>>
    PROVE  /\ Tail(s) \in Seq(S) /\ Head(s) = s[1] /\ 1 \in DOMAIN s
           /\ \A i \in DOMAIN Tail(s) : i + 1 \in DOMAIN s /\ i \in Nat /\ i # 0 /\ Tail(s)[i] = s[i + 1]
OBVIOUS

LEMMA AppendOf ==
    ASSUME NEW S, NEW s \in Seq(S), NEW e \in S
    PROVE  \A i \in DOMAIN Append(s, e) :
              \/ i \in DOMAIN s /\ Append(s, e)[i] = s[i]
              \/ i = Len(s) + 1 /\ i \notin DOMAIN s /\ Append(s, e)[i] = e
OBVIOUS

LEMMA RangeOfAppend ==
    ASSUME NEW S, NEW s \in Seq(S), NEW e \in S
    PROVE  {Append(s, e)[i] : i \in DOMAIN Append(s, e)} = {s[i] : i \in DOMAIN s} \cup {e}
<1> DEFINE t == Append(s, e)
<1>1. /\ Len(s) \in Nat /\ DOMAIN s = 1..Len(s) /\ DOMAIN t = 1..(Len(s) + 1)
      /\ t[Len(s) + 1] = e /\ \A i \in DOMAIN s : t[i] = s[i]
  OBVIOUS
<1> HIDE DEF t
<1>2. {t[i] : i \in DOMAIN t} \subseteq {s[i] : i \in DOMAIN s} \cup {e}
  <2>1. \A i \in DOMAIN t : i \in DOMAIN s \/ i = Len(s) + 1  BY <1>1
  <2> QED BY <1>1, <2>1
<1>3. \A i \in DOMAIN s : i \in DOMAIN t  BY <1>1
<1>4. Len(s) + 1 \in DOMAIN t  BY <1>1
<1>5. {s[i] : i \in DOMAIN s} \cup {e} \subseteq {t[i] : i \in DOMAIN t}
  BY <1>1, <1>3, <1>4
<1> QED BY <1>2, <1>5 DEF t

(* Steps that leave an invariant alone                                     *)

\* The owner is where it was, or no longer at a request.
OwnerElsewhere == call'[Owner] = call[Owner] \/ call'[Owner].pc \notin Asking

LEMMA BooksStay ==
    ASSUME Books, OwnerElsewhere, host'.next = host.next, host'.asked = host.asked,
           \A i \in DOMAIN pending' : i \in DOMAIN pending /\ pending'[i] = pending[i]
    PROVE  Books'
BY DEF Books, OwnerElsewhere

LEMMA RepliesStay ==
    ASSUME IInv, Replies, OwnerElsewhere \/ call'[Owner].pc # "pop", Done \subseteq Done',
           \A r \in Requests : waiter'[r] \in {waiter[r], Empty, Ended},
           \A k \in Children : child'[k].outbox = child[k].outbox,
           \A k \in Children : reader'[k].pc = "hand" => reader'[k] = reader[k]
    PROVE  Replies'
<1>1. ASSUME NEW c, NEW r, Fits(c, r, Done) PROVE Fits(c, r, Done')
  BY <1>1 DEF Fits
<1>2. ASSUME NEW r \in Requests PROVE Fits(waiter'[r], r, Done')
  BY <1>1 DEF Replies, Fits, Empty, Ended
<1>3. At(Owner, "pop")' => Fits(call'[Owner].reply, call'[Owner].request, Done')
  BY <1>1 DEF Replies, OwnerElsewhere, At, Asking
<1> QED BY <1>1, <1>2, <1>3 DEF Replies

LEMMA OnceStays ==
    ASSUME Once, OwnerElsewhere, host'.asked = host.asked, UNCHANGED <<log, answered>>,
           \A k \in Children : child'[k].inbox = child[k].inbox \/ child'[k].inbox = <<>>
    PROVE  Once'
<1>1. Done' = Done  BY DEF Done
<1>2. \A k \in Children : \A i \in DOMAIN child'[k].inbox :
         i \in DOMAIN child[k].inbox /\ child'[k].inbox[i] = child[k].inbox[i]
  OBVIOUS
<1>3. At(Owner, "write")' => At(Owner, "write") /\ call'[Owner] = call[Owner]
  BY DEF OwnerElsewhere, At, Asking
<1> QED BY <1>1, <1>2, <1>3 DEF Once, Known, Piped, Single, Current, Unwritten, OwnerElsewhere

\* Steps at which no request, reply or line moves.
LEMMA AllStay ==
    ASSUME RInv, OwnerElsewhere, UNCHANGED <<log, answered>>,
           host'.next = host.next, host'.asked = host.asked,
           \A i \in DOMAIN pending' : i \in DOMAIN pending /\ pending'[i] = pending[i],
           \A r \in Requests : waiter'[r] \in {waiter[r], Empty, Ended},
           \A k \in Children : child'[k].outbox = child[k].outbox,
           \A k \in Children : child'[k].inbox = child[k].inbox \/ child'[k].inbox = <<>>,
           \A k \in Children : reader'[k].pc = "hand" => reader'[k] = reader[k]
    PROVE  Books' /\ Replies' /\ Once'
<1>1. Done' = Done  BY DEF Done
<1> QED BY <1>1, BooksStay, RepliesStay, OnceStays DEF RInv

LEMMA ReturnElsewhere ==
    ASSUME IInv, NEW t \in Threads, Return(t) \/ ShutdownReturns(t)
    PROVE  OwnerElsewhere
<1>1. call'[t].pc \in {"ready", "closed", "revive"} /\ \A u \in Threads \ {t} : call'[u] = call[u]
  BY Returns, ShutdownEnds
<1> QED BY <1>1, HostAssumption DEF OwnerElsewhere, Asking

LEMMA GoElsewhere ==
    ASSUME IInv, NEW t \in Threads,
           NEW p \in {"spawn", "await", "putback", "reap", "join", "revive"}, GoTo(t, p)
    PROVE  OwnerElsewhere
<1>1. call'[t].pc = p /\ \A u \in Threads \ {t} : call'[u] = call[u]  BY GoesTo
<1> QED BY <1>1, HostAssumption DEF OwnerElsewhere, Asking

LEMMA MoveElsewhere ==
    ASSUME IInv, NEW t \in Threads, NEW c, c.pc \notin Asking, call' = [call EXCEPT ![t] = c]
    PROVE  OwnerElsewhere
<1>1. CASE t = Owner  BY <1>1 DEF IInv, TypeOK, OwnerElsewhere
<1>2. CASE t # Owner  BY <1>2, HostAssumption DEF IInv, TypeOK, OwnerElsewhere
<1> QED BY <1>1, <1>2

(* The owner's steps between requests                                      *)

LEMMA SpawnKeeps == ASSUME RInv, Spawn PROVE Books' /\ Replies' /\ Once'
<1> USE HostAssumption DEF RInv
<1>1. OwnerElsewhere
  <2>1. Return(Owner) \/ GoTo(Owner, "await")  BY DEF Spawn
  <2> QED BY <2>1, ReturnElsewhere, GoElsewhere
<1>2. host'.next = host.next /\ host'.asked = host.asked
  <2>1. \/ host' = host
        \/ host' = [host EXCEPT !.process = host.spawned + 1, !.spawned = host.spawned + 1]
    BY DEF Spawn
  <2>2. host \in Host  BY DEF IInv, TypeOK
  <2> QED BY <2>1, <2>2 DEF Host
<1>3. \A k \in Children : child'[k].outbox = child[k].outbox /\ child'[k].inbox = child[k].inbox
  <2>1. child' = child \/ child' = [child EXCEPT ![host.spawned + 1].alive = TRUE]
    BY DEF Spawn
  <2>2. child \in [Children -> Child]  BY DEF IInv, TypeOK
  <2>3. ASSUME NEW j \in Children, NEW k \in Children
        PROVE  /\ [child EXCEPT ![j].alive = TRUE][k].outbox = child[k].outbox
               /\ [child EXCEPT ![j].alive = TRUE][k].inbox = child[k].inbox
    <3> DEFINE c == [child[j] EXCEPT !.alive = TRUE]
    <3>1. c.outbox = child[j].outbox /\ c.inbox = child[j].inbox
      BY <2>2, Zenon DEF Child
    <3> HIDE DEF c
    <3>2. [child EXCEPT ![j] = c][k] = IF k = j THEN c ELSE child[k]
      BY <2>2
    <3> QED BY <3>1, <3>2 DEF c
  <2>4. child' = child \/ host.spawned + 1 \in Children
    BY DEF Spawn, RInv, IInv, TypeOK, Host, Children
  <2>5. CASE child' = [child EXCEPT ![host.spawned + 1].alive = TRUE] /\ host.spawned + 1 \in Children
    <3> DEFINE j == host.spawned + 1
    <3>1. j \in Children /\ child' = [child EXCEPT ![j].alive = TRUE]  BY <2>5
    <3> HIDE DEF j
    <3> QED BY <2>3, <3>1
  <2> QED BY <2>1, <2>4, <2>5
<1>4. \A k \in Children : reader'[k].pc = "hand" => reader'[k] = reader[k]
  <2>1. reader' = reader \/ reader' = [reader EXCEPT ![host.spawned + 1].pc = "read"]
    BY DEF Spawn
  <2>2. reader \in [Children -> Reader]  BY DEF IInv, TypeOK
  <2> QED BY <2>1, <2>2 DEF Reader
<1> QED BY <1>1, <1>2, <1>3, <1>4, AllStay DEF Spawn

LEMMA AwaitKeeps == ASSUME RInv, Await PROVE Books' /\ Replies' /\ Once'
<1> USE HostAssumption DEF RInv
<1>0. call[Owner] \in Call /\ call[Owner].pc = "await"  BY Fields DEF Await, At, IInv
<1>1. OwnerElsewhere
  <2>1. CASE GoTo(Owner, "putback")  BY <2>1, GoElsewhere
  <2>2. CASE call' = [call EXCEPT ![Owner] = [call[Owner] EXCEPT !.pc = "putback", !.ok = TRUE]]
    BY <1>0, <2>2, MoveElsewhere DEF Call, Asking
  <2>3. CASE call' = [call EXCEPT ![Owner] =
                         [call[Owner] EXCEPT !.skipped = Append(@, Head(events))]]
    BY <1>0, <2>3, MoveElsewhere DEF Call, Asking
  <2> QED BY <2>1, <2>2, <2>3 DEF Await
<1> QED BY <1>1, AllStay DEF Await

LEMMA PutBackKeeps == ASSUME RInv, PutBack PROVE Books' /\ Replies' /\ Once'
<1> USE HostAssumption DEF RInv
<1>0. call[Owner] \in Call /\ call[Owner].pc = "putback"  BY Fields DEF PutBack, At, IInv
<1>1. OwnerElsewhere
  <2>1. CASE Return(Owner)  BY <2>1, ReturnElsewhere
  <2>2. CASE call' = [call EXCEPT ![Owner] = [call[Owner] EXCEPT !.skipped = Tail(@)]]
    BY <1>0, <2>2, MoveElsewhere DEF Call, Asking
  <2>3. CASE call' = [call EXCEPT ![Owner] = [call[Owner] EXCEPT !.pc = "take", !.then = "fail"]]
    BY <1>0, <2>3, MoveElsewhere DEF Call, Asking
  <2> QED BY <2>1, <2>2, <2>3 DEF PutBack
<1> QED BY <1>1, AllStay DEF PutBack

LEMMA BeginKeeps == ASSUME RInv, Restart \/ Close PROVE Books' /\ Replies' /\ Once'
<1> USE HostAssumption DEF RInv
<1>1. OwnerElsewhere
  <2>1. CASE Restart  BY <2>1, MoveElsewhere DEF Restart, NoCall, Asking
  <2>2. CASE Close  BY <2>2, MoveElsewhere DEF Close, NoCall, Asking
  <2> QED BY <2>1, <2>2
<1> QED BY <1>1, AllStay DEF Restart, Close

LEMMA ReviveKeeps == ASSUME RInv, Revive PROVE Books' /\ Replies' /\ Once'
<1> USE HostAssumption DEF RInv
<1>1. OwnerElsewhere  BY GoElsewhere DEF Revive
<1>2. host'.next = host.next /\ host'.asked = host.asked
  BY DEF Revive, IInv, TypeOK, Host
<1> QED BY <1>1, <1>2, AllStay DEF Revive

LEMMA DrainKeeps == ASSUME RInv, DrainEvents PROVE Books' /\ Replies' /\ Once'
BY AllStay DEF DrainEvents, OwnerElsewhere

(* The steps of a shutdown                                                 *)

LEMMA TakeKeeps == ASSUME RInv, NEW t \in Threads, Take(t) PROVE Books' /\ Replies' /\ Once'
<1> USE HostAssumption DEF RInv
<1>1. OwnerElsewhere
  <2>1. CASE host.process = Nobody  BY <2>1, ReturnElsewhere DEF Take
  <2>2. CASE host.process # Nobody
    <3> DEFINE c == [call[t] EXCEPT !.pc = IF child[host.process].alive THEN "end" ELSE "join",
                                    !.victim = host.process]
    <3>1. call[t] \in Call  BY Fields DEF IInv
    <3>2. c.pc \in {"end", "join"}  BY <3>1 DEF Call
    <3>3. call' = [call EXCEPT ![t] = c]  BY <2>2 DEF Take
    <3> HIDE DEF c
    <3> QED BY <3>2, <3>3, MoveElsewhere DEF Asking
  <2> QED BY <2>1, <2>2
<1>2. host'.next = host.next /\ host'.asked = host.asked
  BY DEF Take, IInv, TypeOK, Host
<1> QED BY <1>1, <1>2, AllStay DEF Take

LEMMA ReapKeeps == ASSUME RInv, NEW t \in Threads, Reap(t) PROVE Books' /\ Replies' /\ Once'
<1> USE DEF RInv
<1>1. OwnerElsewhere  BY GoElsewhere DEF Reap
<1>2. \A k \in Children : /\ child'[k].outbox = child[k].outbox
                          /\ child'[k].inbox = child[k].inbox \/ child'[k].inbox = <<>>
  BY DEF Reap, Dead, IInv, TypeOK, Child
<1> QED BY <1>1, <1>2, AllStay DEF Reap

LEMMA JoinKeeps == ASSUME RInv, NEW t \in Threads, Join(t) PROVE Books' /\ Replies' /\ Once'
<1> USE DEF RInv
<1>1. OwnerElsewhere
  <2> DEFINE c == [call[t] EXCEPT !.pc = "wake", !.seen = {}, !.victim = Nobody,
                                  !.size = Cardinality(DOMAIN pending)]
  <2>1. call[t] \in Call  BY Fields DEF IInv
  <2>2. c.pc = "wake"  BY <2>1 DEF Call
  <2>3. call' = [call EXCEPT ![t] = c]  BY DEF Join
  <2> HIDE DEF c
  <2> QED BY <2>2, <2>3, MoveElsewhere DEF Asking
<1> QED BY <1>1, AllStay DEF Join

LEMMA WakeKeeps == ASSUME RInv, NEW t \in Threads, Wake(t) PROVE Books' /\ Replies' /\ Once'
<1> USE DEF RInv
<1>1. OwnerElsewhere
  <2>1. CASE Return(t) \/ ShutdownReturns(t)  BY <2>1, ReturnElsewhere
  <2>2. ASSUME NEW r \in Waiting, call' = [call EXCEPT ![t].pc = "put", ![t].request = r]
        PROVE  OwnerElsewhere
    <3> DEFINE c == [call[t] EXCEPT !.pc = "put", !.request = r]
    <3>1. call[t] \in Call  BY Fields DEF IInv
    <3>2. c.pc = "put"  BY <3>1 DEF Call
    <3>3. call' = [call EXCEPT ![t] = c]  BY <2>2
    <3> HIDE DEF c
    <3> QED BY <3>2, <3>3, MoveElsewhere DEF Asking
  <2> QED BY <2>1, <2>2 DEF Wake
<1>2. \A i \in DOMAIN pending' : i \in DOMAIN pending /\ pending'[i] = pending[i]
  <2>1. pending' = pending \/ pending' = <<>>  BY DEF Wake
  <2> QED BY <2>1
<1>3. UNCHANGED <<host, waiter, child, reader, log, answered>>  BY DEF Wake
<1> QED BY <1>1, <1>2, <1>3, AllStay

LEMMA PutKeeps == ASSUME RInv, NEW t \in Threads, Put(t) PROVE Books' /\ Replies' /\ Once'
<1> USE DEF RInv
<1>1. OwnerElsewhere
  <2> DEFINE c == [call[t] EXCEPT !.pc = "wake", !.request = 0, !.seen = @ \cup {call[t].request}]
  <2>1. call[t] \in Call  BY Fields DEF IInv
  <2>2. c.pc = "wake"  BY <2>1 DEF Call
  <2>3. call' = [call EXCEPT ![t] = c]  BY DEF Put
  <2> HIDE DEF c
  <2> QED BY <2>2, <2>3, MoveElsewhere DEF Asking
<1>2. \A r \in Requests : waiter'[r] \in {waiter[r], Empty, Ended}
  BY DEF Put, IInv, TypeOK
<1> QED BY <1>1, <1>2, AllStay DEF Put

(* The readers' and the children's steps                                   *)

LEMMA EndOfFileKeeps == ASSUME RInv, NEW k \in Children, EndOfFile(k) \/ ListWaiting(k)
                        PROVE  Books' /\ Replies' /\ Once'
<1> USE DEF RInv
<1>1. \A j \in Children : reader'[j].pc = "hand" => reader'[j] = reader[j]
  <2>1. reader \in [Children -> Reader]  BY DEF IInv, TypeOK
  <2>2. CASE EndOfFile(k)  BY <2>1, <2>2 DEF EndOfFile, Reader
  <2>3. CASE ListWaiting(k)  BY <2>1, <2>3 DEF ListWaiting, Reader
  <2> QED BY <2>2, <2>3
<1>2. UNCHANGED <<host, pending, waiter, child, call, log, answered>>
  BY DEF EndOfFile, ListWaiting
<1> QED BY <1>1, <1>2, AllStay DEF OwnerElsewhere

LEMMA WakeWaitingKeeps == ASSUME RInv, NEW k \in Children, WakeWaiting(k)
                          PROVE  Books' /\ Replies' /\ Once'
<1> USE DEF RInv
<1>1. \A j \in Children : reader'[j].pc = "hand" => reader'[j] = reader[j]
  <2>1. reader \in [Children -> Reader] /\ reader[k].pc = "wake"
    BY DEF IInv, TypeOK, WakeWaiting
  <2>2. CASE reader' = [reader EXCEPT ![k].pc = "done"]  BY <2>1, <2>2 DEF Reader
  <2>3. ASSUME NEW r \in reader[k].todo, reader' = [reader EXCEPT ![k].todo = @ \ {r}]
        PROVE  \A j \in Children : reader'[j].pc = "hand" => reader'[j] = reader[j]
    BY <2>1, <2>3 DEF Reader
  <2> QED BY <2>2, <2>3 DEF WakeWaiting
<1>2. \A r \in Requests : waiter'[r] \in {waiter[r], Empty, Ended}
  BY DEF WakeWaiting, IInv, TypeOK
<1>3. UNCHANGED <<host, pending, child, call, log, answered>>  BY DEF WakeWaiting
<1> QED BY <1>1, <1>2, <1>3, AllStay DEF OwnerElsewhere

LEMMA DieKeeps == ASSUME RInv, NEW k \in Children, child' = [child EXCEPT ![k] = Dead(@)],
                         UNCHANGED <<host, pending, waiter, reader, call, log, answered>>
                  PROVE  Books' /\ Replies' /\ Once'
<1> USE DEF RInv
<1>1. \A j \in Children : /\ child'[j].outbox = child[j].outbox
                          /\ child'[j].inbox = child[j].inbox \/ child'[j].inbox = <<>>
  BY DEF Dead, IInv, TypeOK, Child
<1> QED BY <1>1, AllStay DEF OwnerElsewhere

\* A line leaves a child's stdout and is kept, or dropped.
LEMMA ReadLineKeeps == ASSUME RInv, NEW k \in Children, ReadLine(k)
                       PROVE  Books' /\ Replies' /\ Once'
<1> USE DEF RInv
<1> DEFINE out == child[k].outbox
           line == Head(out)
<1>1. child \in [Children -> Child] /\ child[k] \in Child /\ out \in Seq(Line) /\ out # <<>>
  BY DEF ReadLine, IInv, TypeOK, Child
<1>2. /\ line = out[1] /\ 1 \in DOMAIN out
      /\ \A i \in DOMAIN Tail(out) : i + 1 \in DOMAIN out /\ Tail(out)[i] = out[i + 1]
  BY <1>1, TailOf
<1>3. /\ child'[k].outbox = Tail(out)
      /\ \A j \in Children \ {k} : child'[j].outbox = child[j].outbox
      /\ \A j \in Children : child'[j].inbox = child[j].inbox
  BY <1>1 DEF ReadLine, Child
<1>4. Fits(line.content, line.id, Done)  BY <1>2 DEF Replies
<1>5. UNCHANGED <<host, pending, waiter, call, log, answered>> /\ Done' = Done
  BY DEF ReadLine, Done
<1> HIDE DEF line
<1>6. ASSUME NEW j \in Children, reader'[j].pc = "hand"
      PROVE  /\ reader'[j].target = reader'[j].line.id
             /\ Fits(reader'[j].line.content, reader'[j].line.id, Done)
  <2>0. reader \in [Children -> Reader]  BY DEF IInv, TypeOK
  <2>1. CASE reader'[j] = reader[j]  BY <1>6, <2>1 DEF Replies
  <2>2. CASE reader'[j] # reader[j]
    <3>1. /\ line.id \in DOMAIN pending
          /\ reader' = [reader EXCEPT ![k].pc = "hand", ![k].line = line,
                                      ![k].target = pending[line.id]]
      BY <2>2 DEF ReadLine, line
    <3>2. j = k  BY <2>0, <2>2, <3>1
    <3>3. reader'[k].line = line /\ reader'[k].target = pending[line.id]
      BY <2>0, <3>1 DEF Reader
    <3>4. pending[line.id] = line.id  BY <3>1 DEF Books
    <3> QED BY <1>4, <3>2, <3>3, <3>4
  <2> QED BY <2>1, <2>2
<1>7. \A j \in Children : \A i \in DOMAIN child'[j].outbox :
         Fits(child'[j].outbox[i].content, child'[j].outbox[i].id, Done)
  <2>1. ASSUME NEW i \in DOMAIN Tail(out) PROVE Fits(Tail(out)[i].content, Tail(out)[i].id, Done)
    BY <1>2, <2>1 DEF Replies
  <2> QED BY <1>3, <2>1 DEF Replies
<1>8. Replies'  BY <1>5, <1>6, <1>7 DEF Replies, At
<1> QED BY <1>3, <1>5, <1>8, BooksStay, OnceStays DEF OwnerElsewhere

LEMMA HandOverKeeps == ASSUME RInv, NEW k \in Children, HandOver(k)
                       PROVE  Books' /\ Replies' /\ Once'
<1> USE DEF RInv
<1>1. UNCHANGED <<host, pending, child, call, log, answered>> /\ Done' = Done
  BY DEF HandOver, Done
<1>2. \A j \in Children : reader'[j].pc = "hand" => reader'[j] = reader[j]
  BY DEF HandOver, IInv, TypeOK, Reader
<1>3. Fits(reader[k].line.content, reader[k].target, Done)  BY DEF HandOver, Replies
<1>4. \A r \in Requests : Fits(waiter'[r], r, Done)
  BY <1>3 DEF HandOver, Replies, IInv, TypeOK
<1>5. Replies'  BY <1>1, <1>2, <1>4 DEF Replies, At
<1> QED BY <1>1, <1>5, BooksStay, OnceStays DEF OwnerElsewhere

\* The child says a line that carries no reply.
LEMMA EventKeeps ==
    ASSUME RInv, NEW k \in Children, NEW line \in {ReadySignal, PageSignal},
           child'[k].outbox = Append(child[k].outbox, line),
           \A j \in Children \ {k} : child'[j].outbox = child[j].outbox,
           \A j \in Children : child'[j].inbox = child[j].inbox,
           UNCHANGED <<host, pending, waiter, events, reader, call, log, answered>>
    PROVE  Books' /\ Replies' /\ Once'
<1> USE DEF RInv
<1> DEFINE out == child[k].outbox
<1>1. child \in [Children -> Child] /\ out \in Seq(Line)  BY DEF IInv, TypeOK, Child
<1>2. line \in Line /\ Fits(line.content, line.id, Done)
  <2>1. line.id = 0 /\ line.content \in {Empty, Ended} /\ line \in Line
    BY Contents DEF ReadySignal, PageSignal, Line
  <2> QED BY <2>1 DEF Fits, Empty, Ended
<1>3. Done' = Done
  BY DEF Done
<1>4. \A i \in DOMAIN Append(out, line) :
         Fits(Append(out, line)[i].content, Append(out, line)[i].id, Done)
  BY <1>1, <1>2, AppendOf DEF Replies
<1>5. Replies'  BY <1>3, <1>4 DEF Replies, At
<1> QED BY <1>3, <1>5, BooksStay, OnceStays DEF OwnerElsewhere

LEMMA SignalReadyKeeps == ASSUME RInv, NEW k \in Children, SignalReady(k)
                          PROVE  Books' /\ Replies' /\ Once'
<1>1. child \in [Children -> Child] /\ child[k] \in Child  BY DEF RInv, IInv, TypeOK
<1>2. /\ child'[k].outbox = Append(child[k].outbox, ReadySignal) /\ child'[k].inbox = child[k].inbox
      /\ \A j \in Children \ {k} : child'[j] = child[j]
  BY <1>1 DEF SignalReady, Child
<1> QED BY <1>2, EventKeeps DEF SignalReady

LEMMA PostPageKeeps == ASSUME RInv, NEW k \in Children, PostPage(k)
                       PROVE  Books' /\ Replies' /\ Once'
<1>1. child \in [Children -> Child] /\ child[k] \in Child  BY DEF RInv, IInv, TypeOK
<1>2. /\ child'[k].outbox = Append(child[k].outbox, PageSignal) /\ child'[k].inbox = child[k].inbox
      /\ \A j \in Children \ {k} : child'[j] = child[j]
  BY <1>1 DEF PostPage, Child
<1> QED BY <1>2, EventKeeps DEF PostPage

(* The steps that move a request                                           *)

\* The owner is elsewhere, or still at its request with nothing left to write.
OwnerGoesOn ==
    \/ OwnerElsewhere
    \/ /\ call[Owner].pc \in Asking /\ call'[Owner].pc # "write"
       /\ call'[Owner].request = call[Owner].request

\* Line m is new to the pipes, and is written to that of k.
LEMMA PipeTakes ==
    ASSUME RInv, OwnerGoesOn, NEW k \in Children, NEW m \in Message,
           At(Owner, "write")' => m = Shutdown,
           \/ m = Shutdown
           \/ /\ m.id = m.request /\ m.request \in (1..host.asked) \ Done
              /\ \A j \in Children : \A i \in DOMAIN child[j].inbox :
                    child[j].inbox[i].request # m.request,
           child'[k].inbox = Append(child[k].inbox, m),
           \A j \in Children \ {k} : child'[j].inbox = child[j].inbox,
           host'.asked = host.asked, UNCHANGED <<log, answered>>
    PROVE  Once'
<1> USE DEF RInv
<1> DEFINE old(j) == child[j].inbox
           new(j) == child'[j].inbox
<1>1. Done' = Done  BY DEF Done
<1>2. old(k) \in Seq(Message)  BY DEF IInv, TypeOK, Child
<1>3. ASSUME NEW j \in Children, NEW i \in DOMAIN new(j)
      PROVE  \/ i \in DOMAIN old(j) /\ new(j)[i] = old(j)[i]
             \/ j = k /\ i = Len(old(k)) + 1 /\ new(j)[i] = m
  <2>1. CASE j = k
    <3>1. \A e \in DOMAIN Append(old(k), m) :
             \/ e \in DOMAIN old(k) /\ Append(old(k), m)[e] = old(k)[e]
             \/ e = Len(old(k)) + 1 /\ Append(old(k), m)[e] = m
      BY <1>2, AppendOf
    <3>2. new(k) = Append(old(k), m)  OBVIOUS
    <3> HIDE DEF new
    <3> QED BY <1>3, <2>1, <3>1, <3>2
  <2>2. CASE j # k  BY <1>3, <2>2
  <2> QED BY <2>1, <2>2
<1>4. ASSUME NEW j \in Children, NEW i \in DOMAIN old(j), m # Shutdown
      PROVE  old(j)[i].request # m.request
  BY <1>4
<1> HIDE DEF old, new
<1>5. ASSUME NEW j \in Children, NEW i \in DOMAIN new(j)
      PROVE  \/ new(j)[i] = Shutdown
             \/ new(j)[i].id = new(j)[i].request /\ new(j)[i].request \in (1..host.asked) \ Done
  BY <1>3, <1>5 DEF Once, Piped, Single, Unwritten, old
<1>6. ASSUME NEW j \in Children, NEW l \in Children,
             NEW i \in DOMAIN new(j), NEW h \in DOMAIN new(l),
             new(j)[i].request = new(l)[h].request, new(j)[i] # Shutdown
      PROVE  j = l /\ i = h
  <2>1. CASE i \in DOMAIN old(j) /\ new(j)[i] = old(j)[i] /\ h \in DOMAIN old(l) /\ new(l)[h] = old(l)[h]
    <3>1. \A x, y \in Children : \A e \in DOMAIN old(x), f \in DOMAIN old(y) :
             old(x)[e].request = old(y)[f].request => old(x)[e] = Shutdown \/ (x = y /\ e = f)
      BY DEF Once, Piped, Single, Unwritten, old
    <3>2. old(j)[i].request = old(l)[h].request /\ old(j)[i] # Shutdown  BY <1>6, <2>1
    <3> HIDE DEF Shutdown
    <3> QED BY <2>1, <3>1, <3>2
  <2>2. new(l)[h] # Shutdown
    <3>1. new(j)[i].request # 0  BY <1>5, <1>6
    <3> QED BY <1>6, <3>1 DEF Shutdown
  <2>3. CASE new(j)[i] = m  BY <1>3, <1>4, <1>6, <2>2, <2>3
  <2>4. CASE new(l)[h] = m  BY <1>3, <1>4, <1>6, <2>2, <2>4
  <2> QED BY <1>3, <2>1, <2>3, <2>4
<1>7. call'[Owner].pc \in Asking => call'[Owner].request \in (1..host.asked) \ answered
  BY DEF OwnerGoesOn, OwnerElsewhere, Once, Current
<1>8. ASSUME At(Owner, "write")'
      PROVE  /\ call'[Owner].request \notin Done
             /\ \A j \in Children : \A i \in DOMAIN new(j) : new(j)[i].request # call'[Owner].request
  <2>1. At(Owner, "write") /\ call'[Owner] = call[Owner] /\ m = Shutdown
    BY <1>8 DEF OwnerGoesOn, OwnerElsewhere, At, Asking
  <2>2. call[Owner].request # Shutdown.request  BY <2>1 DEF Once, Current, At, Asking, Shutdown
  <2> QED BY <1>3, <2>1, <2>2 DEF Once, Piped, Single, Unwritten, old
<1>9. Known'  BY <1>1 DEF Once, Known
<1>10. Piped'  BY <1>1, <1>5 DEF Piped, new
<1>11. Single'
  <2>1. \A j, l \in Children : \A i \in DOMAIN new(j), h \in DOMAIN new(l) :
           new(j)[i].request = new(l)[h].request => new(j)[i] = Shutdown \/ (j = l /\ i = h)
    BY <1>6
  <2> QED BY <2>1, Zenon DEF Single, new
<1>12. Current'  BY <1>7 DEF Current
<1>13. Unwritten'  BY <1>1, <1>8 DEF Unwritten, new
<1> QED BY <1>9, <1>10, <1>11, <1>12, <1>13 DEF Once

LEMMA EndInputKeeps == ASSUME RInv, NEW t \in Threads, EndInput(t)
                       PROVE  Books' /\ Replies' /\ Once'
<1> USE DEF RInv
<1>1. OwnerElsewhere  BY GoElsewhere DEF EndInput
<1>2. UNCHANGED <<host, pending, waiter, events, reader, log, answered>>  BY DEF EndInput
<1>3. CASE child' = child  BY <1>1, <1>2, <1>3, AllStay
<1>4. CASE /\ host.process # Nobody
           /\ child' = [child EXCEPT ![host.process].inbox = Append(@, Shutdown)]
  <2> DEFINE k == host.process
  <2>1. k \in Children  BY <1>4, Fields, HostAssumption DEF IInv, Children, Nobody
  <2>2. /\ child'[k].inbox = Append(child[k].inbox, Shutdown)
        /\ \A j \in Children \ {k} : child'[j].inbox = child[j].inbox
        /\ \A j \in Children : child'[j].outbox = child[j].outbox
    BY <1>4, <2>1 DEF IInv, TypeOK, Child
  <2>3. Shutdown \in Message  BY DEF Message
  <2>4. Books' /\ Replies'  BY <1>1, <1>2, <2>2, BooksStay, RepliesStay DEF Done
  <2> HIDE DEF k
  <2> QED BY <1>1, <1>2, <2>1, <2>2, <2>3, <2>4, PipeTakes DEF OwnerGoesOn
<1> QED BY <1>3, <1>4 DEF EndInput

\* A command leaves the pipe of child k to be executed, or refused.
LEMMA ServeKeeps == ASSUME RInv, NEW k \in Children, Serve(k) PROVE Books' /\ Replies' /\ Once'
<1> USE DEF RInv
<1> DEFINE in == child[k].inbox
           out == child[k].outbox
           m == Head(in)
           line(ok) == [id |-> m.id, content |-> Reply(m.request, ok)]
<1>1. /\ child \in [Children -> Child] /\ child[k] \in Child
      /\ in \in Seq(Message) /\ out \in Seq(Line) /\ in # <<>> /\ log \in Seq(Requests)
  BY DEF Serve, IInv, TypeOK, Child
<1>2. UNCHANGED <<host, pending, waiter, events, reader, call, answered>>  BY DEF Serve
<1>3. CASE child' = [child EXCEPT ![k] = Dead(@)] /\ UNCHANGED log  BY <1>2, <1>3, DieKeeps
<1>4. CASE /\ m # Shutdown
           /\ LET done == [child EXCEPT ![k].inbox = Tail(@)]
                  say(ok) == [done EXCEPT ![k].outbox = Append(@, line(ok))]
              IN  \/ child' \in {say(TRUE), done} /\ log' = Append(log, m.request)
                  \/ child' = say(FALSE) /\ UNCHANGED log
  <2>1. /\ Tail(in) \in Seq(Message) /\ m = in[1] /\ 1 \in DOMAIN in
        /\ \A i \in DOMAIN Tail(in) :
              i + 1 \in DOMAIN in /\ i \in Nat /\ i # 0 /\ Tail(in)[i] = in[i + 1]
    <3> HIDE DEF Message
    <3> QED BY <1>1, TailOf
  <2>2. m.id = m.request /\ m.request \in (1..host.asked) \ Done
    BY <1>4, <2>1 DEF Once, Piped
  <2>3. m.request \in Requests /\ m.id \in Nat
    <3>1. m \in Message  BY <1>1, <2>1
    <3> QED BY <1>4, <3>1 DEF Message
  <2>4. /\ child'[k].inbox = Tail(in)
        /\ \A j \in Children \ {k} : child'[j] = child[j]
        /\ \/ child'[k].outbox = out /\ log' = Append(log, m.request)
           \/ child'[k].outbox = Append(out, line(TRUE)) /\ log' = Append(log, m.request)
           \/ child'[k].outbox = Append(out, line(FALSE)) /\ log' = log
    <3> DEFINE c == [child[k] EXCEPT !.inbox = Tail(@)]
               d(ok) == [c EXCEPT !.outbox = Append(@, line(ok))]
    <3>1. \/ child' = [child EXCEPT ![k] = c] /\ log' = Append(log, m.request)
          \/ child' = [child EXCEPT ![k] = d(TRUE)] /\ log' = Append(log, m.request)
          \/ child' = [child EXCEPT ![k] = d(FALSE)] /\ log' = log
      <4> HIDE DEF m
      <4> QED BY <1>1, <1>4
    <3>2. c.inbox = Tail(in) /\ c.outbox = out  BY <1>1 DEF Child
    <3>3. ASSUME NEW ok \in BOOLEAN
          PROVE  d(ok).inbox = Tail(in) /\ d(ok).outbox = Append(out, line(ok))
      BY <1>1 DEF Child
    <3> HIDE DEF c, d, in, out, m, line
    <3> QED BY <1>1, <3>1, <3>2, <3>3
  <2>5. Done' = IF log' = log THEN Done ELSE Done \cup {m.request}
    <3>1. CASE log' = log  BY <3>1 DEF Done
    <3>2. CASE log' = Append(log, m.request)
      <4>1. Done' = Done \cup {m.request}  BY <1>1, <2>3, <3>2, RangeOfAppend DEF Done
      <4> QED BY <2>2, <4>1 DEF Done
    <3> QED BY <2>4, <3>1, <3>2
  <2> HIDE DEF m
  <2>6. ASSUME NEW ok \in BOOLEAN, child'[k].outbox = Append(out, line(ok)), ok => log' # log
        PROVE  /\ line(ok) \in Line
               /\ Fits(line(ok).content, line(ok).id, Done')
    <3>1. m.request \in 0..MaxRequests  BY <2>3, HostAssumption DEF Requests
    <3> QED BY <2>2, <2>3, <2>5, <2>6, <3>1 DEF Fits, Reply, Line, Content
  <2>7. Replies'
    <3>1. ASSUME NEW c, NEW r, Fits(c, r, Done) PROVE Fits(c, r, Done')
      BY <2>5, <3>1 DEF Fits
    <3>2. ASSUME NEW i \in DOMAIN child'[k].outbox
          PROVE  Fits(child'[k].outbox[i].content, child'[k].outbox[i].id, Done')
      <4>1. CASE child'[k].outbox = out  BY <3>1, <3>2, <4>1 DEF Replies
      <4>2. ASSUME NEW ok \in BOOLEAN, child'[k].outbox = Append(out, line(ok)), ok => log' # log
            PROVE  Fits(child'[k].outbox[i].content, child'[k].outbox[i].id, Done')
        <5>1. line(ok) \in Line /\ Fits(line(ok).content, line(ok).id, Done')  BY <2>6, <4>2
        <5>2. \A e \in DOMAIN out : Fits(out[e].content, out[e].id, Done')  BY <3>1 DEF Replies
        <5> HIDE DEF line, out, Line
        <5>3. \/ i \in DOMAIN out /\ Append(out, line(ok))[i] = out[i]
              \/ Append(out, line(ok))[i] = line(ok)
          BY <1>1, <3>2, <4>2, <5>1, AppendOf
        <5> QED BY <4>2, <5>1, <5>2, <5>3
      <4>3. Append(log, m.request) # log
        <5>1. Len(Append(log, m.request)) # Len(log)  BY <1>1, <2>3
        <5> QED BY <5>1
      <4> QED BY <2>4, <4>1, <4>2, <4>3
    <3>3. \A j \in Children \ {k} : \A i \in DOMAIN child'[j].outbox :
             Fits(child'[j].outbox[i].content, child'[j].outbox[i].id, Done')
      BY <2>4, <3>1 DEF Replies
    <3>4. /\ \A r \in Requests : Fits(waiter'[r], r, Done')
          /\ \A j \in Children : reader'[j].pc = "hand" =>
                /\ reader'[j].target = reader'[j].line.id
                /\ Fits(reader'[j].line.content, reader'[j].line.id, Done')
          /\ At(Owner, "pop")' => Fits(call'[Owner].reply, call'[Owner].request, Done')
      BY <1>2, <3>1 DEF Replies, At
    <3> QED BY <3>2, <3>3, <3>4 DEF Replies
  <2>8. Once'
    <3> DEFINE new(j) == child'[j].inbox
               old(j) == child[j].inbox
    <3>1. ASSUME NEW j \in Children, NEW i \in DOMAIN new(j)
          PROVE  \E e \in DOMAIN old(j) : /\ new(j)[i] = old(j)[e]
                                          /\ j = k => e = i + 1 /\ i \in Nat /\ i # 0
                                          /\ j # k => e = i
      <4>1. CASE j = k  BY <2>1, <2>4, <3>1, <4>1
      <4>2. CASE j # k  BY <2>4, <3>1, <4>2
      <4> QED BY <4>1, <4>2
    <3>2. \A x, y \in Children : \A e \in DOMAIN old(x), f \in DOMAIN old(y) :
             old(x)[e].request = old(y)[f].request => old(x)[e] = Shutdown \/ (x = y /\ e = f)
      BY DEF Once, Single
    <3>3. m = old(k)[1] /\ 1 \in DOMAIN old(k)  BY <2>1
    <3>4. \A j \in Children : \A e \in DOMAIN old(j) :
             \/ old(j)[e] = Shutdown
             \/ old(j)[e].id = old(j)[e].request /\ old(j)[e].request \in (1..host.asked) \ Done
      BY DEF Once, Piped
    <3> HIDE DEF new, old
    <3>5. ASSUME NEW j \in Children, NEW i \in DOMAIN new(j), new(j)[i] # Shutdown
          PROVE  /\ new(j)[i].id = new(j)[i].request
                 /\ new(j)[i].request \in (1..host.asked) \ Done
                 /\ new(j)[i].request # m.request
      <4>1. PICK e \in DOMAIN old(j) : new(j)[i] = old(j)[e] /\ (j = k => e = i + 1 /\ i \in Nat /\ i # 0)
        BY <3>1
      <4>2. j # k \/ e # 1  BY <4>1
      <4> QED BY <3>2, <3>3, <3>4, <3>5, <4>1, <4>2
    <3>6. ASSUME NEW j \in Children, NEW l \in Children,
                 NEW i \in DOMAIN new(j), NEW h \in DOMAIN new(l),
                 new(j)[i].request = new(l)[h].request, new(j)[i] # Shutdown
          PROVE  j = l /\ i = h
      <4>1. PICK e \in DOMAIN old(j) : /\ new(j)[i] = old(j)[e]
                                       /\ j = k => e = i + 1 /\ i \in Nat
                                       /\ j # k => e = i
        BY <3>1
      <4>2. PICK f \in DOMAIN old(l) : /\ new(l)[h] = old(l)[f]
                                       /\ l = k => f = h + 1 /\ h \in Nat
                                       /\ l # k => f = h
        BY <3>1
      <4>3. j = l /\ e = f  BY <3>2, <3>6, <4>1, <4>2
      <4> QED BY <4>1, <4>2, <4>3
    <3>7. Done' \subseteq 1..host.asked  BY <2>2, <2>5 DEF Once, Known
    <3>8. ASSUME NEW j \in Children, NEW i \in DOMAIN new(j), new(j)[i] # Shutdown
          PROVE  new(j)[i].request \notin Done'
      BY <2>5, <3>5, <3>8
    <3>9. ASSUME At(Owner, "write")
          PROVE  /\ call[Owner].request \notin Done'
                 /\ \A j \in Children : \A i \in DOMAIN new(j) : new(j)[i].request # call[Owner].request
      <4>1. /\ call[Owner].request \notin Done
            /\ \A j \in Children : \A e \in DOMAIN old(j) : old(j)[e].request # call[Owner].request
        BY <3>9 DEF Once, Unwritten, old
      <4> QED BY <2>5, <3>1, <3>3, <4>1
    <3>10. Known'  BY <1>2, <3>7 DEF Once, Known
    <3>11. Piped'  BY <1>2, <3>5, <3>8 DEF Piped, new
    <3>12. Single'
      <4>1. \A j, l \in Children : \A i \in DOMAIN new(j), h \in DOMAIN new(l) :
               new(j)[i].request = new(l)[h].request => new(j)[i] = Shutdown \/ (j = l /\ i = h)
        BY <3>6
      <4> QED BY <4>1, Zenon DEF Single, new
    <3>13. Current'  BY <1>2 DEF Once, Current
    <3>14. Unwritten'  BY <1>2, <3>9 DEF Unwritten, At, new
    <3> QED BY <3>10, <3>11, <3>12, <3>13, <3>14 DEF Once
  <2> QED BY <1>2, <2>7, <2>8, BooksStay DEF OwnerElsewhere
<1> QED BY <1>3, <1>4 DEF Serve

(* The owner's request                                                     *)

LEMMA RequestKeeps == ASSUME RInv, Request PROVE Books' /\ Replies' /\ Once'
<1> USE HostAssumption DEF RInv
<1>1. CASE Return(Owner) /\ UNCHANGED <<host, pending>>
  BY <1>1, ReturnElsewhere, AllStay DEF Request
<1>2. CASE LET r == host.asked + 1
           IN  /\ host' = [host EXCEPT !.next = @ + 1, !.asked = r]
               /\ pending' = [i \in DOMAIN pending \cup {host.next} |->
                                 IF i = host.next THEN r ELSE pending[i]]
               /\ call' = [call EXCEPT ![Owner] =
                              [NoCall EXCEPT !.pc = "write", !.id = host.next, !.request = r]]
  <2> DEFINE r == host.asked + 1
  <2>1. host \in Host /\ host.asked \in Nat /\ host.next = r
    BY DEF IInv, TypeOK, Host, Books
  <2>2. host'.asked = r /\ host'.next = r + 1
    <3> DEFINE n == host.next + 1
    <3>1. host' = [host EXCEPT !.next = n, !.asked = r]  BY <1>2
    <3>2. n = r + 1  BY <2>1
    <3> HIDE DEF n, r
    <3> QED BY <2>1, <3>1, <3>2 DEF Host
  <2>3. call'[Owner].pc = "write" /\ call'[Owner].id = r /\ call'[Owner].request = r
    BY <1>2, <2>1 DEF IInv, TypeOK, NoCall
  <2>4. pending' = [i \in DOMAIN pending \cup {r} |-> IF i = r THEN r ELSE pending[i]]
    BY <1>2, <2>1
  <2>5. UNCHANGED <<waiter, events, child, reader, log, answered>> /\ Done' = Done
    BY DEF Request, Done
  <2> HIDE DEF r
  <2>6. \A i \in DOMAIN pending' : pending'[i] = i  BY <2>4 DEF Books
  <2>7. Books'  BY <2>2, <2>3, <2>6 DEF Books
  <2>8. Replies'  BY <2>3, <2>5, RepliesStay
  <2>9. Known' /\ Piped' /\ Single'
    <3>1. 1..host.asked \subseteq 1..host'.asked  BY <2>1, <2>2 DEF r
    <3>2. Known'  BY <2>5, <3>1 DEF Once, Known
    <3>3. Piped'  BY <2>5, <3>1 DEF Once, Piped
    <3>4. Single'  BY <2>5 DEF Once, Single
    <3> QED BY <3>2, <3>3, <3>4
  <2>10. r \in 1..host'.asked /\ r \notin 1..host.asked /\ r # Shutdown.request
    BY <2>1, <2>2 DEF r, Shutdown
  <2>11. Current'  BY <2>3, <2>5, <2>10 DEF Once, Known, Current
  <2>12. Unwritten'
    <3>1. r \notin Done  BY <2>10 DEF Once, Known
    <3>2. \A k \in Children : \A i \in DOMAIN child[k].inbox : child[k].inbox[i].request # r
      BY <2>10 DEF Once, Piped
    <3> QED BY <2>3, <2>5, <3>1, <3>2 DEF Unwritten
  <2> QED BY <2>7, <2>8, <2>9, <2>11, <2>12 DEF Once
<1> QED BY <1>1, <1>2 DEF Request

LEMMA WriteKeeps == ASSUME RInv, Write PROVE Books' /\ Replies' /\ Once'
<1> USE HostAssumption DEF RInv
<1>1. CASE Return(Owner) /\ pending' = Without(call[Owner].id) /\ UNCHANGED child
  <2>1. \A i \in DOMAIN pending' : i \in DOMAIN pending /\ pending'[i] = pending[i]
    BY <1>1 DEF Without
  <2> QED BY <1>1, <2>1, ReturnElsewhere, AllStay DEF Write
<1>2. CASE /\ host.process # Nobody
           /\ child' = [child EXCEPT ![host.process].inbox =
                            Append(@, [id |-> call[Owner].id, request |-> call[Owner].request])]
           /\ GoTo(Owner, "get") /\ UNCHANGED pending
  <2> DEFINE k == host.process
             m == [id |-> call[Owner].id, request |-> call[Owner].request]
  <2>0. UNCHANGED <<host, waiter, events, reader, log, answered>> /\ At(Owner, "write")
    BY DEF Write
  <2>1. k \in Children  BY <1>2, Fields DEF IInv, Children, Nobody
  <2>2. /\ child'[k].inbox = Append(child[k].inbox, m)
        /\ \A j \in Children \ {k} : child'[j].inbox = child[j].inbox
        /\ \A j \in Children : child'[j].outbox = child[j].outbox
    BY <1>2, <2>1 DEF IInv, TypeOK, Child
  <2>3. /\ call'[Owner].pc = "get" /\ call'[Owner].request = call[Owner].request
        /\ call'[Owner].id = call[Owner].id
    BY <1>2, GoesTo
  <2>4. Books'  BY <1>2, <2>0, <2>3 DEF Books, At, Asking
  <2>5. Replies'  BY <2>0, <2>2, <2>3, RepliesStay DEF Done
  <2>6. call[Owner].request \in Requests /\ call[Owner] \in Call
    BY <2>0, Fields DEF IInv, Doing, At
  <2>7. m \in Message /\ m.id = m.request /\ m.request = call[Owner].request
    BY <2>0, <2>6 DEF Message, Call, Books, At, Asking
  <2>8. /\ m.request \in (1..host.asked) \ Done
        /\ \A j \in Children : \A i \in DOMAIN child[j].inbox : child[j].inbox[i].request # m.request
    BY <2>0, <2>7 DEF Once, Current, Unwritten, At, Asking
  <2>9. OwnerGoesOn /\ ~At(Owner, "write")'  BY <2>0, <2>3 DEF OwnerGoesOn, At, Asking
  <2> HIDE DEF k, m
  <2>10. Once'  BY <2>0, <2>1, <2>2, <2>7, <2>8, <2>9, PipeTakes
  <2> QED BY <2>4, <2>5, <2>10
<1> QED BY <1>1, <1>2 DEF Write

LEMMA GetKeeps == ASSUME RInv, Get PROVE Books' /\ Replies' /\ Once'
<1> USE HostAssumption DEF RInv
<1>0. /\ UNCHANGED <<host, pending, events, child, reader, log, answered>> /\ At(Owner, "get")
      /\ Done' = Done
  BY DEF Get, Done
<1>1. call[Owner] \in Call /\ call[Owner].request \in Requests
  BY <1>0, Fields DEF IInv, Doing, At
<1>2. /\ call'[Owner].pc = "pop" /\ call'[Owner].id = call[Owner].id
      /\ call'[Owner].request = call[Owner].request
      /\ call'[Owner].reply = waiter[call[Owner].request]
  BY <1>1 DEF Get, IInv, TypeOK, Call
<1>3. Books'  BY <1>0, <1>2 DEF Books, At, Asking
<1>4. \A r \in Requests : Fits(waiter'[r], r, Done)
  BY DEF Get, Replies, Fits, Empty, IInv, TypeOK
<1>5. Replies'  BY <1>0, <1>1, <1>2, <1>4 DEF Replies
<1>6. Current'  BY <1>0, <1>2 DEF Once, Current, At, Asking
<1>7. Unwritten'  BY <1>2 DEF Unwritten, At
<1>8. Known' /\ Piped' /\ Single'  BY <1>0 DEF Once, Known, Piped, Single
<1> QED BY <1>3, <1>5, <1>6, <1>7, <1>8 DEF Once

LEMMA PopKeeps == ASSUME RInv, Pop PROVE Books' /\ Replies' /\ Once'
<1> USE HostAssumption DEF RInv
<1>0. UNCHANGED <<host, waiter, events, child, reader, log>> /\ Done' = Done /\ Return(Owner)
  BY DEF Pop, Done
<1>1. OwnerElsewhere /\ call'[Owner].pc \notin Asking
  <2>1. call'[Owner].pc \in {"ready", "closed"}  BY <1>0, Returns
  <2> QED BY <2>1 DEF OwnerElsewhere, Asking
<1>2. \A i \in DOMAIN pending' : i \in DOMAIN pending /\ pending'[i] = pending[i]
  BY DEF Pop, Without
<1>3. Books' /\ Replies'  BY <1>0, <1>1, <1>2, BooksStay, RepliesStay
<1>4. answered' \subseteq 1..host.asked
  BY DEF Pop, At, Asking, Once, Known, Current
<1>5. Known' /\ Piped' /\ Single'  BY <1>0, <1>4 DEF Once, Known, Piped, Single
<1>6. Current' /\ Unwritten'  BY <1>1 DEF Current, Unwritten, At, Asking
<1> QED BY <1>3, <1>5, <1>6 DEF Once

(* The invariant                                                           *)

LEMMA InitRefines == Init => RInv
<1> SUFFICES ASSUME Init PROVE RInv  OBVIOUS
<1> USE HostAssumption
<1>1. IInv  BY InitHolds
<1>2. /\ call[Owner].pc = "ready" /\ Done = {} /\ DOMAIN pending = {} /\ answered = {}
      /\ host.next = 1 /\ host.asked = 0
  BY DEF Init, NoCall, Done
<1>3. \A k \in Children : DOMAIN child[k].inbox = {} /\ DOMAIN child[k].outbox = {}
  BY DEF Init
<1>4. Books  BY <1>2 DEF Books, Asking
<1>5. Replies
  <2>1. \A r \in Requests : waiter[r] = Empty  BY DEF Init
  <2>2. \A k \in Children : reader[k].pc = "none"  BY DEF Init
  <2> QED BY <1>2, <1>3, <2>1, <2>2 DEF Replies, Fits, Empty, At
<1>6. Once  BY <1>2, <1>3 DEF Once, Known, Piped, Single, Current, Unwritten, At, Asking
<1> QED BY <1>1, <1>4, <1>5, <1>6 DEF RInv

LEMMA StepRefines == RInv /\ [Next]_vars => RInv'
<1> SUFFICES ASSUME RInv, [Next]_vars PROVE RInv'  OBVIOUS
<1>0. IInv'  BY StepKeeps DEF RInv
<1>1. CASE UNCHANGED vars
  <2>1. UNCHANGED <<host, pending, waiter, events, child, reader, call, log, answered>>
    BY <1>1 DEF vars
  <2>2. Books' /\ Replies' /\ Once'  BY <2>1, AllStay DEF OwnerElsewhere
  <2> QED BY <1>0, <2>2 DEF RInv
<1>2. CASE Restart \/ Request \/ DrainEvents \/ Close
  BY <1>0, <1>2, BeginKeeps, RequestKeeps, DrainKeeps DEF RInv
<1>3. CASE OwnerStep
  BY <1>0, <1>3, SpawnKeeps, AwaitKeeps, PutBackKeeps, ReviveKeeps, WriteKeeps, GetKeeps,
     PopKeeps DEF OwnerStep, RInv
<1>4. ASSUME NEW t \in Threads, ShutdownStep(t) PROVE RInv'
  BY <1>0, <1>4, TakeKeeps, EndInputKeeps, ReapKeeps, JoinKeeps, WakeKeeps, PutKeeps
     DEF ShutdownStep, RInv
<1>5. ASSUME NEW k \in Children, ReaderStep(k) PROVE RInv'
  BY <1>0, <1>5, ReadLineKeeps, HandOverKeeps, EndOfFileKeeps, WakeWaitingKeeps
     DEF ReaderStep, RInv
<1>6. ASSUME NEW k \in Children, SignalReady(k) \/ PostPage(k) \/ Serve(k) \/ Die(k) PROVE RInv'
  BY <1>0, <1>6, SignalReadyKeeps, PostPageKeeps, ServeKeeps, DieKeeps DEF Die, RInv
<1> QED BY <1>1, <1>2, <1>3, <1>4, <1>5, <1>6 DEF Next

\* A caller is answered by the reply to its own request, however many requests
\* timed out before it, and whichever child, of before or after a restart, the
\* late replies come from.
THEOREM RepliesReachTheirRequest == Spec => []AnswersAreOwn
<1>1. RInv => AnswersAreOwn  BY DEF RInv, Replies, Fits, AnswersAreOwn
<1> QED BY InitRefines, StepRefines, <1>1, PTL DEF Spec

(* The refinement                                                          *)

Live == {k \in Children : child[k].alive}

\* A step that leaves the children's lives, the counter and the history alone.
LEMMA Stutters ==
    ASSUME \A k \in Children : child'[k].alive = child[k].alive,
           host'.asked = host.asked, UNCHANGED <<log, answered>>
    PROVE  UNCHANGED Service!vars
<1>1. Live' = Live  BY DEF Live
<1> QED BY <1>1 DEF Service!vars, Live

LEMMA SpawnServes == ASSUME RInv, Spawn PROVE [Service!Next]_Service!vars
<1> USE HostAssumption DEF RInv
<1>1. CASE UNCHANGED <<host, child>>  BY <1>1, Stutters DEF Spawn
<1>2. CASE LET k == host.spawned + 1
           IN  /\ k <= MaxChildren /\ host' = [host EXCEPT !.process = k, !.spawned = k]
               /\ child' = [child EXCEPT ![k].alive = TRUE]
  <2> DEFINE k == host.spawned + 1
  <2>1. host.spawned \in Nat /\ k \in Children  BY <1>2, Fields DEF IInv, Children
  <2>2. k \notin Live
    <3>1. ~child[k].alive  BY <2>1 DEF IInv, Numbered
    <3> QED BY <3>1 DEF Live
  <2>3. Live' = Live \cup {k}
    <3>1. /\ child'[k].alive /\ \A j \in Children \ {k} : child'[j] = child[j]
      BY <1>2, <2>1 DEF IInv, TypeOK, Child
    <3> HIDE DEF k
    <3> QED BY <2>1, <3>1 DEF Live
  <2>4. host'.asked = host.asked  BY <1>2 DEF IInv, TypeOK, Host
  <2>5. PICK j \in Children : j = k  BY <2>1
  <2> HIDE DEF k
  <2>6. Service!Spawn(j)  BY <2>2, <2>3, <2>4, <2>5 DEF Service!Spawn, Live, Spawn
  <2> QED BY <2>6 DEF Service!Next
<1>3. host.spawned \in 0..MaxChildren  BY Fields DEF IInv
<1> QED BY <1>1, <1>2, <1>3 DEF Spawn

LEMMA DeathServes == ASSUME RInv, NEW k \in Children, child' = [child EXCEPT ![k] = Dead(@)],
                            UNCHANGED <<host, log, answered>>
                     PROVE  [Service!Next]_Service!vars
<1>1. /\ ~child'[k].alive /\ \A j \in Children \ {k} : child'[j] = child[j]
  BY DEF RInv, IInv, TypeOK, Child, Dead
<1>2. CASE child[k].alive
  <2>1. k \in Live /\ Live' = Live \ {k}  BY <1>1, <1>2 DEF Live
  <2>2. Service!Die(k)  BY <2>1 DEF Service!Die, Live
  <2> QED BY <2>2 DEF Service!Next
<1>3. CASE ~child[k].alive
  <2>1. child[k].alive \in BOOLEAN  BY Fields DEF RInv, IInv
  <2>2. child'[k].alive \in BOOLEAN  BY DEF RInv, IInv, TypeOK, Child, Dead
  <2>3. \A j \in Children : child'[j].alive = child[j].alive  BY <1>1, <1>3, <2>1, <2>2
  <2> QED BY <2>3, Stutters
<1> QED BY <1>2, <1>3

LEMMA RequestServes == ASSUME RInv, Request PROVE [Service!Next]_Service!vars
<1> USE HostAssumption DEF RInv
<1>1. CASE UNCHANGED host  BY <1>1, Stutters DEF Request
<1>2. CASE host' = [host EXCEPT !.next = host.next + 1, !.asked = host.asked + 1]
  <2> DEFINE r == host.asked + 1
  <2>1. host.asked \in Nat /\ r \in Requests
    BY DEF IInv, TypeOK, Host, Request, Requests
  <2>2. host'.asked = r  BY <1>2 DEF IInv, TypeOK, Host
  <2>3. r \notin 1..host.asked /\ 1..host'.asked = (1..host.asked) \cup {r}
    BY <2>1, <2>2
  <2>4. Service!Ask(r)  BY <2>3 DEF Service!Ask, Request
  <2> HIDE DEF r
  <2> QED BY <2>1, <2>4 DEF Service!Next
<1> QED BY <1>1, <1>2 DEF Request

LEMMA ServeServes == ASSUME RInv, NEW k \in Children, Serve(k) PROVE [Service!Next]_Service!vars
<1> USE DEF RInv
<1> DEFINE in == child[k].inbox
           m == Head(in)
<1>1. UNCHANGED <<host, answered>> /\ child[k].alive  BY DEF Serve
<1>2. CASE child' = [child EXCEPT ![k] = Dead(@)] /\ UNCHANGED log
  BY <1>1, <1>2, DeathServes
<1>3. CASE m # Shutdown
  <2>1. in \in Seq(Message) /\ in # <<>>  BY DEF Serve, IInv, TypeOK, Child
  <2>2. m = in[1] /\ 1 \in DOMAIN in
    <3> HIDE DEF Message
    <3> QED BY <2>1, TailOf
  <2>3. m.request \in (1..host.asked) \ Done  BY <1>3, <2>2 DEF Once, Piped
  <2>4. \A j \in Children : child'[j].alive = child[j].alive
    <3> DEFINE done == [child EXCEPT ![k].inbox = Tail(@)]
               say(ok) == [done EXCEPT ![k].outbox =
                              Append(@, [id |-> m.id, content |-> Reply(m.request, ok)])]
    <3>1. child' \in {done, say(TRUE), say(FALSE)}  BY <1>3 DEF Serve
    <3>2. \A j \in Children : done[j].alive = child[j].alive /\ DOMAIN done = Children
      BY DEF IInv, TypeOK, Child
    <3>3. ASSUME NEW ok \in BOOLEAN PROVE \A j \in Children : say(ok)[j].alive = done[j].alive
      BY DEF IInv, TypeOK, Child
    <3> HIDE DEF done, say
    <3> QED BY <3>1, <3>2, <3>3
  <2>5. CASE UNCHANGED log  BY <1>1, <2>4, <2>5, Stutters
  <2>6. CASE log' = Append(log, m.request)
    <3>1. m.request \in Requests
      <4>1. host.asked \in 0..MaxRequests  BY DEF IInv, TypeOK, Host
      <4> HIDE DEF m
      <4> QED BY <2>3, <4>1, HostAssumption DEF Requests
    <3>2. Live # {} /\ Live' = Live  BY <1>1, <2>4 DEF Live
    <3>3. Service!Execute(m.request)
      BY <1>1, <2>3, <2>6, <3>2 DEF Service!Execute, Service!Executed, Live, Done
    <3> QED BY <3>1, <3>3 DEF Service!Next
  <2> QED BY <1>3, <2>5, <2>6 DEF Serve
<1> QED BY <1>2, <1>3 DEF Serve

LEMMA PopServes == ASSUME RInv, Pop PROVE [Service!Next]_Service!vars
<1> USE HostAssumption DEF RInv
<1> DEFINE c == call[Owner]
<1>1. UNCHANGED <<host, child, log>> /\ At(Owner, "pop")  BY DEF Pop
<1>2. CASE UNCHANGED answered  BY <1>1, <1>2, Stutters
<1>3. CASE c.reply.ok /\ answered' = answered \cup {c.request}
  <2>1. c.request \in Done  BY <1>1, <1>3 DEF Replies, Fits
  <2>2. c.request \notin answered  BY <1>1 DEF Once, Current, At, Asking
  <2>3. c.request \in Requests  BY <1>1 DEF IInv, Doing, At
  <2>4. Live' = Live  BY <1>1 DEF Live
  <2>5. Service!Answer(c.request)
    BY <1>1, <1>3, <2>1, <2>2, <2>4 DEF Service!Answer, Service!Executed, Live, Done
  <2> QED BY <2>3, <2>5 DEF Service!Next
<1> QED BY <1>2, <1>3 DEF Pop

\* The owner's other steps, and those of a shutdown and of a reader.
LEMMA OwnerStutters ==
    ASSUME RInv, Await \/ PutBack \/ Restart \/ Close \/ Revive \/ Write \/ Get \/ DrainEvents
    PROVE  UNCHANGED Service!vars
<1>1. CASE Revive
  <2>1. host'.asked = host.asked  BY <1>1 DEF Revive, RInv, IInv, TypeOK, Host
  <2> QED BY <1>1, <2>1, Stutters DEF Revive
<1>2. CASE Write
  <2>1. \A k \in Children : child'[k].alive = child[k].alive
    BY <1>2 DEF Write, RInv, IInv, TypeOK, Child
  <2> QED BY <1>2, <2>1, Stutters DEF Write
<1>3. CASE UNCHANGED <<host, child, log, answered>>  BY <1>3, Stutters
<1> QED BY <1>1, <1>2, <1>3 DEF Await, PutBack, Restart, Close, Get, DrainEvents

LEMMA ShutdownServes ==
    ASSUME RInv, NEW t \in Threads, ShutdownStep(t)
    PROVE  [Service!Next]_Service!vars
<1> USE HostAssumption DEF RInv
<1>1. CASE Take(t)
  <2>1. host'.asked = host.asked  BY <1>1 DEF Take, IInv, TypeOK, Host
  <2> QED BY <1>1, <2>1, Stutters DEF Take
<1>2. CASE EndInput(t)
  <2>1. \A k \in Children : child'[k].alive = child[k].alive
    BY <1>2 DEF EndInput, IInv, TypeOK, Child
  <2> QED BY <1>2, <2>1, Stutters DEF EndInput
<1>3. CASE Reap(t)
  <2>1. call[t].victim \in Children
    <3>1. call[t].victim \in 0..MaxChildren  BY Fields DEF IInv
    <3>2. call[t].victim # 0  BY <1>3 DEF Reap, IInv, Doing, At, Nobody
    <3> QED BY <3>1, <3>2 DEF Children
  <2> QED BY <1>3, <2>1, DeathServes DEF Reap
<1>4. CASE Join(t) \/ Wake(t) \/ Put(t)
  BY <1>4, Stutters DEF Join, Wake, Put
<1> QED BY <1>1, <1>2, <1>3, <1>4 DEF ShutdownStep

LEMMA ReaderStutters ==
    ASSUME RInv, NEW k \in Children, ReaderStep(k) \/ SignalReady(k) \/ PostPage(k)
    PROVE  UNCHANGED Service!vars
<1>1. UNCHANGED <<host, log, answered>>
  BY DEF ReaderStep, ReadLine, HandOver, EndOfFile, ListWaiting, WakeWaiting, SignalReady,
         PostPage
<1>2. \/ child' = child
      \/ child' = [child EXCEPT ![k].outbox = Tail(@)]
      \/ child' = [child EXCEPT ![k].said = TRUE, ![k].outbox = Append(@, ReadySignal)]
      \/ child' = [child EXCEPT ![k].posted = @ + 1, ![k].outbox = Append(@, PageSignal)]
  BY DEF ReaderStep, ReadLine, HandOver, EndOfFile, ListWaiting, WakeWaiting, SignalReady,
         PostPage
<1>3. \A j \in Children : child'[j].alive = child[j].alive
  <2>1. child \in [Children -> Child] /\ child[k] \in Child  BY DEF RInv, IInv, TypeOK
  <2> DEFINE c == [child[k] EXCEPT !.outbox = Tail(@)]
             d == [child[k] EXCEPT !.said = TRUE, !.outbox = Append(@, ReadySignal)]
             e == [child[k] EXCEPT !.posted = @ + 1, !.outbox = Append(@, PageSignal)]
  <2>2. c.alive = child[k].alive /\ d.alive = child[k].alive /\ e.alive = child[k].alive
    BY <2>1 DEF Child
  <2>3. \/ child' = child \/ child' = [child EXCEPT ![k] = c]
        \/ child' = [child EXCEPT ![k] = d] \/ child' = [child EXCEPT ![k] = e]
    BY <1>2
  <2> HIDE DEF c, d, e
  <2> QED BY <2>1, <2>2, <2>3
<1> QED BY <1>1, <1>3, Stutters

LEMMA StepServes == RInv /\ [Next]_vars => [Service!Next]_Service!vars
<1> SUFFICES ASSUME RInv, [Next]_vars PROVE [Service!Next]_Service!vars  OBVIOUS
<1>1. CASE UNCHANGED vars  BY <1>1, Stutters DEF vars
<1>2. CASE Request \/ Spawn \/ Pop  BY <1>2, RequestServes, SpawnServes, PopServes
<1>3. CASE Await \/ PutBack \/ Restart \/ Close \/ Revive \/ Write \/ Get \/ DrainEvents
  BY <1>3, OwnerStutters
<1>4. CASE \E t \in Threads : ShutdownStep(t)  BY <1>4, ShutdownServes
<1>5. ASSUME NEW k \in Children, ReaderStep(k) \/ SignalReady(k) \/ PostPage(k)
      PROVE  [Service!Next]_Service!vars
  BY <1>5, ReaderStutters
<1>6. ASSUME NEW k \in Children, Serve(k) \/ Die(k) PROVE [Service!Next]_Service!vars
  BY <1>6, ServeServes, DeathServes DEF Die
<1> QED BY <1>1, <1>2, <1>3, <1>4, <1>5, <1>6 DEF Next, OwnerStep

\* The host is a RendererService: a request is executed at most once, by a child
\* that lives, and its caller is told "ok" only after that, whatever restarts,
\* crashes and timeouts lie between.
THEOREM HostServes == Spec => ServiceSpec
<1>1. Init => Service!Init
  <2> SUFFICES ASSUME Init PROVE Service!Init  OBVIOUS
  <2>1. Live = {}  BY DEF Init, Live
  <2>2. 1..host.asked = {}  BY DEF Init
  <2> QED BY <2>1, <2>2 DEF Init, Service!Init, Live
<1> QED BY InitRefines, StepRefines, StepServes, <1>1, PTL DEF Spec, ServiceSpec, Service!Spec

=============================================================================
