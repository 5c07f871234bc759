----------------------------- MODULE RendererHost -----------------------------
(***************************************************************************)
(* The RendererHost of the avatar plugin, thread by thread: the owner (the *)
(* actor's worker) starts, asks, restarts and drains; the closer (the      *)
(* thread that stops the plugin) shuts down once, at any moment; each      *)
(* child process has a reader thread that hands its replies to the waiting *)
(* request and queues its events.  The host's lock is never held over a    *)
(* wait, so a block under it is one step.                                  *)
(*                                                                         *)
(* Requests are numbered; what they ask for, the limits on their size and  *)
(* the exit codes are left out.  A child that is killed is gone within the *)
(* grace, and a pipe takes what is written to it.                          *)
(***************************************************************************)
EXTENDS Naturals, Sequences, FiniteSets

CONSTANTS
    Owner, Closer,
    Threads,      \* the threads that use the host: the owner, or both
    MaxEvents,    \* size of the event queue
    MaxChildren,  \* bound: processes spawned
    MaxRequests,  \* bound: requests made
    MaxPage       \* bound: events of its own a child posts

ASSUME HostAssumption ==
    /\ Owner # Closer /\ Owner \in Threads /\ Threads \subseteq {Owner, Closer}
    /\ MaxEvents \in Nat \ {0} /\ MaxChildren \in Nat /\ MaxRequests \in Nat /\ MaxPage \in Nat

VARIABLES
    host,      \* the child in self.process, _stopped and the request counter
    pending,   \* _pending: request id -> request
    waiter,    \* the one-element queue of each request
    events,    \* _events
    child,     \* the processes and their pipes
    reader,    \* the reader thread of each child
    call,      \* what each thread is doing
    log,       \* history: requests executed
    answered   \* history: requests whose caller was told "ok"

vars == <<host, pending, waiter, events, child, reader, call, log, answered>>

Children == 1..MaxChildren
Requests == 1..MaxRequests
Nobody == 0

\* Contents of a waiter: nothing, the None that ends a wait, or a reply.
Content == [what : {"empty", "none", "reply"}, request : 0..MaxRequests, ok : BOOLEAN]
Empty == [what |-> "empty", request |-> 0, ok |-> FALSE]
Ended == [what |-> "none", request |-> 0, ok |-> FALSE]
Reply(r, ok) == [what |-> "reply", request |-> r, ok |-> ok]

\* Lines on stdin, and on stdout, where an event carries no reply: "ready", and
\* "page" for every other event of the renderer, which the host only passes on.
Shutdown == [id |-> 0, request |-> 0]
Message == [id : Nat, request : Requests] \cup {Shutdown}

Line == [id : Nat, content : Content]
ReadySignal == [id |-> 0, content |-> Empty]
PageSignal == [id |-> 0, content |-> Ended]
EventName(line) == IF line = ReadySignal THEN "ready" ELSE "page"
Event == {"ready", "page", "exited"}

Host == [process : 0..MaxChildren, stopped : BOOLEAN,
         spawned : 0..MaxChildren, next : Nat, asked : 0..MaxRequests]

Child == [alive : BOOLEAN, said : BOOLEAN, posted : 0..MaxPage,
          inbox : Seq(Message), outbox : Seq(Line)]

Reader == [pc : {"none", "read", "hand", "left", "wake", "done"},
           line : Line, target : 0..MaxRequests, todo : SUBSET Requests]

\* then: what follows a shutdown; victim: the child it ends; seen and size: where
\* its loop over _pending is; skipped: events start() took that were not "ready".
Call == [pc : {"ready", "closed", "spawn", "await", "putback", "take", "end", "reap", "join",
               "wake", "put", "revive", "write", "get", "pop"},
         then : {"none", "revive", "fail", "close"}, victim : 0..MaxChildren,
         skipped : Seq(Event), ok : BOOLEAN, seen : SUBSET Requests,
         size : Nat, id : Nat, request : 0..MaxRequests, reply : Content]

NoCall == [pc |-> "ready", then |-> "none", victim |-> Nobody, skipped |-> <<>>,
           ok |-> FALSE, seen |-> {}, size |-> 0, id |-> 0, request |-> 0,
           reply |-> Empty]

Init ==
    /\ host = [process |-> Nobody, stopped |-> FALSE,
               spawned |-> 0, next |-> 1, asked |-> 0]
    /\ pending = <<>> /\ waiter = [r \in Requests |-> Empty] /\ events = <<>>
    /\ child = [k \in Children |-> [alive |-> FALSE, said |-> FALSE, posted |-> 0,
                                    inbox |-> <<>>, outbox |-> <<>>]]
    /\ reader = [k \in Children |-> [pc |-> "none", line |-> ReadySignal,
                                     target |-> 0, todo |-> {}]]
    /\ call = [t \in Threads |-> NoCall]
    /\ log = <<>> /\ answered = {}

At(t, pc) == call[t].pc = pc
GoTo(t, pc) == call' = [call EXCEPT ![t].pc = pc]

\* The call returns, with or without an error; a closed host's closer is done.
Return(t) ==
    call' = [call EXCEPT ![t] = [NoCall EXCEPT !.pc = IF t = Closer THEN "closed" ELSE "ready"]]

HasRoom == Len(events) < MaxEvents
Waiting == {pending[i] : i \in DOMAIN pending}
Without(id) == [i \in DOMAIN pending \ {id} |-> pending[i]]

\* What a dead child left unread in its pipe is of no more account.
Dead(c) == [c EXCEPT !.alive = FALSE, !.inbox = <<>>]

-----------------------------------------------------------------------------
(* start                                                                   *)

\* Mutant: start() does not look whether a process is there.
SpawnAgain ==
    /\ At(Owner, "ready") \/ At(Owner, "spawn")
    /\ IF host.stopped \/ host.spawned = MaxChildren
       THEN Return(Owner) /\ UNCHANGED <<host, child, reader>>
       ELSE LET k == host.spawned + 1
            IN  /\ host' = [host EXCEPT !.process = k, !.spawned = k]
                /\ child' = [child EXCEPT ![k].alive = TRUE]
                /\ reader' = [reader EXCEPT ![k].pc = "read"]
                /\ GoTo(Owner, "await")
    /\ UNCHANGED <<pending, waiter, events, log, answered>>

\* start(): a host that has a process or was stopped refuses; the program may be
\* missing.
Spawn ==
    /\ At(Owner, "ready") \/ At(Owner, "spawn")
    /\ \/ Return(Owner) /\ UNCHANGED <<host, child, reader>>
       \/ /\ host.process = Nobody /\ ~host.stopped /\ host.spawned < MaxChildren
          /\ LET k == host.spawned + 1
             IN  /\ host' = [host EXCEPT !.process = k, !.spawned = k]
                 /\ child' = [child EXCEPT ![k].alive = TRUE]
                 /\ reader' = [reader EXCEPT ![k].pc = "read"]
          /\ GoTo(Owner, "await")
    /\ UNCHANGED <<pending, waiter, events, log, answered>>

\* _wait_for_event("ready"), whichever child the event came from.
Await ==
    /\ At(Owner, "await")
    /\ \/ /\ events # <<>> /\ events' = Tail(events)
          /\ call' = IF Head(events) = "ready"
                     THEN [call EXCEPT ![Owner].pc = "putback", ![Owner].ok = TRUE]
                     ELSE [call EXCEPT ![Owner].skipped = Append(@, Head(events))]
       \/ GoTo(Owner, "putback") /\ UNCHANGED events
    /\ UNCHANGED <<host, pending, waiter, child, reader, log, answered>>

\* The skipped events go back, behind those that came meanwhile, and wait for
\* room that only this thread could make; a start that saw no "ready" shuts
\* the host down.
PutBack ==
    /\ At(Owner, "putback")
    /\ LET c == call[Owner]
       IN  IF c.skipped # <<>>
           THEN /\ HasRoom /\ events' = Append(events, Head(c.skipped))
                /\ call' = [call EXCEPT ![Owner].skipped = Tail(@)]
           ELSE /\ UNCHANGED events
                /\ IF c.ok THEN Return(Owner)
                   ELSE call' = [call EXCEPT ![Owner].pc = "take", ![Owner].then = "fail"]
    /\ UNCHANGED <<host, pending, waiter, child, reader, log, answered>>

-----------------------------------------------------------------------------
(* shutdown and restart                                                    *)

Restart ==
    /\ At(Owner, "ready")
    /\ call' = [call EXCEPT ![Owner] = [NoCall EXCEPT !.pc = "take", !.then = "revive"]]
    /\ UNCHANGED <<host, pending, waiter, events, child, reader, log, answered>>

Close ==
    /\ Closer \in Threads /\ At(Closer, "ready")
    /\ call' = [call EXCEPT ![Closer] = [NoCall EXCEPT !.pc = "take", !.then = "close"]]
    /\ UNCHANGED <<host, pending, waiter, events, child, reader, log, answered>>

ShutdownReturns(t) ==
    IF call[t].then = "revive" THEN GoTo(t, "revive")
    ELSE Return(t)

\* The block under the lock: whoever finds the process ends it.
Take(t) ==
    /\ At(t, "take")
    /\ host' = [host EXCEPT !.stopped = TRUE, !.process = Nobody]
    /\ IF host.process = Nobody THEN ShutdownReturns(t)
       ELSE call' = [call EXCEPT ![t].pc = IF child[host.process].alive THEN "end" ELSE "join",
                                 ![t].victim = host.process]
    /\ UNCHANGED <<pending, waiter, events, child, reader, log, answered>>

\* The Shutdown line goes to the process self.process names by now, which is
\* none, or one that was started in between.
EndInput(t) ==
    /\ At(t, "end") /\ GoTo(t, "reap")
    /\ child' = IF host.process # Nobody /\ child[host.process].alive
                THEN [child EXCEPT ![host.process].inbox = Append(@, Shutdown)]
                ELSE child
    /\ UNCHANGED <<host, pending, waiter, events, reader, log, answered>>

\* The child ends by itself, is terminated or is killed.
Reap(t) ==
    /\ At(t, "reap") /\ GoTo(t, "join")
    /\ child' = [child EXCEPT ![call[t].victim] = Dead(@)]
    /\ UNCHANGED <<host, pending, waiter, events, reader, log, answered>>

\* The reader is joined, or not within a second; the loop over _pending begins.
Join(t) ==
    /\ At(t, "join")
    /\ call' = [call EXCEPT ![t].pc = "wake", ![t].seen = {}, ![t].victim = Nobody,
                            ![t].size = Cardinality(DOMAIN pending)]
    /\ UNCHANGED <<host, pending, waiter, events, child, reader, log, answered>>

\* The loop takes the next request, ends, or raises when the dictionary's size
\* has changed under it.
Wake(t) ==
    /\ At(t, "wake")
    /\ LET left == Waiting \ call[t].seen
       IN  IF Cardinality(DOMAIN pending) # call[t].size
           THEN Return(t) /\ UNCHANGED pending
           ELSE IF left = {} THEN ShutdownReturns(t) /\ pending' = <<>>
           ELSE /\ \E r \in left : call' = [call EXCEPT ![t].pc = "put", ![t].request = r]
                /\ UNCHANGED pending
    /\ UNCHANGED <<host, waiter, events, child, reader, log, answered>>

\* put(None) waits while the waiter is full.
Put(t) ==
    /\ At(t, "put") /\ waiter[call[t].request] = Empty
    /\ waiter' = [waiter EXCEPT ![call[t].request] = Ended]
    /\ call' = [call EXCEPT ![t].pc = "wake", ![t].request = 0,
                            ![t].seen = @ \cup {call[t].request}]
    /\ UNCHANGED <<host, pending, events, child, reader, log, answered>>

\* Mutant: the restarted host counts its requests anew.
ReviveAnew ==
    /\ At(Owner, "revive") /\ GoTo(Owner, "spawn")
    /\ host' = [host EXCEPT !.stopped = FALSE, !.next = 1]
    /\ UNCHANGED <<pending, waiter, events, child, reader, log, answered>>

Revive ==
    /\ At(Owner, "revive") /\ GoTo(Owner, "spawn")
    /\ host' = [host EXCEPT !.stopped = FALSE]
    /\ UNCHANGED <<pending, waiter, events, child, reader, log, answered>>

-----------------------------------------------------------------------------
(* request and drain_events                                                *)

Request ==
    /\ At(Owner, "ready") /\ host.asked < MaxRequests
    /\ IF host.process = Nobody \/ host.stopped
       THEN Return(Owner) /\ UNCHANGED <<host, pending>>
       ELSE LET r == host.asked + 1
            IN  /\ host' = [host EXCEPT !.next = @ + 1, !.asked = r]
                /\ pending' = [i \in DOMAIN pending \cup {host.next} |->
                                  IF i = host.next THEN r ELSE pending[i]]
                /\ call' = [call EXCEPT ![Owner] =
                               [NoCall EXCEPT !.pc = "write", !.id = host.next, !.request = r]]
    /\ UNCHANGED <<waiter, events, child, reader, log, answered>>

\* Mutant: a write that is not sure to have worked is repeated.
WriteTwice ==
    /\ At(Owner, "write")
    /\ LET c == call[Owner]
           line == [id |-> c.id, request |-> c.request]
       IN  IF host.process # Nobody /\ child[host.process].alive
           THEN /\ child' = [child EXCEPT ![host.process].inbox = @ \o <<line, line>>]
                /\ GoTo(Owner, "get") /\ UNCHANGED pending
           ELSE Return(Owner) /\ pending' = Without(c.id) /\ UNCHANGED child
    /\ UNCHANGED <<host, waiter, events, reader, log, answered>>

\* A pipe that is closed or broken fails the request.
Write ==
    /\ At(Owner, "write")
    /\ LET c == call[Owner]
       IN  IF host.process # Nobody /\ child[host.process].alive
           THEN /\ child' = [child EXCEPT ![host.process].inbox =
                                Append(@, [id |-> c.id, request |-> c.request])]
                /\ GoTo(Owner, "get") /\ UNCHANGED pending
           ELSE Return(Owner) /\ pending' = Without(c.id) /\ UNCHANGED child
    /\ UNCHANGED <<host, waiter, events, reader, log, answered>>

\* Mutant: the wait for the reply has no timeout.
GetForever ==
    /\ At(Owner, "get") /\ waiter[call[Owner].request] # Empty
    /\ call' = [call EXCEPT ![Owner].pc = "pop",
                            ![Owner].reply = waiter[call[Owner].request]]
    /\ waiter' = [waiter EXCEPT ![call[Owner].request] = Empty]
    /\ UNCHANGED <<host, pending, events, child, reader, log, answered>>

\* A reply, the None of a reader or a shutdown, or nothing in time.
Get ==
    /\ At(Owner, "get")
    /\ call' = [call EXCEPT ![Owner].pc = "pop",
                            ![Owner].reply = waiter[call[Owner].request]]
    /\ waiter' = [waiter EXCEPT ![call[Owner].request] = Empty]
    /\ UNCHANGED <<host, pending, events, child, reader, log, answered>>

Pop ==
    /\ At(Owner, "pop") /\ pending' = Without(call[Owner].id) /\ Return(Owner)
    /\ LET c == call[Owner]
       IN  IF c.reply.ok
           THEN answered' = answered \cup {c.request} ELSE UNCHANGED answered
    /\ UNCHANGED <<host, waiter, events, child, reader, log>>

DrainEvents ==
    /\ At(Owner, "ready") /\ events' = <<>>
    /\ UNCHANGED <<host, pending, waiter, child, reader, call, log, answered>>

-----------------------------------------------------------------------------
(* The reader thread of child k                                            *)

\* A line: an event is queued, which waits for room; a reply whose request
\* nobody waits for any more is dropped.
ReadLine(k) ==
    /\ reader[k].pc = "read" /\ child[k].outbox # <<>>
    /\ LET line == Head(child[k].outbox)
       IN  IF line \in {ReadySignal, PageSignal}
           THEN HasRoom /\ events' = Append(events, EventName(line)) /\ UNCHANGED reader
           ELSE /\ UNCHANGED events
                /\ reader' = IF line.id \in DOMAIN pending
                             THEN [reader EXCEPT ![k].pc = "hand", ![k].line = line,
                                                 ![k].target = pending[line.id]]
                             ELSE reader
    /\ child' = [child EXCEPT ![k].outbox = Tail(@)]
    /\ UNCHANGED <<host, pending, waiter, call, log, answered>>

HandOver(k) ==
    /\ reader[k].pc = "hand" /\ waiter[reader[k].target] = Empty
    /\ waiter' = [waiter EXCEPT ![reader[k].target] = reader[k].line.content]
    /\ reader' = [reader EXCEPT ![k].pc = "read", ![k].line = ReadySignal, ![k].target = 0]
    /\ UNCHANGED <<host, pending, events, child, call, log, answered>>

EndOfFile(k) ==
    /\ reader[k].pc = "read" /\ child[k].outbox = <<>> /\ ~child[k].alive
    /\ HasRoom /\ events' = Append(events, "exited")
    /\ reader' = [reader EXCEPT ![k].pc = "left"]
    /\ UNCHANGED <<host, pending, waiter, child, call, log, answered>>

\* Under the lock the requests that wait are listed, whoever they were sent to.
ListWaiting(k) ==
    /\ reader[k].pc = "left"
    /\ reader' = [reader EXCEPT ![k].pc = "wake", ![k].todo = Waiting]
    /\ UNCHANGED <<host, pending, waiter, events, child, call, log, answered>>

WakeWaiting(k) ==
    /\ reader[k].pc = "wake"
    /\ IF reader[k].todo = {}
       THEN reader' = [reader EXCEPT ![k].pc = "done"] /\ UNCHANGED waiter
       ELSE \E r \in reader[k].todo :
               /\ waiter[r] = Empty /\ waiter' = [waiter EXCEPT ![r] = Ended]
               /\ reader' = [reader EXCEPT ![k].todo = @ \ {r}]
    /\ UNCHANGED <<host, pending, events, child, call, log, answered>>

-----------------------------------------------------------------------------
(* The child process k                                                     *)

SignalReady(k) ==
    /\ child[k].alive /\ ~child[k].said
    /\ child' = [child EXCEPT ![k].said = TRUE, ![k].outbox = Append(@, ReadySignal)]
    /\ UNCHANGED <<host, pending, waiter, events, reader, call, log, answered>>

PostPage(k) ==
    /\ child[k].alive /\ child[k].posted < MaxPage
    /\ child' = [child EXCEPT ![k].posted = @ + 1, ![k].outbox = Append(@, PageSignal)]
    /\ UNCHANGED <<host, pending, waiter, events, reader, call, log, answered>>

\* A command is executed and answered, refused, or never answered.
Serve(k) ==
    /\ child[k].alive /\ child[k].inbox # <<>>
    /\ LET m == Head(child[k].inbox)
           done == [child EXCEPT ![k].inbox = Tail(@)]
           say(ok) == [done EXCEPT ![k].outbox =
                          Append(@, [id |-> m.id, content |-> Reply(m.request, ok)])]
       IN  IF m = Shutdown
           THEN child' = [child EXCEPT ![k] = Dead(@)] /\ UNCHANGED log
           ELSE \/ child' \in {say(TRUE), done} /\ log' = Append(log, m.request)
                \/ child' = say(FALSE) /\ UNCHANGED log
    /\ UNCHANGED <<host, pending, waiter, events, reader, call, answered>>

Die(k) ==
    /\ child[k].alive /\ child' = [child EXCEPT ![k] = Dead(@)]
    /\ UNCHANGED <<host, pending, waiter, events, reader, call, log, answered>>

OwnerStep == Spawn \/ Await \/ PutBack \/ Revive \/ Write \/ Get \/ Pop
ShutdownStep(t) == Take(t) \/ EndInput(t) \/ Reap(t) \/ Join(t) \/ Wake(t) \/ Put(t)
ReaderStep(k) ==
    ReadLine(k) \/ HandOver(k) \/ EndOfFile(k) \/ ListWaiting(k) \/ WakeWaiting(k)

Next ==
    \/ Restart \/ Request \/ DrainEvents \/ Close
    \/ OwnerStep \/ \E t \in Threads : ShutdownStep(t)
    \/ \E k \in Children : ReaderStep(k) \/ SignalReady(k) \/ PostPage(k) \/ Serve(k) \/ Die(k)

Spec == Init /\ [][Next]_vars

\* Every thread runs on; a child may do nothing at all.
FairSpec ==
    /\ Spec
    /\ WF_vars(OwnerStep) /\ \A t \in Threads : WF_vars(ShutdownStep(t))
    /\ \A k \in Children : WF_vars(ReaderStep(k))

-----------------------------------------------------------------------------
(* Properties.                                                             *)

\* Every variable keeps its type, and the event queue its size.
TypeOK ==
    /\ host \in Host
    /\ DOMAIN pending \subseteq Nat /\ Waiting \subseteq Requests
    /\ waiter \in [Requests -> Content]
    /\ events \in Seq(Event) /\ Len(events) <= MaxEvents
    /\ child \in [Children -> Child] /\ reader \in [Children -> Reader]
    /\ call \in [Threads -> Call]
    /\ log \in Seq(Requests) /\ answered \subseteq Requests

\* A request is answered by the reply to that very request: replies that come
\* after their caller gave up, or from the child before a restart, reach
\* nobody else.
AnswersAreOwn ==
    At(Owner, "pop") /\ call[Owner].reply.what = "reply"
        => call[Owner].reply.request = call[Owner].request

\* A child that runs is the host's own or is being ended by a shutdown, also
\* when both threads shut down, or one does while the other restarts: the host
\* never loses sight of a child.  That someone will end it, this does not say:
\* a restart that outlasts the closer's shutdown leaves a child of the host's
\* own running (ShutdownFinal of the actor).
NoUntrackedChild ==
    \A k \in Children : child[k].alive =>
        host.process = k \/ \E t \in Threads : call[t].victim = k

\* Requests are executed at most once and answered only when executed.
Service == INSTANCE RendererService
              WITH live <- {k \in Children : child[k].alive}, asked <- 1..host.asked

ServiceSpec == Service!Spec

\* Every call of the actor's worker returns, whatever the child does, posts or
\* leaves out, with one exception: start() puts the events it skipped back into
\* a queue it no longer takes from, and when the children have filled that
\* queue meanwhile, it waits for ever.
WorkerReturns ==
    ~At(Owner, "ready") ~> (At(Owner, "ready") \/ [](At(Owner, "putback") /\ ~HasRoom))

\* "Terminate the renderer deterministically": a shutdown returns.
CloserReturns == \A t \in Threads \ {Owner} : At(t, "take") ~> At(t, "closed")
=============================================================================
