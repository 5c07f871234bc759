---------------------------- MODULE PipeWirePlayer ----------------------------
(***************************************************************************)
(* The PipeWirePlayer of the zara-voice plugin: a bounded table of pw-play *)
(* child processes, each fed by a writer thread of its own, behind one     *)
(* lock that play() and cancel() hold while they wait, for a bounded time, *)
(* for a process or a writer to end.  close() holds the lock only to list  *)
(* the playbacks it then cancels one by one.                               *)
(*                                                                         *)
(* Audio, its validation and the random playback ids are left out: the     *)
(* n-th playback is known by n.                                            *)
(***************************************************************************)
EXTENDS Naturals, FiniteSets

CONSTANTS
    Threads,    \* callers of play, cancel and close
    Nobody,     \* the lock is free
    MaxActive,  \* max_active_playbacks
    MaxPlays    \* bound: processes started

ASSUME PlayerAssumption ==
    Nobody \notin Threads /\ MaxActive \in Nat \ {0} /\ MaxPlays \in Nat

VARIABLES
    lock,       \* the thread in a "with self._lock" block
    table,      \* _playbacks
    started,    \* playback ids handed out
    process,    \* per playback: the pw-play child
    writer,     \* per playback: the thread that feeds it
    call        \* per thread: the call it is in and how far it got

vars == <<lock, table, started, process, writer, call>>

Ids == 1..MaxPlays
None == 0

\* op: what was called; pc: the next step; id: the playback at hand; todo: the
\* playbacks a reap or a close still has to handle; own: those close() listed;
\* killed, joined: what _terminate_process and _join_writer achieved;
\* failures: playbacks close() could not cancel; result: how the call ended.
Call == [op : {"none", "play", "cancel", "close"},
         pc : {"ready", "reap", "admit", "poll", "stale", "terminate", "join",
               "settle", "next"},
         id : Ids \cup {None}, todo : SUBSET Ids, own : SUBSET Ids,
         killed : BOOLEAN, joined : BOOLEAN, failures : Nat,
         result : {"none", "started", "cancelled", "closed", "error"}]

NoCall == [op |-> "none", pc |-> "ready", id |-> None, todo |-> {}, own |-> {},
           killed |-> FALSE, joined |-> FALSE, failures |-> 0, result |-> "none"]

Init ==
    /\ lock = Nobody /\ table = {} /\ started = 0
    /\ process = [i \in Ids |-> "none"] /\ writer = [i \in Ids |-> "none"]
    /\ call = [t \in Threads |-> NoCall]

Dead(i) == process[i] # "alive"

\* writer.join(timeout) is over: the writer ended, or the time did.
Joined(i) == writer[i] # "running"

At(t, pc) == call[t].pc = pc
GoTo(t, pc) == call' = [call EXCEPT ![t].pc = pc]

\* The call returns to its caller; what it was about is kept when it succeeded.
Return(t, result) ==
    call' = [call EXCEPT ![t] =
        [NoCall EXCEPT !.result = result,
                       !.id = IF result = "cancelled" THEN call[t].id ELSE None,
                       !.own = IF result = "closed" THEN call[t].own ELSE {}]]

\* cancel(id) ends; inside close() a failure is counted and the next one's turn
\* comes.
CancelReturns(t, ok) ==
    IF call[t].op = "close"
    THEN call' = [call EXCEPT ![t].pc = "next", ![t].id = None,
                              ![t].killed = FALSE, ![t].joined = FALSE,
                              ![t].failures = IF ok THEN @ ELSE @ + 1]
    ELSE Return(t, IF ok THEN "cancelled" ELSE "error")

Acquire(t) == lock = Nobody /\ lock' = t
Release == lock' = Nobody

-----------------------------------------------------------------------------
(* play                                                                    *)

\* _reap_finished_locked first lists the playbacks whose process ended.
Play(t) ==
    /\ At(t, "ready") /\ Acquire(t)
    /\ call' = [call EXCEPT ![t] = [NoCall EXCEPT !.op = "play", !.pc = "reap",
                                                  !.todo = {i \in table : Dead(i)}]]
    /\ UNCHANGED <<table, started, process, writer>>

\* A finished playback whose writer lingers keeps its place.
Reap(t) ==
    /\ At(t, "reap")
    /\ IF call[t].todo = {} THEN GoTo(t, "admit") /\ UNCHANGED table
       ELSE \E i \in call[t].todo :
               /\ call' = [call EXCEPT ![t].todo = @ \ {i}]
               /\ table' = IF Joined(i) THEN table \ {i} ELSE table
    /\ UNCHANGED <<lock, started, process, writer>>

Refuse(t) ==
    /\ At(t, "admit") /\ Release
    /\ Return(t, "error")
    /\ UNCHANGED <<table, started, process, writer>>

\* Mutant: off by one.
HasRoomForOneMore == Cardinality(table) <= MaxActive

HasRoom == Cardinality(table) < MaxActive

\* The process runs; one that came without an input stream is ended again.
Spawn(t) ==
    /\ At(t, "admit") /\ HasRoom /\ started < MaxPlays
    /\ started' = started + 1 /\ table' = table \cup {started'}
    /\ process' = [process EXCEPT ![started'] = "alive"]
    /\ \/ /\ writer' = [writer EXCEPT ![started'] = "running"]
          /\ Release
          /\ Return(t, "started")
       \/ /\ call' = [call EXCEPT ![t].pc = "terminate", ![t].id = started']
          /\ UNCHANGED <<writer, lock>>

-----------------------------------------------------------------------------
(* cancel and close                                                        *)

\* Looking up the id; an unknown one is refused.
Cancel(t, i) ==
    /\ At(t, "ready")
    /\ IF i \in table
       THEN /\ Acquire(t)
            /\ call' = [call EXCEPT ![t] = [NoCall EXCEPT !.op = "cancel", !.pc = "poll", !.id = i]]
       ELSE lock = Nobody /\ UNCHANGED lock /\ Return(t, "error")
    /\ UNCHANGED <<table, started, process, writer>>

\* close() lists the playbacks and lets the lock go.
Close(t) ==
    /\ At(t, "ready") /\ lock = Nobody
    /\ call' = [call EXCEPT ![t] = [NoCall EXCEPT !.op = "close", !.pc = "next",
                                                  !.todo = table, !.own = table]]
    /\ UNCHANGED <<lock, table, started, process, writer>>

CloseNext(t) ==
    /\ At(t, "next")
    /\ \E i \in call[t].todo :
          IF i \in table
          THEN /\ Acquire(t)
               /\ call' = [call EXCEPT ![t].todo = @ \ {i}, ![t].id = i, ![t].pc = "poll"]
          ELSE /\ lock = Nobody /\ UNCHANGED lock
               /\ call' = [call EXCEPT ![t].todo = @ \ {i}, ![t].failures = @ + 1]
    /\ UNCHANGED <<table, started, process, writer>>

CloseReturns(t) ==
    /\ At(t, "next") /\ call[t].todo = {}
    /\ Return(t, IF call[t].failures = 0 THEN "closed" ELSE "error")
    /\ UNCHANGED <<lock, table, started, process, writer>>

Poll(t) ==
    /\ At(t, "poll")
    /\ GoTo(t, IF Dead(call[t].id) THEN "stale" ELSE "terminate")
    /\ UNCHANGED <<lock, table, started, process, writer>>

\* The playback had finished by itself: the id is stale, and cancel says so.
Stale(t) ==
    /\ At(t, "stale") /\ Release
    /\ table' = IF Joined(call[t].id) THEN table \ {call[t].id} ELSE table
    /\ CancelReturns(t, FALSE)
    /\ UNCHANGED <<started, process, writer>>

\* terminate(), and kill() when that did not help in time; neither may help.
Terminate(t) ==
    /\ At(t, "terminate")
    /\ LET i == call[t].id
       IN  \/ /\ process' = [process EXCEPT ![i] = "dead"]
              /\ call' = [call EXCEPT ![t].killed = TRUE, ![t].pc = "join"]
           \/ /\ ~Dead(i) /\ UNCHANGED process
              /\ call' = [call EXCEPT ![t].killed = FALSE, ![t].pc = "join"]
    /\ UNCHANGED <<lock, table, started, writer>>

\* Mutant: a writer that lingers after the join is not noticed.
JoinUnchecked(t) ==
    /\ At(t, "join")
    /\ call' = [call EXCEPT ![t].joined = TRUE, ![t].pc = "settle"]
    /\ UNCHANGED <<lock, table, started, process, writer>>

\* Mutant: the join has no timeout.
JoinForever(t) ==
    /\ At(t, "join") /\ Joined(call[t].id)
    /\ call' = [call EXCEPT ![t].joined = TRUE, ![t].pc = "settle"]
    /\ UNCHANGED <<lock, table, started, process, writer>>

Join(t) ==
    /\ At(t, "join")
    /\ call' = [call EXCEPT ![t].joined = Joined(call[t].id), ![t].pc = "settle"]
    /\ UNCHANGED <<lock, table, started, process, writer>>

\* Mutant: the playback is forgotten in any case.
SettleAlways(t) ==
    /\ At(t, "settle") /\ Release
    /\ table' = table \ {call[t].id}
    /\ IF call[t].op = "play" THEN Return(t, "error")
       ELSE CancelReturns(t, call[t].killed /\ call[t].joined)
    /\ UNCHANGED <<started, process, writer>>

\* What could not be ended keeps its place in the table.
Settle(t) ==
    /\ At(t, "settle") /\ Release
    /\ LET ok == call[t].killed /\ call[t].joined
       IN  /\ table' = IF ok THEN table \ {call[t].id} ELSE table
           /\ IF call[t].op = "play" THEN Return(t, "error") ELSE CancelReturns(t, ok)
    /\ UNCHANGED <<started, process, writer>>

-----------------------------------------------------------------------------
(* The children and their writers.                                         *)

\* pw-play finishes, or fails.
ProcessEnds(i) ==
    /\ process[i] = "alive" /\ process' = [process EXCEPT ![i] = "dead"]
    /\ UNCHANGED <<lock, table, started, writer, call>>

\* Everything was written, or the pipe broke.
WriterEnds(i) ==
    /\ writer[i] = "running" /\ writer' = [writer EXCEPT ![i] = "done"]
    /\ UNCHANGED <<lock, table, started, process, call>>

Step(t) ==
    \/ Reap(t) \/ Refuse(t) \/ Spawn(t) \/ CloseNext(t) \/ CloseReturns(t)
    \/ Poll(t) \/ Stale(t) \/ Terminate(t) \/ Join(t) \/ Settle(t)

Next ==
    \/ \E t \in Threads : Step(t) \/ Play(t) \/ Close(t) \/ \E i \in Ids : Cancel(t, i)
    \/ \E i \in Ids : ProcessEnds(i) \/ WriterEnds(i)

Spec == Init /\ [][Next]_vars

\* A thread inside a call runs on: every wait in it has a timeout.
FairSpec == Spec /\ \A t \in Threads : WF_vars(Step(t))

-----------------------------------------------------------------------------
(* Properties.                                                             *)

\* Every variable keeps its type.
TypeOK ==
    /\ lock \in Threads \cup {Nobody} /\ table \subseteq Ids /\ started \in 0..MaxPlays
    /\ process \in [Ids -> {"none", "alive", "dead"}]
    /\ writer \in [Ids -> {"none", "running", "done"}]
    /\ call \in [Threads -> Call]

\* The player never loses a process: whatever cancellation, reap or cleanup
\* fails, a pw-play that still runs is in the table, where a later cancel,
\* close or the limit of active playbacks finds it.
NoOrphan == \A i \in Ids : process[i] = "alive" => i \in table

\* Never more than max_active_playbacks entries, and so processes, at once.
Bounded == Cardinality(table) <= MaxActive

\* A cancel that reports success ended both the process and its writer.
CancelTruthful ==
    \A t \in Threads : call[t].result = "cancelled" =>
        Dead(call[t].id) /\ Joined(call[t].id) /\ call[t].id \notin table

\* A close() that raises nothing ended every playback it had listed.
CloseTruthful ==
    \A t \in Threads : call[t].result = "closed" =>
        \A i \in call[t].own : Dead(i) /\ Joined(i)

\* Nobody is told that a playback is over which is not.
Truthful == CancelTruthful /\ CloseTruthful

\* Whoever holds the lock lets it go, also when a process or a writer never
\* ends: a stuck pw-play cannot lock the plugin up.
LockIsReleased == lock # Nobody ~> lock = Nobody
=============================================================================
