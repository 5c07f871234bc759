------------------------------ MODULE CodingTasks ------------------------------
(***************************************************************************)
(* Symbolic task state: the plugin keeps one session, the session one      *)
(* Prolog process, the process the tasks.  Tool calls run on threads of    *)
(* their own: each picks the session up first and sends its command later, *)
(* one command at a time.  A session whose process is lost is of no more   *)
(* use; a session that was stopped starts a new process when it is asked.  *)
(***************************************************************************)
EXTENDS Naturals, Sequences, FiniteSets

CONSTANTS
    Tasks, Kinds,   \* task ids, kinds of evidence
    Callers,        \* tool calls that may run at once
    MaxTasks,       \* max_tasks
    MaxEvidence,    \* max_evidence_per_task
    MaxStarts       \* bound: starts of the plugin

VARIABLES
    plugin,   \* "stopped", "degraded" or "ready"
    starts,   \* starts so far; the n-th start makes session n
    process,  \* process[s]: the child of session s
    tasks,    \* tasks[s]: what that process knows
    caller    \* caller[c]: the session a call has picked up, 0 if there is none

vars == <<plugin, starts, process, tasks, caller>>

Sessions == 1..MaxStarts
Evidence == [kind : Kinds, status : {"passed", "failed"}]
Task == [state : {"absent", "open", "completed"}, dependencies : SUBSET Tasks, evidence : Seq(Evidence)]
NoTask == [state |-> "absent", dependencies |-> {}, evidence |-> <<>>]
NoTasks == [t \in Tasks |-> NoTask]

TypeOK ==
    /\ plugin \in {"stopped", "degraded", "ready"} /\ starts \in 0..MaxStarts
    /\ process \in [Sessions -> {"none", "alive", "dead"}]
    /\ tasks \in [Sessions -> [Tasks -> Task]]
    /\ caller \in [Callers -> 0..MaxStarts]
    /\ \A s \in Sessions : /\ Cardinality({t \in Tasks : tasks[s][t] # NoTask}) <= MaxTasks
                           /\ \A t \in Tasks : Len(tasks[s][t].evidence) <= MaxEvidence

Init ==
    /\ plugin = "stopped" /\ starts = 0
    /\ process = [s \in Sessions |-> "none"] /\ tasks = [s \in Sessions |-> NoTasks]
    /\ caller = [c \in Callers |-> 0]

-----------------------------------------------------------------------------
(* The Prolog program: what a command makes of the tasks.                  *)

Known(db) == {t \in Tasks : db[t].state # "absent"}

Created(db, t, dependencies) ==
    IF t \in Known(db) \/ Cardinality(Known(db)) >= MaxTasks THEN db
    ELSE [db EXCEPT ![t] = [state |-> "open", dependencies |-> dependencies, evidence |-> <<>>]]

\* Mutant: evidence of a completed task is taken.
RecordedLate(db, t, e) ==
    IF t \notin Known(db) \/ Len(db[t].evidence) >= MaxEvidence THEN db
    ELSE [db EXCEPT ![t].evidence = Append(@, e)]

\* Mutant: one piece of evidence over the limit.
RecordedOneMore(db, t, e) ==
    IF db[t].state # "open" \/ Len(db[t].evidence) > MaxEvidence THEN db
    ELSE [db EXCEPT ![t].evidence = Append(@, e)]

Recorded(db, t, e) ==
    IF db[t].state # "open" \/ Len(db[t].evidence) >= MaxEvidence THEN db
    ELSE [db EXCEPT ![t].evidence = Append(@, e)]

\* latest_evidence_status
Latest(list, kind) ==
    LET Same(e) == e.kind = kind
        own == SelectSeq(list, Same)
    IN  own[Len(own)].status

\* passing_evidence: some, and of no kind is the latest a failure.
Passing(list) ==
    list # <<>> /\ \A i \in DOMAIN list : Latest(list, list[i].kind) # "failed"

Completed(db, t) ==
    IF /\ db[t].state = "open"
       /\ \A d \in db[t].dependencies : db[d].state = "completed"
       /\ Passing(db[t].evidence)
    THEN [db EXCEPT ![t].state = "completed"] ELSE db

\* What one command may make of db: create, record_evidence, complete, or a read.
Commanded(db) ==
    {db} \cup {Created(db, t, d) : t \in Tasks, d \in SUBSET Tasks}
         \cup {Recorded(db, t, e) : t \in Tasks, e \in Evidence}
         \cup {Completed(db, t) : t \in Tasks}

-----------------------------------------------------------------------------
(* The plugin and its session.                                             *)

\* start: without a checkout, an executable or a ready driver it is degraded.
Start ==
    /\ plugin = "stopped" /\ starts < MaxStarts /\ starts' = starts + 1
    /\ \/ plugin' = "degraded" /\ UNCHANGED process
       \/ plugin' = "ready" /\ process' = [process EXCEPT ![starts + 1] = "alive"]
    /\ UNCHANGED <<tasks, caller>>

\* stop: the session's process is terminated.
Stop ==
    /\ plugin # "stopped" /\ plugin' = "stopped"
    /\ process' = [process EXCEPT ![starts] = "none"]
    /\ tasks' = [tasks EXCEPT ![starts] = NoTasks]
    /\ UNCHANGED <<starts, caller>>

\* _require_task_state
Enter(c) ==
    /\ caller[c] = 0 /\ plugin = "ready" /\ caller' = [caller EXCEPT ![c] = starts]
    /\ UNCHANGED <<plugin, starts, process, tasks>>

\* _request, under the session's lock: the process is started if there is none, and the
\* command answered; or the protocol fails, and the process is terminated.
Request(c) ==
    LET s == caller[c]
    IN  /\ s # 0 /\ caller' = [caller EXCEPT ![c] = 0]
        /\ \/ process[s] = "dead" /\ UNCHANGED <<process, tasks>>
           \/ process[s] = "none" /\ UNCHANGED <<process, tasks>>
           \/ /\ process[s] # "dead" /\ process' = [process EXCEPT ![s] = "alive"]
              /\ \E db \in Commanded(tasks[s]) : tasks' = [tasks EXCEPT ![s] = db]
           \/ /\ process[s] # "dead" /\ process' = [process EXCEPT ![s] = "dead"]
              /\ tasks' = [tasks EXCEPT ![s] = NoTasks]
        /\ UNCHANGED <<plugin, starts>>

Die(s) ==
    /\ process[s] = "alive" /\ process' = [process EXCEPT ![s] = "dead"]
    /\ tasks' = [tasks EXCEPT ![s] = NoTasks] /\ UNCHANGED <<plugin, starts, caller>>

Next ==
    \/ Start \/ Stop
    \/ \E c \in Callers : Enter(c) \/ Request(c)
    \/ \E s \in Sessions : Die(s)

Spec == Init /\ [][Next]_vars

-----------------------------------------------------------------------------
(* Properties.                                                             *)

\* Whatever the order of commands, a completed task has verification evidence of which
\* every kind passed last, and depends on completed tasks only.
CompletedIsVerified ==
    \A s \in Sessions, t \in Tasks : tasks[s][t].state = "completed" =>
        /\ Passing(tasks[s][t].evidence)
        /\ \A d \in tasks[s][t].dependencies : tasks[s][d].state = "completed"

\* README: the task state "is deterministically terminated when the plugin stops".
TerminatedWithPlugin == plugin = "stopped" => \A s \in Sessions : process[s] # "alive"
=============================================================================
