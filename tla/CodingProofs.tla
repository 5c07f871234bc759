------------------------------ MODULE CodingProofs ------------------------------
(***************************************************************************)
(* The coding plugin's parts of MCPlugins, for any callers, tasks,         *)
(* branches, heads, people and bounds: each part's inductive invariant,    *)
(* one lemma for what each of its steps does to it, and the theorem that   *)
(* the property of the part holds of every behaviour.                      *)
(***************************************************************************)
EXTENDS MCPlugins, SequenceTheorems, FiniteSetTheorems, TLAPS

-----------------------------------------------------------------------------
(* Task state: what the Prolog program keeps true of its tasks.            *)

Databases == [Tasks -> T!Task]

\* What the Prolog program keeps true of its tasks.
Verified(db) ==
    \A t \in Tasks : db[t].state = "completed" =>
        /\ T!Passing(db[t].evidence)
        /\ \A d \in db[t].dependencies : db[d].state = "completed"

VerifiedDatabases == {db \in Databases : Verified(db)}

TInv == tasks \in [T!Sessions -> VerifiedDatabases]

-----------------------------------------------------------------------------
(* What a command makes of the tasks.                                      *)

LEMMA NoTasksVerified == T!NoTasks \in Databases /\ Verified(T!NoTasks)
<1>1. T!NoTask \in T!Task  BY DEF T!NoTask, T!Task
<1>2. T!NoTasks \in Databases  BY <1>1 DEF T!NoTasks, Databases
<1>3. \A t \in Tasks : T!NoTasks[t].state = "absent"  BY DEF T!NoTasks, T!NoTask
<1> QED BY <1>2, <1>3 DEF Verified

\* A task that was not completed may become anything that is not completed either.
LEMMA OpenTaskChanges ==
    ASSUME NEW db \in Databases, Verified(db), NEW t \in Tasks, db[t].state # "completed",
           NEW task \in T!Task, task.state # "completed"
    PROVE  /\ [db EXCEPT ![t] = task] \in Databases
           /\ Verified([db EXCEPT ![t] = task])
<1> DEFINE new == [db EXCEPT ![t] = task]
<1>1. new \in Databases  BY DEF Databases
<1>2. new[t] = task /\ \A u \in Tasks : u # t => new[u] = db[u]  BY DEF Databases
<1>3. \A u \in Tasks : db[u].dependencies \subseteq Tasks  BY DEF Databases, T!Task
<1> HIDE DEF new
<1>4. ASSUME NEW u \in Tasks, new[u].state = "completed"
      PROVE  /\ T!Passing(new[u].evidence)
             /\ \A d \in new[u].dependencies : new[d].state = "completed"
  <2>1. u # t /\ new[u] = db[u] /\ db[u].state = "completed"  BY <1>2, <1>4
  <2>2. T!Passing(db[u].evidence) /\ \A d \in db[u].dependencies : db[d].state = "completed"
    BY <2>1 DEF Verified
  <2>3. \A d \in db[u].dependencies : d # t /\ d \in Tasks  BY <1>3, <2>2
  <2> QED BY <1>2, <2>1, <2>2, <2>3
<1>5. Verified(new)  BY <1>4 DEF Verified
<1> QED BY <1>1, <1>5 DEF new

LEMMA CreatedVerified ==
    ASSUME NEW db \in Databases, Verified(db), NEW t \in Tasks, NEW deps \in SUBSET Tasks
    PROVE  T!Created(db, t, deps) \in Databases /\ Verified(T!Created(db, t, deps))
<1> DEFINE task == [state |-> "open", dependencies |-> deps, evidence |-> <<>>]
<1>1. task \in T!Task /\ task.state # "completed"  BY DEF T!Task
<1>2. CASE t \in T!Known(db) \/ T!Cardinality(T!Known(db)) >= MaxTasks  BY <1>2 DEF T!Created
<1>3. CASE ~(t \in T!Known(db) \/ T!Cardinality(T!Known(db)) >= MaxTasks)
  <2>1. db[t].state # "completed"  BY <1>3 DEF T!Known
  <2>2. T!Created(db, t, deps) = [db EXCEPT ![t] = task]  BY <1>3 DEF T!Created
  <2> HIDE DEF task
  <2> QED BY <1>1, <2>1, <2>2, OpenTaskChanges
<1> QED BY <1>2, <1>3

LEMMA RecordedVerified ==
    ASSUME NEW db \in Databases, Verified(db), NEW t \in Tasks, NEW e \in T!Evidence
    PROVE  T!Recorded(db, t, e) \in Databases /\ Verified(T!Recorded(db, t, e))
<1> DEFINE task == [db[t] EXCEPT !.evidence = Append(@, e)]
<1>1. CASE db[t].state # "open" \/ Len(db[t].evidence) >= MaxEvidence  BY <1>1 DEF T!Recorded
<1>2. CASE ~(db[t].state # "open" \/ Len(db[t].evidence) >= MaxEvidence)
  <2>1. db[t] \in T!Task /\ db[t].state = "open"  BY <1>2 DEF Databases
  <2>2. Append(db[t].evidence, e) \in Seq(T!Evidence)  BY <2>1 DEF T!Task
  <2>3. task \in T!Task /\ task.state = "open"  BY <2>1, <2>2 DEF T!Task
  <2>4. T!Recorded(db, t, e) = [db EXCEPT ![t] = task]  BY <1>2 DEF T!Recorded, Databases
  <2> HIDE DEF task
  <2> QED BY <2>1, <2>3, <2>4, OpenTaskChanges
<1> QED BY <1>1, <1>2

\* complete asks for evidence that passes and for dependencies that are completed.
LEMMA CompletedVerified ==
    ASSUME NEW db \in Databases, Verified(db), NEW t \in Tasks
    PROVE  T!Completed(db, t) \in Databases /\ Verified(T!Completed(db, t))
<1> DEFINE ready == /\ db[t].state = "open"
                    /\ \A d \in db[t].dependencies : db[d].state = "completed"
                    /\ T!Passing(db[t].evidence)
           new == T!Completed(db, t)
<1>1. CASE ~ready  BY <1>1 DEF T!Completed
<1>2. CASE ready
  <2>1. new = [db EXCEPT ![t].state = "completed"]  BY <1>2 DEF T!Completed
  <2>2. db[t] \in T!Task  BY DEF Databases
  <2>3. new \in Databases  BY <2>1, <2>2 DEF Databases, T!Task
  <2>4. /\ new[t].state = "completed" /\ new[t].evidence = db[t].evidence
        /\ new[t].dependencies = db[t].dependencies
        /\ \A u \in Tasks : u # t => new[u] = db[u]
    BY <2>1, <2>2 DEF Databases, T!Task
  <2>5. \A u \in Tasks : db[u].dependencies \subseteq Tasks  BY DEF Databases, T!Task
  <2> HIDE DEF new
  <2>6. \A u \in Tasks : db[u].state = "completed" => new[u].state = "completed"  BY <2>4
  <2>7. ASSUME NEW u \in Tasks, new[u].state = "completed"
        PROVE  /\ T!Passing(new[u].evidence)
               /\ \A d \in new[u].dependencies : new[d].state = "completed"
    <3>1. /\ new[u].evidence = db[u].evidence /\ new[u].dependencies = db[u].dependencies
          /\ T!Passing(db[u].evidence)
          /\ \A d \in db[u].dependencies : db[d].state = "completed"
      BY <1>2, <2>4, <2>7 DEF Verified
    <3> QED BY <2>5, <2>6, <3>1
  <2> QED BY <2>3, <2>7 DEF Verified, new
<1> QED BY <1>1, <1>2

LEMMA CommandVerified ==
    ASSUME NEW db \in Databases, Verified(db), NEW new \in T!Commanded(db)
    PROVE  new \in Databases /\ Verified(new)
BY CreatedVerified, RecordedVerified, CompletedVerified DEF T!Commanded

-----------------------------------------------------------------------------
(* The steps of the plugin.                                                *)

\* The tasks of one session become other verified tasks.
LEMMA SessionChanges ==
    ASSUME TInv, NEW s, NEW db, s \in T!Sessions => db \in Databases /\ Verified(db),
           tasks' = [tasks EXCEPT ![s] = db]
    PROVE  TInv'
<1>1. s \in T!Sessions => db \in VerifiedDatabases  BY DEF VerifiedDatabases
<1>2. tasks' \in [T!Sessions -> VerifiedDatabases]  BY <1>1 DEF TInv
<1> QED BY <1>2 DEF TInv

LEMMA TasksUnchanged == ASSUME TInv, UNCHANGED tasks  PROVE TInv'
BY DEF TInv

LEMMA TasksInit == ASSUME T!Init  PROVE TInv
BY NoTasksVerified DEF T!Init, TInv, VerifiedDatabases

LEMMA TaskRequested == ASSUME TInv, NEW c \in CodingCallers, T!Request(c)  PROVE TInv'
<1> DEFINE s == caller[c]
<1>1. CASE UNCHANGED tasks  BY <1>1, TasksUnchanged
<1>2. ASSUME NEW db \in T!Commanded(tasks[s]), tasks' = [tasks EXCEPT ![s] = db]  PROVE TInv'
  <2>1. s \in T!Sessions => db \in Databases /\ Verified(db)  BY CommandVerified DEF TInv, VerifiedDatabases
  <2> HIDE DEF s
  <2> QED BY <1>2, <2>1, SessionChanges
<1>3. CASE tasks' = [tasks EXCEPT ![s] = T!NoTasks]
  <2> HIDE DEF s
  <2> QED BY <1>3, NoTasksVerified, SessionChanges
<1> QED BY <1>1, <1>2, <1>3 DEF T!Request

LEMMA TasksStep == ASSUME TInv, [T!Next]_T!vars  PROVE TInv'
<1>1. CASE T!Start  BY <1>1, TasksUnchanged DEF T!Start
<1>2. CASE T!Stop
  <2>1. tasks' = [tasks EXCEPT ![starts] = T!NoTasks]  BY <1>2 DEF T!Stop
  <2> QED BY <2>1, NoTasksVerified, SessionChanges
<1>3. ASSUME NEW c \in CodingCallers, T!Enter(c)  PROVE TInv'  BY <1>3, TasksUnchanged DEF T!Enter
<1>4. ASSUME NEW c \in CodingCallers, T!Request(c)  PROVE TInv'  BY <1>4, TaskRequested
<1>5. ASSUME NEW s \in T!Sessions, T!Die(s)  PROVE TInv'
  <2>1. tasks' = [tasks EXCEPT ![s] = T!NoTasks]  BY <1>5 DEF T!Die
  <2> QED BY <2>1, NoTasksVerified, SessionChanges
<1>6. CASE UNCHANGED T!vars  BY <1>6, TasksUnchanged DEF T!vars
<1> QED BY <1>1, <1>2, <1>3, <1>4, <1>5, <1>6 DEF T!Next

-----------------------------------------------------------------------------
(* Task state: its types and limits.                                       *)

\* What the Prolog program keeps of its limits.
Limited(db) ==
    /\ \A t \in Tasks : db[t].state = "absent" => db[t] = T!NoTask
    /\ IsFiniteSet(T!Known(db)) /\ Cardinality(T!Known(db)) <= MaxTasks
    /\ \A t \in Tasks : Len(db[t].evidence) <= MaxEvidence

\* What the plugin, its sessions and its calls are.
SessionsTyped ==
    /\ plugin \in {"stopped", "degraded", "ready"} /\ starts \in 0..MaxStarts
    /\ process \in [T!Sessions -> {"none", "alive", "dead"}]
    /\ caller \in [CodingCallers -> 0..MaxStarts]

TaskInv == TInv /\ SessionsTyped /\ \A s \in T!Sessions : Limited(tasks[s])

LEMMA SameCardinality == ASSUME NEW known  PROVE T!Cardinality(known) = Cardinality(known)
BY DEF T!Cardinality, Cardinality

LEMMA NoTasksLimited == Limited(T!NoTasks)
<1>1. \A t \in Tasks : T!NoTasks[t] = T!NoTask /\ T!NoTask.state = "absent" /\ T!NoTask.evidence = <<>>
  BY DEF T!NoTasks, T!NoTask
<1>2. T!Known(T!NoTasks) = {}
  BY <1>1 DEF T!Known
<1>3. IsFiniteSet(T!Known(T!NoTasks)) /\ Cardinality(T!Known(T!NoTasks)) = 0
  BY <1>2, FS_EmptySet
<1>4. \A t \in Tasks : Len(T!NoTasks[t].evidence) = 0
  BY <1>1
<1> QED BY <1>1, <1>3, <1>4, PluginsAssumption DEF Limited

\* One more task is within the limit if there was room.
LEMMA CreatedLimited ==
    ASSUME NEW db \in Databases, Limited(db), NEW t \in Tasks, NEW deps \in SUBSET Tasks
    PROVE  Limited(T!Created(db, t, deps))
<1> DEFINE task == [state |-> "open", dependencies |-> deps, evidence |-> <<>>]
           new == [db EXCEPT ![t] = task]
           full == t \in T!Known(db) \/ T!Cardinality(T!Known(db)) >= MaxTasks
<1>1. CASE full
  BY <1>1 DEF T!Created
<1>2. CASE ~full
  <2>1. T!Created(db, t, deps) = new
    BY <1>2 DEF T!Created
  <2>2. new[t] = task /\ \A u \in Tasks : u # t => new[u] = db[u]
    BY DEF Databases
  <2>3. task.state = "open" /\ Len(task.evidence) = 0
    OBVIOUS
  <2> HIDE DEF task, new
  <2>4. T!Known(new) = T!Known(db) \cup {t}
    BY <2>2, <2>3 DEF T!Known
  <2>5. t \notin T!Known(db) /\ Cardinality(T!Known(db)) \in Nat /\ Cardinality(T!Known(db)) < MaxTasks
    <3>1. IsFiniteSet(T!Known(db)) /\ Cardinality(T!Known(db)) \in Nat
      BY FS_CardinalityType DEF Limited
    <3> QED BY <1>2, <3>1, SameCardinality, PluginsAssumption
  <2>6. IsFiniteSet(T!Known(new)) /\ Cardinality(T!Known(new)) = Cardinality(T!Known(db)) + 1
    BY <2>4, <2>5, FS_AddElement DEF Limited
  <2>7. Cardinality(T!Known(new)) <= MaxTasks
    BY <2>5, <2>6, PluginsAssumption
  <2>8. \A u \in Tasks : Len(new[u].evidence) <= MaxEvidence
    BY <2>2, <2>3, PluginsAssumption DEF Limited
  <2>9. \A u \in Tasks : new[u].state = "absent" => new[u] = T!NoTask
    BY <2>2, <2>3 DEF Limited
  <2> QED BY <2>1, <2>6, <2>7, <2>8, <2>9 DEF Limited
<1> QED BY <1>1, <1>2

\* Another state or more evidence for a task that is known.
LEMMA KnownTaskLimited ==
    ASSUME NEW db \in Databases, Limited(db), NEW t \in Tasks, NEW task,
           db[t].state # "absent", task.state # "absent", Len(task.evidence) <= MaxEvidence
    PROVE  Limited([db EXCEPT ![t] = task])
<1> DEFINE new == [db EXCEPT ![t] = task]
<1>1. new[t] = task /\ \A u \in Tasks : u # t => new[u] = db[u]
  BY DEF Databases
<1> HIDE DEF new
<1>2. T!Known(new) = T!Known(db)
  BY <1>1 DEF T!Known
<1>3. Limited(new)
  BY <1>1, <1>2 DEF Limited
<1> QED BY <1>3 DEF new

LEMMA CommandLimited ==
    ASSUME NEW db \in Databases, Limited(db), NEW new \in T!Commanded(db)
    PROVE  Limited(new)
<1>1. ASSUME NEW t \in Tasks, NEW e \in T!Evidence  PROVE Limited(T!Recorded(db, t, e))
  <2> DEFINE task == [db[t] EXCEPT !.evidence = Append(@, e)]
  <2>1. CASE db[t].state # "open" \/ Len(db[t].evidence) >= MaxEvidence
    BY <2>1 DEF T!Recorded
  <2>2. CASE ~(db[t].state # "open" \/ Len(db[t].evidence) >= MaxEvidence)
    <3>1. T!Recorded(db, t, e) = [db EXCEPT ![t] = task]
      BY <2>2 DEF T!Recorded, Databases
    <3>2. db[t] \in T!Task /\ db[t].state = "open"
      BY <2>2 DEF Databases
    <3>3. db[t].evidence \in Seq(T!Evidence) /\ task.state = "open" /\ task.evidence = Append(db[t].evidence, e)
      BY <3>2 DEF T!Task
    <3>4. Len(task.evidence) = Len(db[t].evidence) + 1 /\ Len(db[t].evidence) \in Nat
      BY <3>3
    <3>5. Len(task.evidence) <= MaxEvidence
      BY <2>2, <3>4, PluginsAssumption
    <3>6. db[t].state # "absent" /\ task.state # "absent"
      BY <3>2, <3>3
    <3> HIDE DEF task
    <3>7. Limited([db EXCEPT ![t] = task])
      BY <3>5, <3>6, KnownTaskLimited, Zenon
    <3> QED BY <3>1, <3>7
  <2> QED BY <2>1, <2>2
<1>2. ASSUME NEW t \in Tasks  PROVE Limited(T!Completed(db, t))
  <2> DEFINE task == [db[t] EXCEPT !.state = "completed"]
             done == [db EXCEPT ![t].state = "completed"]
  <2>1. CASE T!Completed(db, t) = db
    BY <2>1
  <2>2. CASE db[t].state = "open" /\ T!Completed(db, t) = done
    <3>1. done = [db EXCEPT ![t] = task]
      BY DEF Databases
    <3>2. db[t] \in T!Task
      BY DEF Databases
    <3>3. task.state = "completed" /\ task.evidence = db[t].evidence
      BY <3>2 DEF T!Task
    <3>4. Len(task.evidence) <= MaxEvidence
      BY <3>3 DEF Limited
    <3>5. db[t].state # "absent" /\ task.state # "absent"
      BY <2>2, <3>3
    <3> HIDE DEF task, done
    <3>6. Limited([db EXCEPT ![t] = task])
      BY <3>4, <3>5, KnownTaskLimited, Zenon
    <3> QED BY <2>2, <3>1, <3>6
  <2> QED BY <2>1, <2>2 DEF T!Completed
<1> QED BY <1>1, <1>2, CreatedLimited DEF T!Commanded

LEMMA LimitsUnchanged ==
    ASSUME TaskInv, TInv', SessionsTyped', UNCHANGED tasks  PROVE TaskInv'
BY DEF TaskInv, Limited, T!Known, T!NoTask, T!Sessions

\* The tasks of one session become others within the limits.
LEMMA LimitsChange ==
    ASSUME TaskInv, TInv', SessionsTyped', NEW s, NEW db,
           s \in T!Sessions => Limited(db), tasks' = [tasks EXCEPT ![s] = db]
    PROVE  TaskInv'
<1>1. \A u \in T!Sessions : tasks'[u] = IF u = s THEN db ELSE tasks[u]
  BY DEF TaskInv, TInv
<1>2. \A u \in T!Sessions : Limited(tasks'[u])
  BY <1>1 DEF TaskInv
<1>3. \A u \in T!Sessions : Limited(tasks[u])'
  BY <1>2 DEF Limited, T!Known, T!NoTask
<1> QED BY <1>3 DEF TaskInv, T!Sessions

LEMMA LimitsInit == ASSUME T!Init  PROVE TaskInv
<1>1. \A s \in T!Sessions : tasks[s] = T!NoTasks
  BY DEF T!Init
<1>2. SessionsTyped
  BY PluginsAssumption DEF T!Init, SessionsTyped
<1> QED BY <1>1, <1>2, NoTasksLimited, TasksInit DEF TaskInv

LEMMA LimitsStep == ASSUME TaskInv, [T!Next]_T!vars  PROVE TaskInv'
<1>0. TInv /\ TInv' /\ SessionsTyped /\ MaxStarts \in Nat
  BY TasksStep, PluginsAssumption DEF TaskInv
<1>1. CASE T!Start
  <2>1. SessionsTyped'
    BY <1>0, <1>1 DEF T!Start, SessionsTyped, T!Sessions
  <2> QED BY <1>0, <1>1, <2>1, LimitsUnchanged DEF T!Start
<1>2. CASE T!Stop
  <2>1. SessionsTyped'
    BY <1>0, <1>2 DEF T!Stop, SessionsTyped, T!Sessions
  <2>2. tasks' = [tasks EXCEPT ![starts] = T!NoTasks]
    BY <1>2 DEF T!Stop
  <2> QED BY <1>0, <2>1, <2>2, NoTasksLimited, LimitsChange
<1>3. ASSUME NEW c \in CodingCallers, T!Enter(c)  PROVE TaskInv'
  <2>1. SessionsTyped'
    BY <1>0, <1>3 DEF T!Enter, SessionsTyped, T!Sessions
  <2> QED BY <1>0, <1>3, <2>1, LimitsUnchanged DEF T!Enter
<1>4. ASSUME NEW c \in CodingCallers, T!Request(c)  PROVE TaskInv'
  <2> DEFINE s == caller[c]
  <2>1. SessionsTyped'
    <3>1. s \in 0..MaxStarts /\ caller' \in [CodingCallers -> 0..MaxStarts]
      BY <1>0, <1>4 DEF T!Request, SessionsTyped
    <3>2. process' \in [T!Sessions -> {"none", "alive", "dead"}]
      BY <1>0, <1>4 DEF T!Request, SessionsTyped
    <3> QED BY <1>0, <1>4, <3>1, <3>2 DEF T!Request, SessionsTyped, T!Sessions
  <2>2. CASE UNCHANGED tasks
    BY <1>0, <2>1, <2>2, LimitsUnchanged
  <2>3. ASSUME NEW db \in T!Commanded(tasks[s]), tasks' = [tasks EXCEPT ![s] = db]  PROVE TaskInv'
    <3>1. s \in T!Sessions => tasks[s] \in Databases /\ Limited(tasks[s])
      BY DEF TaskInv, TInv, VerifiedDatabases
    <3>2. s \in T!Sessions => Limited(db)
      BY <3>1, CommandLimited
    <3> HIDE DEF s
    <3> QED BY <1>0, <2>1, <2>3, <3>2, LimitsChange
  <2>4. CASE tasks' = [tasks EXCEPT ![s] = T!NoTasks]
    <3> HIDE DEF s
    <3> QED BY <1>0, <2>1, <2>4, NoTasksLimited, LimitsChange
  <2> QED BY <1>4, <2>2, <2>3, <2>4 DEF T!Request
<1>5. ASSUME NEW s \in T!Sessions, T!Die(s)  PROVE TaskInv'
  <2>1. SessionsTyped'
    BY <1>0, <1>5 DEF T!Die, SessionsTyped, T!Sessions
  <2>2. tasks' = [tasks EXCEPT ![s] = T!NoTasks]
    BY <1>5 DEF T!Die
  <2> QED BY <1>0, <2>1, <2>2, NoTasksLimited, LimitsChange
<1>6. CASE UNCHANGED T!vars
  <2>1. SessionsTyped'
    BY <1>0, <1>6 DEF T!vars, SessionsTyped, T!Sessions
  <2> QED BY <1>0, <1>6, <2>1, LimitsUnchanged DEF T!vars
<1> QED BY <1>1, <1>2, <1>3, <1>4, <1>5, <1>6 DEF T!Next

LEMMA TasksTyped == TaskInv => T!TypeOK
<1> SUFFICES ASSUME TaskInv  PROVE T!TypeOK
  OBVIOUS
<1>1. tasks \in [T!Sessions -> [Tasks -> T!Task]]
  BY DEF TaskInv, TInv, VerifiedDatabases, Databases
<1>2. ASSUME NEW s \in T!Sessions
      PROVE  /\ T!Cardinality({t \in Tasks : tasks[s][t] # T!NoTask}) <= MaxTasks
             /\ \A t \in Tasks : Len(tasks[s][t].evidence) <= MaxEvidence
  <2>1. Limited(tasks[s])
    BY DEF TaskInv
  <2>2. T!NoTask.state = "absent"
    BY DEF T!NoTask
  <2>3. {t \in Tasks : tasks[s][t] # T!NoTask} = T!Known(tasks[s])
    BY <2>1, <2>2 DEF Limited, T!Known
  <2> QED BY <2>1, <2>3, SameCardinality DEF Limited
<1> QED BY <1>1, <1>2 DEF TaskInv, SessionsTyped, T!TypeOK

LEMMA TasksKept == MCSpec => [](part = "tasks" => TaskInv)
<1> DEFINE Inv == part = "tasks" => TaskInv
<1>1. MCInit => Inv
  BY LimitsInit DEF MCInit
<1>2. Inv /\ [MCNext]_mcVars => Inv'
  <2> SUFFICES ASSUME Inv, [MCNext]_mcVars, part' = "tasks"  PROVE TaskInv'
    OBVIOUS
  <2>1. TaskInv /\ [T!Next]_T!vars
    BY DEF MCNext, mcVars, tasksVars, T!vars
  <2> QED BY <2>1, LimitsStep
<1> QED BY <1>1, <1>2, PTL DEF MCSpec

\* For any tasks, evidence, callers and limits: whatever commands are answered, sessions
\* stopped and processes lost, a task that the Prolog program of zara-coding calls completed
\* has passing evidence and completed dependencies.
THEOREM CompletedStaysVerified == MCSpec => []CompletedIsVerified
<1>1. (part = "tasks" => TaskInv) => CompletedIsVerified
  BY DEF TaskInv, TInv, VerifiedDatabases, Verified, CompletedIsVerified, T!CompletedIsVerified
<1> QED BY <1>1, TasksKept, PTL

-----------------------------------------------------------------------------
(* Branches and commits: what a call has seen when it writes a reference.  *)

CallStates == [at : {"idle", "listed", "attached", "current", "written"},
               branch : Branches \cup B!Ids, expected : 0..MaxCommits, tree : B!Staging]
CommitStates == [up : SUBSET B!Ids, parent : 0..MaxCommits, from : B!Ids]

\* What a call has to go on with.
Ready(state, n) ==
    /\ state.expected <= n
    /\ state.at # "idle" => state.branch \in Branches /\ state.expected # 0
    /\ state.at = "written" => state.tree.base # 0

\* What is a tip, or expected, is a commit that was made.
KnownCommits ==
    /\ \A b \in Branches : tips[b] <= Len(commits)
    /\ \A c \in CodingCallers : Ready(refCall[c], Len(commits))
    /\ index.base # 0
    /\ head \in Branches \/ head <= Len(commits)
    /\ \A n \in DOMAIN commits : n \in commits[n].up

BInv == B!TypeOK /\ KnownCommits /\ B!NoLostCommit

LEMMA IdleTypes == B!Idle \in CallStates /\ B!Idle.at = "idle" /\ B!Idle.expected = 0
<1>1. (CHOOSE b \in Branches : TRUE) \in Branches
  BY PluginsAssumption
<1> QED BY <1>1, PluginsAssumption DEF B!Idle, B!Staging, CallStates

LEMMA BranchesInit == B!Init => BInv
<1> SUFFICES ASSUME B!Init  PROVE BInv
  OBVIOUS
<1>a. commits \in Seq(CommitStates) /\ Len(commits) = 1 /\ DOMAIN commits = {1} /\ commits[1].up = {1}
  BY PluginsAssumption DEF B!Init, CommitStates, B!Ids
<1>2. B!TypeOK
  <2>2. index \in B!Staging
    BY PluginsAssumption DEF B!Init, B!Staging
  <2>3. refCall \in [CodingCallers -> CallStates]
    BY IdleTypes DEF B!Init
  <2> QED BY <1>a, <2>2, <2>3, PluginsAssumption DEF B!Init, B!TypeOK, CommitStates, CallStates, B!Ids
<1>3. KnownCommits
  <2>1. \A c \in CodingCallers : Ready(refCall[c], Len(commits))
    BY <1>a, IdleTypes DEF B!Init, Ready
  <2> QED BY <1>a, <2>1 DEF B!Init, KnownCommits
<1>4. B!NoLostCommit
  BY <1>a DEF B!Init, B!NoLostCommit
<1> QED BY <1>2, <1>3, <1>4 DEF BInv

\* A step that moves no ref and makes no commit keeps what it has if its calls are in order.
LEMMA CallsKeep ==
    ASSUME BInv, NEW c \in CodingCallers, NEW new \in CallStates, UNCHANGED <<tips, head, index, commits, published, dropped>>,
           refCall' = [refCall EXCEPT ![c] = new], Ready(new, Len(commits))
    PROVE  BInv'
<1>1. B!TypeOK'
  BY DEF BInv, B!TypeOK, CallStates
<1>2. KnownCommits'
  <2>1. \A d \in CodingCallers : refCall'[d] = IF d = c THEN new ELSE refCall[d]
    BY DEF BInv, B!TypeOK
  <2> QED BY <2>1 DEF BInv, KnownCommits, Ready
<1>3. B!NoLostCommit'
  BY DEF BInv, B!NoLostCommit
<1> QED BY <1>1, <1>2, <1>3 DEF BInv

LEMMA EndKeeps ==
    ASSUME BInv, NEW c \in CodingCallers, B!End(c), UNCHANGED <<tips, head, index, commits, published, dropped>>
    PROVE  BInv'
<1>1. Len(commits) \in Nat
  BY DEF BInv, B!TypeOK
<1>2. Ready(B!Idle, Len(commits))
  BY IdleTypes, <1>1 DEF Ready
<1> QED BY <1>2, IdleTypes, CallsKeep DEF B!End

\* A commit on a commit that was made is in order.
LEMMA MadeTypes ==
    ASSUME BInv, NEW p \in 1..Len(commits), NEW t \in B!Staging, t.base # 0, B!Fresh <= MaxCommits, commits' = B!Made(p, t)
    PROVE  /\ commits' \in Seq(CommitStates) /\ Len(commits') = Len(commits) + 1
           /\ DOMAIN commits = 1..Len(commits) /\ DOMAIN commits' = 1..B!Fresh
           /\ \A n \in 1..Len(commits) : commits'[n] = commits[n]
           /\ commits'[B!Fresh].up = commits[p].up \cup {B!Fresh}
           /\ B!Fresh \in B!Ids
<1>1. commits \in Seq(CommitStates) /\ Len(commits) \in Nat /\ DOMAIN commits = 1..Len(commits)
  BY DEF BInv, B!TypeOK, CommitStates
<1> DEFINE m == [up |-> commits[p].up \cup {B!Fresh}, parent |-> p, from |-> t.base]
<1>2. commits[p] \in CommitStates
  BY <1>1
<1>3. B!Fresh \in B!Ids
  BY <1>1 DEF B!Fresh, B!Ids
<1>4. m \in CommitStates
  <2>1. t.base \in B!Ids /\ p \in 0..MaxCommits
    <3>1. Len(commits) <= MaxCommits /\ t.base \in 0..MaxCommits
      BY DEF BInv, B!TypeOK, B!Staging
    <3> QED BY <1>1, <3>1, PluginsAssumption DEF B!Ids
  <2> QED BY <2>1, <1>2, <1>3 DEF CommitStates
<1>5. commits' = Append(commits, m)
  BY DEF B!Made
<1> HIDE DEF m
<1>6. m.up = commits[p].up \cup {B!Fresh}
  BY DEF m
<1> QED BY <1>1, <1>3, <1>4, <1>5, <1>6, AppendProperties DEF B!Fresh

\* A branch at p goes on to a new commit on p.
LEMMA AdvanceKeeps ==
    ASSUME BInv, NEW b \in Branches, NEW t \in B!Staging, t.base # 0, B!Fresh <= MaxCommits, tips[b] # 0,
           commits' = B!Made(tips[b], t), tips' = [tips EXCEPT ![b] = B!Fresh],
           published' = published \cup {B!Fresh}, UNCHANGED <<head, dropped>>,
           index' \in B!Staging, index'.base # 0, refCall' \in [CodingCallers -> CallStates],
           \A c \in CodingCallers : refCall'[c] = refCall[c] \/ refCall'[c] = B!Idle
    PROVE  BInv'
<1>1. tips[b] \in 1..Len(commits) /\ Len(commits) \in Nat
  BY PluginsAssumption DEF BInv, B!TypeOK, KnownCommits
<1>2. /\ commits' \in Seq(CommitStates) /\ Len(commits') = Len(commits) + 1
      /\ DOMAIN commits = 1..Len(commits) /\ DOMAIN commits' = 1..B!Fresh
      /\ \A n \in 1..Len(commits) : commits'[n] = commits[n]
      /\ commits'[B!Fresh].up = commits[tips[b]].up \cup {B!Fresh}
      /\ B!Fresh \in B!Ids
  BY <1>1, MadeTypes
<1>3. B!TypeOK'
  BY <1>2 DEF BInv, B!TypeOK, CommitStates, CallStates, B!Fresh, B!Ids
<1>4. KnownCommits'
  <2>1. \A c \in Branches : tips'[c] <= Len(commits')
    BY <1>1, <1>2 DEF BInv, B!TypeOK, KnownCommits, B!Fresh
  <2>2. ASSUME NEW c \in CodingCallers  PROVE Ready(refCall'[c], Len(commits'))
    <3>1. Ready(refCall[c], Len(commits)) /\ refCall[c].expected \in 0..MaxCommits
      BY DEF BInv, KnownCommits, B!TypeOK
    <3>2. CASE refCall'[c] = refCall[c]
      BY <3>1, <3>2, <1>1, <1>2, PluginsAssumption DEF Ready
    <3>3. CASE refCall'[c] = B!Idle
      BY <3>3, <1>1, <1>2, IdleTypes DEF Ready
    <3> QED BY <3>2, <3>3
  <2>3. \A n \in DOMAIN commits' : n \in commits'[n].up
    <3>1. ASSUME NEW n \in 1..B!Fresh  PROVE n \in commits'[n].up
      <4>1. CASE n = B!Fresh
        BY <4>1, <1>2
      <4>2. CASE n # B!Fresh
        BY <4>2, <1>1, <1>2 DEF BInv, KnownCommits, B!Fresh
      <4> QED BY <4>1, <4>2
    <3> QED BY <3>1, <1>2
  <2>4. (head \in Branches \/ head <= Len(commits))'
    BY <1>1, <1>2, PluginsAssumption DEF BInv, KnownCommits, B!TypeOK, B!Ids
  <2>5. index'.base # 0
    OBVIOUS
  <2> QED BY <2>1, <2>2, <2>3, <2>4, <2>5 DEF KnownCommits
<1>5. B!NoLostCommit'
  <2>1. \A c \in Branches : tips'[c] = IF c = b THEN B!Fresh ELSE tips[c]
    BY DEF BInv, B!TypeOK
  <2>2. B!Fresh # 0
    BY <1>1 DEF B!Fresh
  <2>3. ASSUME NEW n \in published'
        PROVE  n \in dropped' \/ \E c \in Branches : tips'[c] # 0 /\ n \in commits'[tips'[c]].up
    <3>1. CASE n = B!Fresh
      BY <3>1, <1>2, <2>1, <2>2
    <3>2. CASE n \in dropped
      BY <3>2
    <3>3. CASE n # B!Fresh /\ n \notin dropped
      <4>1. PICK c \in Branches : tips[c] # 0 /\ n \in commits[tips[c]].up
        BY <3>3 DEF BInv, B!NoLostCommit
      <4>2. CASE c = b
        BY <4>1, <4>2, <1>2, <2>1, <2>2
      <4>3. CASE c # b
        <5>1. tips[c] \in 1..Len(commits)
          BY <4>1 DEF BInv, B!TypeOK, KnownCommits
        <5> QED BY <4>1, <4>3, <5>1, <1>2, <2>1
      <4> QED BY <4>2, <4>3
    <3> QED BY <3>1, <3>2, <3>3
  <2> QED BY <2>3 DEF B!NoLostCommit
<1> QED BY <1>3, <1>4, <1>5 DEF BInv

LEMMA BranchesStep == BInv /\ [B!Next]_B!vars => BInv'
<1> SUFFICES ASSUME BInv, [B!Next]_B!vars  PROVE BInv'
  OBVIOUS
<1>0. /\ Len(commits) \in Nat /\ DOMAIN commits = 1..Len(commits) /\ Len(commits) <= MaxCommits
      /\ refCall \in [CodingCallers -> CallStates] /\ index \in B!Staging /\ MaxCommits \in Nat
      /\ tips \in [Branches -> 0..MaxCommits]
  BY PluginsAssumption DEF BInv, B!TypeOK, CallStates
<1>1. CASE B!Stage
  <2>1. index' \in B!Staging /\ index'.base = index.base
    BY <1>1, <1>0 DEF B!Stage, B!Staging
  <2> QED BY <1>1, <2>1 DEF B!Stage, BInv, B!TypeOK, KnownCommits, Ready, B!NoLostCommit
<1>2. CASE B!Commit
  <2>1. index' \in B!Staging /\ index'.base # 0
    BY <1>2, <1>0 DEF B!Commit, B!Staging, B!Fresh
  <2> QED BY <1>2, <1>0, <2>1, AdvanceKeeps DEF B!Commit, B!Tip, BInv, KnownCommits
<1>3. ASSUME NEW h \in Branches \cup DOMAIN commits, B!Checkout(h)  PROVE BInv'
  <2>1. PICK tip \in 0..MaxCommits : tip # 0 /\ index' = [index EXCEPT !.base = tip]
    <3> DEFINE tip == IF h \in Branches THEN tips[h] ELSE h
    <3>1. tip # 0 /\ index' = [index EXCEPT !.base = tip]
      BY <1>3 DEF B!Checkout
    <3>2. tip \in 0..MaxCommits
      BY <1>0
    <3> QED BY <3>1, <3>2
  <2>2. index' \in B!Staging /\ index'.base # 0
    BY <2>1, <1>0 DEF B!Staging
  <2>3. B!TypeOK'
    BY <1>3, <1>0, <2>2 DEF B!Checkout, BInv, B!TypeOK, B!Ids
  <2>4. KnownCommits'
    BY <1>3, <1>0, <2>2 DEF B!Checkout, BInv, KnownCommits
  <2>5. B!NoLostCommit'
    BY <1>3 DEF B!Checkout, BInv, B!NoLostCommit
  <2> QED BY <2>3, <2>4, <2>5 DEF BInv
<1>4. ASSUME NEW b \in Branches, NEW e \in DOMAIN commits, B!CreateBranch(b, e)  PROVE BInv'
  <2>1. \A c \in Branches : tips'[c] = IF c = b THEN e ELSE tips[c]
    BY <1>4 DEF B!CreateBranch, BInv, B!TypeOK
  <2>2. B!TypeOK'
    BY <1>4, <1>0 DEF B!CreateBranch, BInv, B!TypeOK
  <2>3. KnownCommits'
    BY <1>4, <1>0, <2>1 DEF B!CreateBranch, BInv, KnownCommits, Ready
  <2>4. B!NoLostCommit'
    BY <1>4, <2>1 DEF B!CreateBranch, BInv, B!NoLostCommit
  <2> QED BY <2>2, <2>3, <2>4 DEF BInv
<1>5. ASSUME NEW c \in CodingCallers, B!Delete(c)  PROVE BInv'
  <2> DEFINE b == refCall[c].branch
             e == refCall[c].expected
  <2>0. b \in Branches /\ e \in 1..Len(commits)
    BY <1>5, <1>0 DEF B!Delete, BInv, KnownCommits, Ready, CallStates
  <2>1. CASE tips[b] = e
    <3> HIDE DEF b, e
    <3>0. /\ tips' = [tips EXCEPT ![b] = 0] /\ dropped' = dropped \cup commits[e].up /\ B!End(c)
          /\ UNCHANGED <<head, index, commits, published>>
      BY <1>5, <2>1 DEF B!Delete, b, e
    <3>1. \A d \in Branches : tips'[d] = IF d = b THEN 0 ELSE tips[d]
      BY <3>0 DEF BInv, B!TypeOK
    <3>a. \A d \in CodingCallers : refCall'[d] = IF d = c THEN B!Idle ELSE refCall[d]
      BY <3>0, <1>0 DEF B!End
    <3>b. commits[e].up \subseteq B!Ids
      <4>1. commits \in Seq(CommitStates)
        BY DEF BInv, B!TypeOK, CommitStates
      <4>2. commits[e] \in CommitStates
        BY <4>1, <2>0, ElementOfSeq
      <4> QED BY <4>2 DEF CommitStates
    <3>2. B!TypeOK'
      <4>1. refCall' \in [CodingCallers -> CallStates]
        BY <3>0, <1>0, IdleTypes DEF B!End
      <4>2. tips' \in [Branches -> 0..MaxCommits]
        <5>1. tips' = [tips EXCEPT ![b] = 0] /\ 0 \in 0..MaxCommits
          BY <3>0, <1>0
        <5> QED BY <5>1, <1>0
      <4>3. (published \cup dropped)' \subseteq B!Ids
        BY <3>0, <3>b DEF BInv, B!TypeOK
      <4> QED BY <3>0, <4>1, <4>2, <4>3 DEF BInv, B!TypeOK, CallStates
    <3>3. KnownCommits'
      BY <3>0, <3>1, <3>a, <1>0, IdleTypes DEF BInv, KnownCommits, Ready
    <3>4. B!NoLostCommit'
      BY <3>0, <3>1, <2>1 DEF BInv, B!NoLostCommit
    <3> QED BY <3>2, <3>3, <3>4 DEF BInv
  <2>2. CASE tips[b] # e
    BY <1>5, <2>2, EndKeeps DEF B!Delete
  <2> QED BY <2>1, <2>2
<1>6. ASSUME NEW c \in CodingCallers, B!Compare(c) \/ B!WriteTree(c) \/ B!Fail(c)  PROVE BInv'
  <2>1. CASE B!End(c)
    BY <1>6, <2>1, EndKeeps DEF B!Compare, B!WriteTree, B!Fail
  <2>2. CASE refCall[c].at = "attached" /\ B!Compare(c) /\ ~B!End(c)
    <3> DEFINE new == [refCall[c] EXCEPT !.at = "current"]
    <3>1. new \in CallStates /\ Ready(new, Len(commits)) /\ refCall' = [refCall EXCEPT ![c] = new]
      BY <2>2, <1>0 DEF B!Compare, BInv, KnownCommits, Ready, CallStates
    <3> QED BY <3>1, <2>2, CallsKeep DEF B!Compare
  <2>3. CASE B!WriteTree(c) /\ ~B!End(c)
    <3> DEFINE new == [refCall[c] EXCEPT !.at = "written", !.tree = index]
    <3>1. new \in CallStates /\ Ready(new, Len(commits)) /\ refCall' = [refCall EXCEPT ![c] = new]
      BY <2>3, <1>0 DEF B!WriteTree, BInv, KnownCommits, Ready, CallStates
    <3> QED BY <3>1, <2>3, CallsKeep DEF B!WriteTree
  <2> QED BY <1>6, <2>1, <2>2, <2>3 DEF B!Fail, B!Compare
<1>7. ASSUME NEW c \in CodingCallers, B!Update(c)  PROVE BInv'
  <2> DEFINE b == refCall[c].branch
             e == refCall[c].expected
  <2>0. b \in Branches /\ e \in 1..Len(commits) /\ refCall[c].tree \in B!Staging /\ refCall[c].tree.base # 0
    BY <1>7, <1>0 DEF B!Update, BInv, KnownCommits, Ready, CallStates
  <2>1. CASE tips[b] = e
    <3>1. index' \in B!Staging /\ index'.base # 0
      <4>1. CASE UNCHANGED index
        BY <4>1, <1>0 DEF BInv, KnownCommits
      <4>2. ASSUME NEW more \in BOOLEAN, index' = [base |-> B!Fresh, staged |-> more], B!Fresh <= MaxCommits
            PROVE  index' \in B!Staging /\ index'.base # 0
        BY <4>2, <1>0 DEF B!Staging, B!Fresh
      <4> QED BY <1>7, <2>1, <4>1, <4>2 DEF B!Update
    <3>2. refCall' \in [CodingCallers -> CallStates] /\ (\A d \in CodingCallers : refCall'[d] = refCall[d] \/ refCall'[d] = B!Idle)
      BY <1>7, <1>0, IdleTypes DEF B!Update, B!End
    <3>3. /\ B!Fresh <= MaxCommits /\ commits' = B!Made(tips[b], refCall[c].tree) /\ tips' = [tips EXCEPT ![b] = B!Fresh]
          /\ published' = published \cup {B!Fresh} /\ UNCHANGED <<head, dropped>>
      BY <1>7, <2>1 DEF B!Update
    <3> DEFINE t == refCall[c].tree
    <3>4. b \in Branches /\ t \in B!Staging /\ t.base # 0 /\ tips[b] # 0 /\ commits' = B!Made(tips[b], t)
      BY <1>0, <2>0, <2>1, <3>3
    <3> HIDE DEF b, e, t
    <3> QED BY <3>1, <3>2, <3>3, <3>4, AdvanceKeeps
  <2>2. CASE tips[b] # e
    BY <1>7, <2>2, EndKeeps DEF B!Update
  <2> QED BY <2>1, <2>2
<1>8. ASSUME NEW c \in CodingCallers, NEW e \in DOMAIN commits, B!Attach(c, e)  PROVE BInv'
  <2> DEFINE new == [B!Idle EXCEPT !.at = "attached", !.branch = head, !.expected = e]
  <2>1. refCall' = [refCall EXCEPT ![c] = new]
    BY <1>8 DEF B!Attach
  <2>2. /\ e \in 1..Len(commits) /\ e \in 0..MaxCommits /\ head \in Branches
    BY <1>8, <1>0 DEF B!Attach
  <2>3. new \in CallStates
    BY <2>2, IdleTypes DEF CallStates
  <2>4. Ready(new, Len(commits))
    BY <2>2, <1>0, IdleTypes DEF Ready, CallStates
  <2> HIDE DEF new
  <2> QED BY <2>1, <2>3, <2>4, <1>8, CallsKeep DEF B!Attach
<1>9. ASSUME NEW c \in CodingCallers, NEW e \in DOMAIN commits, NEW b \in Branches, B!List(c, b, e)  PROVE BInv'
  <2> DEFINE new == [B!Idle EXCEPT !.at = "listed", !.branch = b, !.expected = e]
  <2>1. refCall' = [refCall EXCEPT ![c] = new]
    BY <1>9 DEF B!List
  <2>2. /\ e \in 1..Len(commits) /\ e \in 0..MaxCommits
    BY <1>9, <1>0
  <2>3. new \in CallStates
    BY <2>2, IdleTypes DEF CallStates
  <2>4. Ready(new, Len(commits))
    BY <2>2, <1>0, IdleTypes DEF Ready, CallStates
  <2> HIDE DEF new
  <2> QED BY <2>1, <2>3, <2>4, <1>9, CallsKeep DEF B!List
<1>10. CASE UNCHANGED B!vars
  BY <1>10 DEF B!vars, BInv, B!TypeOK, KnownCommits, Ready, B!NoLostCommit
<1> QED BY <1>1, <1>2, <1>3, <1>4, <1>5, <1>6, <1>7, <1>8, <1>9, <1>10 DEF B!Next

LEMMA BranchesKept == MCSpec => [](part = "branches" => BInv)
<1> DEFINE Inv == part = "branches" => BInv
<1>1. MCInit => Inv
  BY BranchesInit DEF MCInit
<1>2. Inv /\ [MCNext]_mcVars => Inv'
  <2> SUFFICES ASSUME Inv, [MCNext]_mcVars, part' = "branches"  PROVE BInv'
    OBVIOUS
  <2>1. BInv /\ [B!Next]_B!vars
    BY DEF MCNext, mcVars, branchesVars, B!vars
  <2> QED BY <2>1, BranchesStep
<1> QED BY <1>1, <1>2, PTL DEF MCSpec

\* For any branches, commits and callers, and whatever people do in the repository between
\* the git commands of commit, create_branch and delete_branch: no commit that was reachable
\* from a published tip is lost by the plugin.
THEOREM NoCommitIsLost == MCSpec => []NoLostCommit
<1>1. (part = "branches" => BInv) => NoLostCommit
  BY DEF BInv, NoLostCommit
<1> QED BY <1>1, BranchesKept, PTL

-----------------------------------------------------------------------------
(* Worktrees: what a call may say of the tree it was about.                *)

Trees == [id : 0..MaxMade, listed : BOOLEAN, dir : BOOLEAN, head : TreeHeads,
          detached : BOOLEAN, lock : Reasons \cup {Free}, dirty : BOOLEAN]
CallSteps == {"idle", "add", "prove", "findLock", "lock", "proveLock", "unlock",
              "find", "remove", "proveList", "proveDir"}
WorktreeCalls == [op : W!Ops \cup {"none"}, head : TreeHeads, reason : Reasons \cup {Free}, at : CallSteps,
                  id : 0..MaxMade, undo : BOOLEAN, result : {"none", "ok", "failed", "rolledBack", "stuck"}]

\* A worktree has the number it was made under; a call that has proved its worktree
\* unlisted does not find it listed again, one that tells it gone does not find it at the
\* path at all; no call tells anything before its end.
Removed(state) == state.result = "rolledBack" \/ (state.op = "remove" /\ state.result = "ok")

Remains(there) == there.listed \/ there.dir

RemoveSteps == {"idle", "find", "remove", "proveList", "proveDir"}

Honest(state, there, n) ==
    /\ state.id <= n
    /\ state.at # "idle" => state.result = "none"
    /\ state.at \in {"remove", "proveList", "proveDir"} => state.op = "remove" \/ state.undo
    /\ state.at = "find" => state.op \in {"remove", "unlock"} \/ state.undo
    /\ state.op = "remove" => state.at \in RemoveSteps
    /\ state.at = "proveDir" => ~(there.listed /\ there.id = state.id)
    /\ Removed(state) => ~(Remains(there) /\ there.id = state.id)

WInv == W!TypeOK /\ tree.id <= made /\ \A c \in Callers : Honest(treeCall[c], tree, made)

LEMMA WorktreeTypes == W!Gone \in Trees /\ W!NoCall \in WorktreeCalls /\ W!Gone.id = 0 /\ ~W!Gone.listed /\ ~W!Gone.dir
<1>1. (CHOOSE h \in TreeHeads : TRUE) \in TreeHeads
  BY PluginsAssumption
<1> QED BY <1>1, PluginsAssumption DEF W!Gone, W!NoCall, Trees, WorktreeCalls, W!Ops, CallSteps

LEMMA WorktreeInit == W!Init => WInv
<1> SUFFICES ASSUME W!Init  PROVE WInv
  OBVIOUS
<1>1. W!TypeOK
  BY WorktreeTypes, PluginsAssumption DEF W!Init, W!TypeOK, Trees, WorktreeCalls, CallSteps
<1>2. \A c \in Callers : treeCall[c].id = 0 /\ treeCall[c].at = "idle" /\ treeCall[c].result = "none"
  BY DEF W!Init, W!NoCall
<1> QED BY <1>1, <1>2, WorktreeTypes DEF W!Init, WInv, Honest, Removed, RemoveSteps

\* The path keeps its worktree, or loses it, or gets another one.
Follows ==
    /\ Remains(tree') => (Remains(tree) /\ tree'.id = tree.id) \/ tree'.id > made
    /\ tree'.listed => (tree.listed /\ tree'.id = tree.id) \/ tree'.id > made

\* One call goes on.
LEMMA CallGoesOn ==
    ASSUME WInv, NEW c \in Callers, NEW new \in WorktreeCalls, treeCall' = [treeCall EXCEPT ![c] = new],
           tree' \in Trees, made' \in 0..MaxMade, made <= made', UNCHANGED people,
           tree'.id <= made', Follows,
           Honest(new, tree', made')
    PROVE  WInv'
<1>0. treeCall \in [Callers -> WorktreeCalls] /\ made \in Nat
  BY DEF WInv, W!TypeOK, WorktreeCalls, CallSteps
<1>1. \A d \in Callers : treeCall'[d] = IF d = c THEN new ELSE treeCall[d]
  BY <1>0
<1>2. W!TypeOK'
  <2>1. treeCall' \in [Callers -> WorktreeCalls]
    BY <1>0
  <2> QED BY <2>1 DEF WInv, W!TypeOK, Trees, WorktreeCalls, CallSteps
<1>3. ASSUME NEW d \in Callers  PROVE Honest(treeCall'[d], tree', made')
  <2>1. CASE d = c
    BY <2>1, <1>1
  <2>2. CASE d # c
    <3>1. treeCall'[d] = treeCall[d] /\ Honest(treeCall[d], tree, made) /\ treeCall[d].id \in Nat
      BY <1>0, <1>1, <2>2 DEF WInv, WorktreeCalls
    <3>2. made' \in Nat /\ tree'.id \in Nat
      BY PluginsAssumption DEF Trees
    <3> QED BY <3>1, <3>2, <1>0 DEF Honest, Follows
  <2> QED BY <2>1, <2>2
<1> QED BY <1>2, <1>3 DEF WInv

\* A step that makes no worktree.
PathKept ==
    /\ tree' \in Trees /\ tree'.id <= made /\ made' = made /\ people' = people
    /\ tree'.listed => tree.listed /\ tree'.id = tree.id
    /\ Remains(tree') => Remains(tree) /\ tree'.id = tree.id

LEMMA CallTurns ==
    ASSUME WInv, PathKept, NEW c \in Callers, NEW new \in WorktreeCalls,
           treeCall' = [treeCall EXCEPT ![c] = new], Honest(new, tree', made')
    PROVE  WInv'
<1>1. made \in 0..MaxMade
  BY DEF WInv, W!TypeOK
<1>2. /\ tree' \in Trees /\ made' \in 0..MaxMade /\ made <= made' /\ UNCHANGED people /\ tree'.id <= made'
      /\ Follows
  BY <1>1 DEF PathKept, Follows
<1> QED BY <1>2, CallGoesOn

LEMMA AtWork ==
    ASSUME WInv, PathKept, NEW c \in Callers, treeCall[c].at # "idle"
    PROVE  /\ treeCall[c] \in WorktreeCalls /\ made \in 0..MaxMade /\ made' = made
           /\ treeCall[c].id <= made /\ treeCall[c].result = "none"
           /\ treeCall[c].at \in {"remove", "proveList", "proveDir"} => treeCall[c].op = "remove" \/ treeCall[c].undo
           /\ treeCall[c].op = "remove" => treeCall[c].at \in RemoveSteps
           /\ ~Removed(treeCall[c])
           /\ treeCall[c].at = "proveDir" => ~(tree'.listed /\ tree'.id = treeCall[c].id)
  BY DEF WInv, Honest, Removed, W!TypeOK, WorktreeCalls, CallSteps, PathKept

LEMMA CallFails ==
    ASSUME WInv, PathKept, NEW c \in Callers, treeCall[c].at # "idle", W!Failed(c) \/ W!End(c, "failed")
    PROVE  WInv'
<1>1. CASE W!End(c, "failed") \/ W!End(c, "stuck")
  <2>1. PICK told \in {"failed", "stuck"} : W!End(c, told)
    BY <1>1
  <2> DEFINE new == [treeCall[c] EXCEPT !.at = "idle", !.result = told]
  <2>2. treeCall' = [treeCall EXCEPT ![c] = new]
    BY <2>1 DEF W!End
  <2>3. new \in WorktreeCalls /\ Honest(new, tree', made')
    BY AtWork DEF WorktreeCalls, CallSteps, Removed, Honest, RemoveSteps
  <2> HIDE DEF new
  <2> QED BY <2>2, <2>3, CallTurns
<1>2. CASE ~(W!End(c, "failed") \/ W!End(c, "stuck"))
  <2> DEFINE new == [treeCall[c] EXCEPT !.at = "find", !.undo = TRUE]
  <2>2. treeCall' = [treeCall EXCEPT ![c] = new] /\ treeCall[c].at \notin RemoveSteps
    BY <1>2 DEF W!Failed, RemoveSteps
  <2>3. new \in WorktreeCalls
    BY <2>2, AtWork, ZenonT(30) DEF WorktreeCalls, CallSteps, RemoveSteps
  <2>4. Honest(new, tree', made')
    BY <2>2, AtWork DEF WorktreeCalls, CallSteps, Removed, Honest, RemoveSteps
  <2> HIDE DEF new
  <2> QED BY <2>2, <2>3, <2>4, CallTurns
<1> QED BY <1>1, <1>2

LEMMA CallSucceeds ==
    ASSUME WInv, PathKept, NEW c \in Callers, treeCall[c].at # "idle",
           NEW told \in {"ok", "rolledBack"}, W!End(c, told),
           (treeCall[c].at = "proveDir" /\ ~tree'.dir) \/ (told = "ok" /\ treeCall[c].op # "remove")
    PROVE  WInv'
<1> DEFINE new == [treeCall[c] EXCEPT !.at = "idle", !.result = told]
<1>2. treeCall' = [treeCall EXCEPT ![c] = new]
  BY DEF W!End
<1>3. new \in WorktreeCalls /\ Honest(new, tree', made')
  BY AtWork DEF WorktreeCalls, CallSteps, Removed, Remains, Honest, RemoveSteps
<1> HIDE DEF new
<1> QED BY <1>2, <1>3, CallTurns

LEMMA CallMoves ==
    ASSUME WInv, PathKept, NEW c \in Callers, treeCall[c].at # "idle",
           NEW there \in CallSteps \ {"idle", "find", "remove"}, W!Goto(c, there), treeCall[c].op = "remove" => there \in RemoveSteps,
           there \in {"proveList", "proveDir"} => treeCall[c].op = "remove" \/ treeCall[c].undo,
           there = "proveDir" => ~tree'.listed
    PROVE  WInv'
<1> DEFINE new == [treeCall[c] EXCEPT !.at = there]
<1>2. treeCall' = [treeCall EXCEPT ![c] = new]
  BY DEF W!Goto
<1>3. new \in WorktreeCalls /\ Honest(new, tree', made')
  BY AtWork DEF WorktreeCalls, Removed, Honest, RemoveSteps
<1> HIDE DEF new
<1> QED BY <1>2, <1>3, CallTurns

LEMMA WorktreeStep == WInv /\ [W!Next]_W!vars => WInv'
<1> SUFFICES ASSUME WInv, [W!Next]_W!vars  PROVE WInv'
  OBVIOUS
<1>0. /\ tree \in Trees /\ made \in 0..MaxMade /\ made \in Nat /\ people \in 0..MaxPeople /\ tree.id <= made
      /\ treeCall \in [Callers -> WorktreeCalls]
  BY PluginsAssumption DEF WInv, W!TypeOK, Trees, WorktreeCalls, CallSteps
<1>k. UNCHANGED <<tree, made, people>> => PathKept
  BY <1>0 DEF PathKept, Remains
<1>1. CASE W!People
  <2>0. people' \in 0..MaxPeople
    <3>1. people < MaxPeople /\ people' = people + 1
      BY <1>1 DEF W!People
    <3> QED BY <3>1, <1>0, PluginsAssumption
  <2>1. /\ tree' \in Trees /\ tree'.id <= made' /\ made <= made' /\ made' \in 0..MaxMade
        /\ Follows
    <3>1. ASSUME NEW h \in TreeHeads, NEW d \in BOOLEAN, made < MaxMade, made' = made + 1,
                 tree' = [W!Gone EXCEPT !.id = made + 1, !.listed = TRUE, !.dir = TRUE, !.head = h, !.detached = d]
          PROVE  tree' \in Trees /\ tree'.id = made'
      <4>1. made + 1 \in 0..MaxMade
        BY <1>0, <3>1, PluginsAssumption
      <4> QED BY <4>1, <3>1, WorktreeTypes DEF Trees
    <3>d. ASSUME made < MaxMade, made' = made + 1, tree' = [W!Gone EXCEPT !.id = made + 1, !.dir = TRUE]
          PROVE  tree' \in Trees /\ tree'.id = made'
      <4>1. made + 1 \in 0..MaxMade
        BY <1>0, <3>d, PluginsAssumption
      <4> QED BY <4>1, <3>d, WorktreeTypes DEF Trees
    <3>g. ASSUME tree' = W!Gone, made' = made
          PROVE  tree' \in Trees /\ tree'.id <= made' /\ made <= made' /\ made' \in 0..MaxMade /\ Follows
      <4>1. tree' \in Trees /\ tree'.id = 0 /\ ~Remains(tree') /\ ~tree'.listed
        BY <3>g, WorktreeTypes DEF Remains
      <4> QED BY <4>1, <3>g, <1>0 DEF Follows
    <3>2. ASSUME NEW h \in TreeHeads, NEW d \in BOOLEAN, tree' = [tree EXCEPT !.head = h, !.detached = d]
          PROVE  tree' \in Trees /\ tree'.id = tree.id /\ tree'.listed = tree.listed
      BY <1>0, <3>2 DEF Trees
    <3>3. ASSUME NEW r \in Reasons \cup {Free}, tree' = [tree EXCEPT !.lock = r]
          PROVE  tree' \in Trees /\ tree'.id = tree.id /\ tree'.listed = tree.listed
      BY <1>0, <3>3 DEF Trees
    <3>4. ASSUME tree' = [tree EXCEPT !.dir = FALSE] \/ tree' = [tree EXCEPT !.dirty = TRUE]
          PROVE  tree' \in Trees /\ tree'.id = tree.id /\ tree'.listed = tree.listed
      BY <1>0, <3>4 DEF Trees
    <3>5. CASE ~tree.listed
      <4>1. \/ \E h \in TreeHeads, d \in BOOLEAN :
                 /\ made < MaxMade /\ made' = made + 1
                 /\ tree' = [W!Gone EXCEPT !.id = made + 1, !.listed = TRUE, !.dir = TRUE, !.head = h, !.detached = d]
            \/ made < MaxMade /\ made' = made + 1 /\ tree' = [W!Gone EXCEPT !.id = made + 1, !.dir = TRUE]
            \/ tree' = W!Gone /\ made' = made
        BY <1>1, <3>5 DEF W!People
      <4>2. CASE ~(tree' = W!Gone /\ made' = made)
        <5>1. tree' \in Trees /\ tree'.id = made' /\ made' = made + 1 /\ made < MaxMade
          BY <4>1, <4>2, <3>1, <3>d
        <5> QED BY <5>1, <1>0, PluginsAssumption DEF Follows
      <4> QED BY <4>2, <3>g
    <3>6. CASE tree.listed
      <4>1. made' = made
        BY <1>1, <3>6 DEF W!People
      <4>2. \/ tree' \in Trees /\ tree'.id = tree.id /\ tree'.listed = tree.listed
            \/ tree' = W!Gone
        BY <1>1, <3>6, <3>2, <3>3, <3>4 DEF W!People
      <4>3. CASE tree' \in Trees /\ tree'.id = tree.id /\ tree'.listed = tree.listed
        BY <4>1, <4>3, <3>6, <1>0 DEF Follows, Remains
      <4> QED BY <4>1, <4>2, <4>3, <3>g
    <3> QED BY <3>5, <3>6
  <2>a. UNCHANGED treeCall
    BY <1>1 DEF W!People
  <2>2. W!TypeOK'
    BY <2>0, <2>1, <2>a, <1>0 DEF W!TypeOK, Trees, WorktreeCalls, CallSteps
  <2>3. ASSUME NEW c \in Callers  PROVE Honest(treeCall[c], tree', made')
    <3>1. Honest(treeCall[c], tree, made) /\ treeCall[c].id \in Nat
      BY <1>0 DEF WInv, WorktreeCalls
    <3>2. tree'.id \in Nat /\ made' \in Nat
      BY <2>1, PluginsAssumption DEF Trees
    <3> QED BY <3>1, <3>2, <2>1, <1>0 DEF Honest, Follows
  <2> QED BY <2>1, <2>2, <2>3, <2>a DEF WInv
<1>2. ASSUME NEW c \in Callers, NEW op \in W!Ops, NEW h \in TreeHeads, NEW r \in Reasons, W!Begin(c, op, h, r)  PROVE WInv'
  <2>1. PICK there \in {"add", "findLock", "find"}, reason \in Reasons \cup {Free} :
            /\ treeCall' = [treeCall EXCEPT ![c] = [W!NoCall EXCEPT !.op = op, !.at = there, !.head = h, !.reason = reason]]
            /\ op = "remove" => there = "find"
            /\ there = "find" => op \in {"remove", "unlock"}
    BY <1>2 DEF W!Begin, W!Ops
  <2> DEFINE new == [W!NoCall EXCEPT !.op = op, !.at = there, !.head = h, !.reason = reason]
  <2>2. new \in WorktreeCalls
    BY WorktreeTypes DEF WorktreeCalls, CallSteps
  <2>3. PathKept
    BY <1>2, <1>k DEF W!Begin
  <2>4. Honest(new, tree', made')
    BY <2>1, <2>3, <1>0 DEF W!NoCall, Honest, Removed, RemoveSteps, PathKept
  <2>7. treeCall' = [treeCall EXCEPT ![c] = new]
    BY <2>1
  <2> HIDE DEF new
  <2> QED BY <2>2, <2>3, <2>4, <2>7, CallTurns
<1>3. ASSUME NEW c \in Callers, W!Add(c)  PROVE WInv'
  <2>0. treeCall[c].at = "add" /\ treeCall[c] \in WorktreeCalls /\ UNCHANGED people
    BY <1>3, <1>0 DEF W!Add
  <2>1. CASE tree.dir \/ tree.listed
    <3>1. W!End(c, "failed") /\ PathKept
      BY <1>3, <2>1, <1>k DEF W!Add
    <3> QED BY <3>1, <2>0, CallFails
  <2>2. CASE ~(tree.dir \/ tree.listed)
    <3>1. /\ made < MaxMade /\ made' = made + 1
          /\ tree' = [W!Gone EXCEPT !.id = made + 1, !.listed = TRUE, !.dir = TRUE,
                                    !.head = treeCall[c].head, !.detached = TRUE]
          /\ \/ treeCall' = [treeCall EXCEPT ![c].at = "prove", ![c].id = made + 1]
             \/ W!End(c, "failed")
      BY <1>3, <2>2 DEF W!Add
    <3>a. made' \in 0..MaxMade /\ made' \in Nat /\ made' = made + 1
      BY <3>1, <1>0, PluginsAssumption
    <3>b. treeCall[c].head \in TreeHeads
      BY <2>0 DEF WorktreeCalls
    <3>2. tree' \in Trees /\ tree'.id = made'
      BY <3>1, <3>a, <3>b, WorktreeTypes DEF Trees
    <3>3. Honest(treeCall[c], tree, made)
      BY DEF WInv
    <3> DEFINE new1 == [treeCall[c] EXCEPT !.at = "prove", !.id = made']
               new2 == [treeCall[c] EXCEPT !.at = "idle", !.result = "failed"]
    <3>d. treeCall[c].op # "remove" /\ treeCall[c].result = "none" /\ treeCall[c].id \in 0..MaxMade /\ treeCall[c].id <= made'
      BY <2>0, <3>3, <1>0, <3>a, PluginsAssumption DEF Honest, RemoveSteps, WorktreeCalls
    <3>4. new1 \in WorktreeCalls /\ Honest(new1, tree', made')
      <4>1. new1 \in WorktreeCalls
        BY <2>0, <3>a DEF WorktreeCalls, CallSteps
      <4>2. new1.op = treeCall[c].op /\ new1.result = "none" /\ new1.at = "prove" /\ new1.id = made'
        BY <2>0, <3>d DEF WorktreeCalls
      <4> HIDE DEF new1
      <4> QED BY <4>1, <4>2, <3>d, <3>a DEF Honest, Removed, RemoveSteps
    <3>5. new2 \in WorktreeCalls /\ Honest(new2, tree', made')
      <4>1. new2 \in WorktreeCalls
        BY <2>0 DEF WorktreeCalls, CallSteps
      <4>2. new2.op = treeCall[c].op /\ new2.result = "failed" /\ new2.at = "idle" /\ new2.id = treeCall[c].id
        BY <2>0 DEF WorktreeCalls
      <4> HIDE DEF new2
      <4> QED BY <4>1, <4>2, <3>d DEF Honest, Removed, RemoveSteps
    <3>6. treeCall' = [treeCall EXCEPT ![c] = new1] \/ treeCall' = [treeCall EXCEPT ![c] = new2]
      BY <3>1, <3>a DEF W!End
    <3>7. made <= made' /\ tree'.id <= made' /\ tree'.id > made
      BY <3>a, <3>2, <1>0
    <3> HIDE DEF new1, new2
    <3>c. Follows
      BY <3>7 DEF Follows
    <3>8. CASE treeCall' = [treeCall EXCEPT ![c] = new1]
      <4>1. new1 \in WorktreeCalls /\ Honest(new1, tree', made') /\ UNCHANGED people
        BY <3>4, <2>0
      <4>2. tree' \in Trees /\ made' \in 0..MaxMade /\ made <= made' /\ tree'.id <= made'
        BY <3>2, <3>a, <3>7
      <4> QED BY <4>1, <4>2, <3>8, <3>c, CallGoesOn
    <3>9. CASE treeCall' = [treeCall EXCEPT ![c] = new2]
      <4>1. new2 \in WorktreeCalls /\ Honest(new2, tree', made') /\ UNCHANGED people
        BY <3>5, <2>0
      <4>2. tree' \in Trees /\ made' \in 0..MaxMade /\ made <= made' /\ tree'.id <= made'
        BY <3>2, <3>a, <3>7
      <4> QED BY <4>1, <4>2, <3>9, <3>c, CallGoesOn
    <3> QED BY <3>6, <3>8, <3>9
  <2> QED BY <2>1, <2>2
<1>4. ASSUME NEW c \in Callers, W!Prove(c) \/ W!FindLock(c) \/ W!ProveLock(c) \/ W!ProveList(c) \/ W!ProveDir(c) \/ W!Fail(c)
      PROVE  WInv'
  <2>1. treeCall[c].at # "idle" /\ PathKept
    BY <1>4, <1>k DEF W!Prove, W!FindLock, W!ProveLock, W!ProveList, W!ProveDir, W!Fail
  <2>a. Honest(treeCall[c], tree, made)
    BY DEF WInv
  <2>2. CASE W!Failed(c)
    BY <2>1, <2>2, CallFails
  <2>3. CASE W!Prove(c) /\ ~W!Failed(c)
    <3>1. treeCall[c].at = "prove" /\ (W!End(c, "ok") \/ W!Goto(c, "findLock"))
      BY <2>3 DEF W!Prove
    <3>2. treeCall[c].op # "remove"
      BY <3>1, <2>a DEF Honest, RemoveSteps
    <3>3. CASE W!End(c, "ok")
      BY <3>2, <3>3, <2>1, CallSucceeds
    <3>4. CASE W!Goto(c, "findLock")
      BY <3>2, <3>4, <2>1, CallMoves DEF CallSteps
    <3> QED BY <3>1, <3>3, <3>4
  <2>4. CASE (W!FindLock(c) \/ W!ProveLock(c)) /\ ~W!Failed(c)
    <3>1. treeCall[c].at \in {"findLock", "proveLock"} /\ (W!End(c, "ok") \/ W!Goto(c, "lock"))
      BY <2>4 DEF W!FindLock, W!ProveLock
    <3>2. treeCall[c].op # "remove"
      BY <3>1, <2>a DEF Honest, RemoveSteps
    <3>3. CASE W!End(c, "ok")
      BY <3>2, <3>3, <2>1, CallSucceeds
    <3>4. CASE W!Goto(c, "lock")
      BY <3>2, <3>4, <2>1, CallMoves DEF CallSteps
    <3> QED BY <3>1, <3>3, <3>4
  <2>5. CASE W!ProveList(c) /\ ~W!Failed(c)
    <3>1. W!Goto(c, "proveDir") /\ ~tree'.listed /\ treeCall[c].at = "proveList"
      BY <2>5 DEF W!ProveList
    <3>2. treeCall[c].op = "remove" \/ treeCall[c].undo
      BY <3>1, <2>a DEF Honest
    <3>3. "proveDir" \in CallSteps \ {"idle", "find", "remove"} /\ "proveDir" \in RemoveSteps
      BY DEF CallSteps, RemoveSteps
    <3> QED BY <3>1, <3>2, <3>3, <2>1, CallMoves
  <2>6. CASE W!ProveDir(c) /\ ~W!Failed(c)
    <3>1. treeCall[c].at = "proveDir" /\ ~tree'.dir /\ (W!End(c, "ok") \/ W!End(c, "rolledBack"))
      BY <2>6 DEF W!ProveDir
    <3> QED BY <3>1, <2>1, CallSucceeds
  <2> QED BY <1>4, <2>2, <2>3, <2>4, <2>5, <2>6 DEF W!Fail
<1>5. ASSUME NEW c \in Callers, W!Lock(c) \/ W!Unlock(c) \/ W!Remove(c)  PROVE WInv'
  <2>0. /\ treeCall[c].at \in {"lock", "unlock", "remove"} /\ made' = made /\ people' = people /\ treeCall[c] \in WorktreeCalls
        /\ Honest(treeCall[c], tree, made)
    BY <1>5, <1>0 DEF W!Lock, W!Unlock, W!Remove, WInv
  <2>1. CASE UNCHANGED tree /\ W!Failed(c)
    <3>1. PathKept /\ treeCall[c].at # "idle"
      BY <2>0, <2>1, <1>k
    <3> QED BY <3>1, <2>1, CallFails
  <2>2. CASE W!Lock(c) /\ ~(UNCHANGED tree /\ W!Failed(c))
    <3>1. tree' = [tree EXCEPT !.lock = treeCall[c].reason] /\ (W!Goto(c, "proveLock") \/ W!Failed(c)) /\ treeCall[c].at = "lock"
      BY <2>2 DEF W!Lock
    <3>2. tree' \in Trees /\ tree'.id = tree.id /\ tree'.listed = tree.listed /\ tree'.dir = tree.dir
      BY <3>1, <2>0, <1>0 DEF Trees, WorktreeCalls
    <3>3. PathKept /\ treeCall[c].op # "remove" /\ treeCall[c].at # "idle"
      BY <3>1, <3>2, <2>0, <1>0 DEF PathKept, Remains, Honest, RemoveSteps
    <3>4. CASE W!Failed(c)
      BY <3>3, <3>4, CallFails
    <3>5. CASE W!Goto(c, "proveLock")
      BY <3>3, <3>5, CallMoves DEF CallSteps
    <3> QED BY <3>1, <3>4, <3>5
  <2>3. CASE W!Unlock(c) /\ ~(UNCHANGED tree /\ W!Failed(c))
    <3>1. tree' = [tree EXCEPT !.lock = Free] /\ (W!End(c, "ok") \/ W!Failed(c)) /\ treeCall[c].at = "unlock"
      BY <2>3 DEF W!Unlock
    <3>2. tree' \in Trees /\ tree'.id = tree.id /\ tree'.listed = tree.listed /\ tree'.dir = tree.dir
      BY <3>1, <1>0 DEF Trees
    <3>3. PathKept /\ treeCall[c].op # "remove" /\ treeCall[c].at # "idle"
      BY <3>1, <3>2, <2>0, <1>0 DEF PathKept, Remains, Honest, RemoveSteps
    <3>4. CASE W!Failed(c)
      BY <3>3, <3>4, CallFails
    <3>5. CASE W!End(c, "ok")
      BY <3>3, <3>5, CallSucceeds
    <3> QED BY <3>1, <3>4, <3>5
  <2>4. CASE W!Remove(c) /\ ~(UNCHANGED tree /\ W!Failed(c))
    <3>1. /\ \/ tree' = W!Gone
             \/ tree.dir /\ tree' = [tree EXCEPT !.listed = FALSE]
             \/ tree.dir /\ tree' = [tree EXCEPT !.dirty = TRUE]
          /\ W!Goto(c, "proveList") \/ W!Failed(c)
          /\ treeCall[c].at = "remove" /\ tree.listed
      BY <2>4 DEF W!Remove
    <3>2. ASSUME tree' = W!Gone  PROVE PathKept
      BY <3>2, <2>0, <1>0, WorktreeTypes DEF PathKept, Remains
    <3>a. ASSUME tree' # W!Gone  PROVE PathKept
      <4>1. /\ tree' \in Trees /\ tree'.id = tree.id /\ tree'.dir = tree.dir
            /\ tree'.listed => tree.listed
        BY <3>1, <3>a, <1>0 DEF Trees
      <4> QED BY <3>1, <4>1, <2>0, <1>0 DEF PathKept, Remains
    <3>3. PathKept /\ treeCall[c].at # "idle"
      BY <3>1, <3>2, <3>a
    <3>4. CASE W!Failed(c)
      BY <3>3, <3>4, CallFails
    <3>5. CASE W!Goto(c, "proveList")
      <4>1. treeCall[c].op = "remove" \/ treeCall[c].undo
        BY <3>1, <2>0 DEF Honest, RemoveSteps
      <4>2. "proveList" \in CallSteps \ {"idle", "find", "remove"} /\ "proveList" \in RemoveSteps
        BY DEF CallSteps, RemoveSteps
      <4> QED BY <3>3, <3>5, <4>1, <4>2, CallMoves
    <3> QED BY <3>1, <3>4, <3>5
  <2> QED BY <1>5, <2>1, <2>2, <2>3, <2>4
<1>6. ASSUME NEW c \in Callers, W!Find(c)  PROVE WInv'
  <2>0. /\ treeCall[c].at = "find" /\ PathKept /\ treeCall[c] \in WorktreeCalls /\ Honest(treeCall[c], tree, made)
    BY <1>6, <1>0, <1>k DEF W!Find, WInv
  <2>1. CASE W!Failed(c)
    BY <2>0, <2>1, CallFails
  <2>2. CASE W!Goto(c, "unlock") /\ treeCall[c].op = "unlock"
    <3>1. "unlock" \in CallSteps \ {"idle", "find", "remove"} /\ treeCall[c].op # "remove"
      BY <2>2 DEF CallSteps
    <3> QED BY <2>0, <2>2, <3>1, CallMoves
  <2>3. CASE ~W!Failed(c) /\ ~(W!Goto(c, "unlock") /\ treeCall[c].op = "unlock")
    <3> DEFINE id == IF treeCall[c].undo THEN treeCall[c].id ELSE tree.id
               new == [treeCall[c] EXCEPT !.at = "remove", !.id = id]
    <3>1. treeCall' = [treeCall EXCEPT ![c] = new]
      BY <1>6, <2>3 DEF W!Find
    <3>a. id \in 0..MaxMade /\ id <= made
      BY <2>0, <1>0 DEF WorktreeCalls, Trees, Honest
    <3> HIDE DEF id
    <3>b. new.op = treeCall[c].op /\ new.result = treeCall[c].result /\ new.undo = treeCall[c].undo /\ new.at = "remove" /\ new.id = id
      BY <2>0 DEF WorktreeCalls
    <3>2. new \in WorktreeCalls
      BY <2>0, <3>a DEF WorktreeCalls, CallSteps
    <3> HIDE DEF new
    <3>3. Honest(new, tree', made')
      <4>1. treeCall[c].op # "unlock"
        BY <1>6, <2>3 DEF W!Find
      <4> QED BY <2>0, <3>a, <3>b, <4>1 DEF Honest, Removed, RemoveSteps, PathKept
    <3> QED BY <3>1, <3>2, <3>3, <2>0, CallTurns
  <2> QED BY <2>1, <2>2, <2>3
<1>7. CASE UNCHANGED W!vars
  BY <1>7 DEF W!vars, WInv, W!TypeOK, Honest, Removed, Remains, RemoveSteps
<1> QED BY <1>1, <1>2, <1>3, <1>4, <1>5, <1>6, <1>7 DEF W!Next

LEMMA WorktreeGone == WInv => W!ReportedGone
  BY DEF WInv, Honest, Removed, Remains, W!ReportedGone

LEMMA WorktreeKept == MCSpec => [](part = "worktree" => WInv)
<1> DEFINE Inv == part = "worktree" => WInv
<1>1. MCInit => Inv
  BY WorktreeInit DEF MCInit
<1>2. Inv /\ [MCNext]_mcVars => Inv'
  <2> SUFFICES ASSUME Inv, [MCNext]_mcVars, part' = "worktree"  PROVE WInv'
    OBVIOUS
  <2>1. WInv /\ [W!Next]_W!vars
    BY DEF MCNext, mcVars, worktreeVars, W!vars
  <2> QED BY <2>1, WorktreeStep
<1> QED BY <1>1, <1>2, PTL DEF MCSpec

\* For any number of callers, people and trees, whichever git command fails and whatever
\* git worktree remove leaves: a worktree that remove says is removed, or that create says
\* it rolled back, is neither listed nor on the disk.  (The rollback may delete another
\* one with the same head that people put in its place: see ReportedGone.)
THEOREM GoneIsGone == MCSpec => []ReportedGone
<1>1. (part = "worktree" => WInv) => ReportedGone
  BY WorktreeGone DEF ReportedGone
<1> QED BY <1>1, WorktreeKept, PTL

-----------------------------------------------------------------------------
(* Verification: the moments at which a verdict was true.                  *)

StepNames == {"idle", "compile", "head", "branch", "diff", "others", "headAgain", "branchAgain",
              "diffAgain", "othersAgain", "worktrees", "evaluate", "done"}
Inspections == [head : V!Heads, branch : Branches, changed : SUBSET Paths, again : SUBSET Paths,
                worktree : V!Worktree, passed : BOOLEAN]
DirtyKinds == {"repository_clean", "repository_changed_path"}
OfWorktree(r, w) == IF r.kind = "worktree_absent" THEN w.present ELSE w

\* The verdict a value gives is a truth met during the call.
Told(v) == (V!Passes(claim, v) => held) /\ (~V!Passes(claim, v) => missed)

TrueNow ==
    /\ (V!True(claim, repo) => held) /\ (~V!True(claim, repo) => missed)
    /\ \A p \in Paths : repo.files[p] = "same" => p \in clean

VerifyHead ==
    claim.kind = "repository_head" /\ at \notin {"idle", "compile", "head"} => Told(seen.head)

VerifyBranch ==
    claim.kind = "repository_branch" /\ at \notin {"idle", "compile", "head", "branch"} => Told(seen.branch)

VerifyWorktree ==
    claim.kind \in {"worktree_locked", "worktree_absent"} /\ at \in {"evaluate", "done"}
        => Told(OfWorktree(claim, seen.worktree))

\* What a requirement finds in a list of changed paths.
Among(r, paths) == IF r.kind = "repository_clean" THEN paths # {} ELSE r.path \in paths

Late == at \notin {"idle", "compile", "head", "branch", "diff"}

VerifyListed == Late /\ claim.kind \in DirtyKinds /\ Among(claim, seen.changed) => Told(TRUE)

\* A path that is not listed was untracked at git diff, added to the index before git
\* ls-files, and so once more - unless it was unchanged, or is about to be listed.
Hidden(p) ==
    /\ at = "others" => added[p] # 0 \/ repo.files[p] = "untracked"
    /\ at \in {"headAgain", "branchAgain", "diffAgain", "othersAgain"} => added[p] # 0
    /\ at = "othersAgain" => added[p] = 2 \/ repo.files[p] = "untracked" \/ p \in seen.again
    /\ at \in {"worktrees", "evaluate", "done"} => added[p] = 2

VerifyMissed == Late => \A p \in Paths \ seen.changed : p \in clean \/ Hidden(p)

VerifyPassed ==
    at = "done" =>
        IF claim.kind \in DirtyKinds /\ (seen.passed <=> V!Passes(claim, FALSE)) THEN ~Among(claim, seen.changed)
        ELSE (seen.passed => held) /\ (~seen.passed => missed)

VInv ==
    /\ V!TypeOK
    /\ at # "idle" => TrueNow
    /\ VerifyHead /\ VerifyBranch /\ VerifyWorktree /\ VerifyListed /\ VerifyMissed /\ VerifyPassed

LEMMA StepsNamed == \A s : (\E i \in DOMAIN V!Steps : s = V!Steps[i]) <=> s \in StepNames
<1>1. DOMAIN V!Steps = 1..13
  BY DEF V!Steps
<1>2. ASSUME NEW t  PROVE (\E i \in 1..13 : t = V!Steps[i]) <=> t \in StepNames
  <2>1. ASSUME NEW i \in 1..13  PROVE V!Steps[i] \in StepNames
    BY DEF V!Steps, StepNames
  <2>2. ASSUME NEW s \in StepNames  PROVE \E i \in 1..13 : s = V!Steps[i]
    <3>1. /\ V!Steps[1] = "idle" /\ V!Steps[2] = "compile" /\ V!Steps[3] = "head" /\ V!Steps[4] = "branch" /\ V!Steps[5] = "diff"
          /\ V!Steps[6] = "others" /\ V!Steps[7] = "headAgain" /\ V!Steps[8] = "branchAgain" /\ V!Steps[9] = "diffAgain"
          /\ V!Steps[10] = "othersAgain" /\ V!Steps[11] = "worktrees" /\ V!Steps[12] = "evaluate" /\ V!Steps[13] = "done"
      BY DEF V!Steps
    <3> QED BY <3>1 DEF StepNames
  <2> QED BY <2>1, <2>2
<1> QED BY <1>1, <1>2

LEMMA StepsTyped == V!TypeOK <=>
    /\ repo \in V!Repository /\ at \in StepNames /\ seen \in Inspections
    /\ claim \in V!Requirements /\ held \in BOOLEAN /\ missed \in BOOLEAN
    /\ clean \in SUBSET Paths /\ added \in [Paths -> 0..2]
  BY StepsNamed DEF V!TypeOK, Inspections

LEMMA AfterStep ==
    /\ V!After("head") = "branch" /\ V!After("branch") = "diff" /\ V!After("diff") = "others"
    /\ V!After("others") = "headAgain" /\ V!After("headAgain") = "branchAgain"
    /\ V!After("branchAgain") = "diffAgain" /\ V!After("diffAgain") = "othersAgain"
    /\ V!After("othersAgain") = "worktrees" /\ V!After("worktrees") = "evaluate"
<1>1. DOMAIN V!Steps = 1..13
  BY DEF V!Steps
<1>2. ASSUME NEW n \in 1..12, \A i \in 1..13 : V!Steps[i] = V!Steps[n] => i = n
      PROVE V!After(V!Steps[n]) = V!Steps[n + 1]
  <2>1. (CHOOSE i \in DOMAIN V!Steps : V!Steps[i] = V!Steps[n]) = n
    BY <1>1, <1>2
  <2>2. 1 + n = n + 1
    OBVIOUS
  <2> QED BY <2>1, <2>2 DEF V!After
<1>3. /\ V!Steps[1] = "idle" /\ V!Steps[2] = "compile" /\ V!Steps[3] = "head" /\ V!Steps[4] = "branch" /\ V!Steps[5] = "diff"
      /\ V!Steps[6] = "others" /\ V!Steps[7] = "headAgain" /\ V!Steps[8] = "branchAgain" /\ V!Steps[9] = "diffAgain"
      /\ V!Steps[10] = "othersAgain" /\ V!Steps[11] = "worktrees" /\ V!Steps[12] = "evaluate" /\ V!Steps[13] = "done"
  BY DEF V!Steps
<1>4. ASSUME NEW n \in 1..12  PROVE \A i \in 1..13 : V!Steps[i] = V!Steps[n] => i = n
  BY <1>3
<1>5. ASSUME NEW n \in 1..12  PROVE V!After(V!Steps[n]) = V!Steps[n + 1]
  <2>1. \A i \in 1..13 : V!Steps[i] = V!Steps[n] => i = n
    BY <1>4
  <2> QED BY <2>1, <1>2
<1>6. \A n \in {3, 4, 5, 6, 7, 8, 9, 10, 11} : V!After(V!Steps[n]) = V!Steps[n + 1]
  BY <1>5
<1>7. /\ V!After(V!Steps[3]) = V!Steps[4] /\ V!After(V!Steps[4]) = V!Steps[5] /\ V!After(V!Steps[5]) = V!Steps[6]
      /\ V!After(V!Steps[6]) = V!Steps[7] /\ V!After(V!Steps[7]) = V!Steps[8] /\ V!After(V!Steps[8]) = V!Steps[9]
      /\ V!After(V!Steps[9]) = V!Steps[10] /\ V!After(V!Steps[10]) = V!Steps[11] /\ V!After(V!Steps[11]) = V!Steps[12]
  BY <1>6
<1> QED BY <1>3, <1>7

LEMMA RequirementKinds ==
    \A r \in V!Requirements : r.kind \in {"repository_head", "repository_branch", "repository_clean",
        "repository_changed_path", "worktree_locked", "worktree_absent"}
  BY DEF V!Requirements

\* What a verdict on a reading is about.
LEMMA VerdictOfSeen ==
    ASSUME NEW r \in V!Requirements, NEW s
    PROVE  /\ r.kind = "repository_head" => (V!Verdict(r, V!Evidence(s)) <=> V!Passes(r, s.head))
           /\ r.kind = "repository_branch" => (V!Verdict(r, V!Evidence(s)) <=> V!Passes(r, s.branch))
           /\ r.kind \in DirtyKinds =>
                  /\ Among(r, s.changed) => (V!Verdict(r, V!Evidence(s)) <=> V!Passes(r, TRUE))
                  /\ ~Among(r, s.changed) => (V!Verdict(r, V!Evidence(s)) <=> V!Passes(r, FALSE))
           /\ r.kind \in {"worktree_locked", "worktree_absent"} =>
                  (V!Verdict(r, V!Evidence(s)) <=> V!Passes(r, OfWorktree(r, s.worktree)))
<1> DEFINE e == V!Evidence(s)
<1>1. /\ e.head = s.head /\ e.branch = s.branch /\ e.worktree = s.worktree
      /\ e.changed = s.changed /\ e.dirty = (s.changed # {})
  BY DEF V!Evidence
<1> HIDE DEF e
<1>2. ASSUME r.kind = "repository_head"  PROVE V!Observed(r, e) = s.head
  BY <1>1, <1>2 DEF V!Observed
<1>3. ASSUME r.kind = "repository_branch"  PROVE V!Observed(r, e) = s.branch
  BY <1>1, <1>3 DEF V!Observed
<1>4. ASSUME r.kind = "repository_clean"  PROVE V!Observed(r, e) = (s.changed # {})
  <2>1. V!Observed(r, e) = e.dirty
    BY <1>4 DEF V!Observed
  <2> QED BY <2>1, <1>1, Zenon
<1>5. ASSUME r.kind = "repository_changed_path"  PROVE V!Observed(r, e) = (r.path \in s.changed)
  <2>1. V!Observed(r, e) = (r.path \in e.changed)
    BY <1>5 DEF V!Observed
  <2> QED BY <2>1, <1>1, Zenon
<1>6. ASSUME r.kind \in {"worktree_locked", "worktree_absent"}  PROVE V!Observed(r, e) = OfWorktree(r, s.worktree)
  BY <1>1, <1>6 DEF V!Observed, OfWorktree
<1>8. ASSUME r.kind \in DirtyKinds
      PROVE  /\ Among(r, s.changed) => V!Observed(r, e) = TRUE
             /\ ~Among(r, s.changed) => V!Observed(r, e) = FALSE
  <2>1. CASE r.kind = "repository_clean"
    <3> DEFINE any == s.changed # {}
    <3>1. Among(r, s.changed) <=> any
      BY <2>1 DEF Among
    <3>2. any \in BOOLEAN /\ V!Observed(r, e) = any
      BY <2>1, <1>4
    <3> HIDE DEF any
    <3> QED BY <3>1, <3>2
  <2>2. CASE r.kind = "repository_changed_path"
    <3>1. Among(r, s.changed) <=> r.path \in s.changed
      BY <2>2 DEF Among
    <3> DEFINE among == r.path \in s.changed
    <3>2. among \in BOOLEAN /\ V!Observed(r, e) = among
      BY <2>2, <1>5
    <3> HIDE DEF among
    <3>3. Among(r, s.changed) <=> among
      BY <3>1 DEF among
    <3> QED BY <3>2, <3>3
  <2> QED BY <1>8, <2>1, <2>2 DEF DirtyKinds
<1> QED BY <1>2, <1>3, <1>6, <1>8, Zenon DEF V!Verdict, e

Changed(now) == V!Modified(now) \cup V!Untracked(now)

LEMMA TrueOf ==
    ASSUME NEW r \in V!Requirements, NEW now
    PROVE  /\ r.kind = "repository_head" => (V!True(r, now) <=> V!Passes(r, now.head))
           /\ r.kind = "repository_branch" => (V!True(r, now) <=> V!Passes(r, now.branch))
           /\ r.kind \in DirtyKinds =>
                  (Among(r, Changed(now)) => (V!True(r, now) <=> V!Passes(r, TRUE)))
           /\ r.kind \in {"worktree_locked", "worktree_absent"} =>
                  (V!True(r, now) <=> V!Passes(r, OfWorktree(r, now.worktree)))
<1> DEFINE s == [head |-> now.head, branch |-> now.branch, worktree |-> now.worktree,
                 changed |-> V!Modified(now) \cup V!Untracked(now)]
<1>1. s.head = now.head /\ s.branch = now.branch /\ s.worktree = now.worktree /\ s.changed = Changed(now)
  BY DEF Changed
<1>2. V!True(r, now) = V!Verdict(r, V!Evidence(s))
  BY Zenon DEF V!True
<1> HIDE DEF s
<1> QED BY <1>1, <1>2, VerdictOfSeen, Zenon

LEMMA VerifyInit == V!Init => VInv
<1> SUFFICES ASSUME V!Init  PROVE VInv
  OBVIOUS
<1>1. 1 \in V!Heads /\ (CHOOSE b \in Branches : TRUE) \in Branches
  BY PluginsAssumption DEF V!Heads
<1>2. V!NoWorktree \in V!Worktree
  BY <1>1 DEF V!NoWorktree, V!Worktree
<1>3. repo \in V!Repository /\ seen \in Inspections /\ at = "idle"
  BY <1>1, <1>2 DEF V!Init, V!Repository, Inspections, V!Nothing
<1>4. V!TypeOK
  <2>1. clean \in SUBSET Paths /\ added \in [Paths -> 0..2]
    BY DEF V!Init
  <2> QED BY <1>3, <2>1, StepsTyped DEF V!Init, StepNames
<1> QED BY <1>4, <1>3 DEF VInv, VerifyHead, VerifyBranch, VerifyWorktree, VerifyListed, VerifyMissed, VerifyPassed, Late

\* What was told stays told: the flags only grow during a call.
LEMMA ToldStays ==
    ASSUME UNCHANGED claim, held => held', missed => missed', NEW v, Told(v)
    PROVE  Told(v)'
  BY DEF Told

LEMMA WitnessTells ==
    ASSUME NEW now, repo' = now, V!Witness(now), UNCHANGED claim, held \in BOOLEAN, missed \in BOOLEAN,
           clean \in SUBSET Paths, added \in [Paths -> 0..2]
    PROVE  /\ held' \in BOOLEAN /\ missed' \in BOOLEAN
           /\ clean' \in SUBSET Paths /\ added' \in [Paths -> 0..2]
           /\ (held => held') /\ (missed => missed') /\ clean \subseteq clean'
           /\ \A p \in Paths :
                  /\ added[p] # 0 => added'[p] # 0
                  /\ added[p] = 2 => added'[p] = 2
                  /\ repo.files[p] = "untracked" /\ repo'.files[p] = "modified" =>
                         added'[p] # 0 /\ (added[p] # 0 => added'[p] = 2)
           /\ TrueNow'
<1>1. /\ held' = (held \/ V!True(claim, now)) /\ missed' = (missed \/ ~V!True(claim, now))
      /\ clean' = clean \cup {p \in Paths : now.files[p] = "same"}
      /\ added' = [p \in Paths |-> IF p \in V!Untracked(repo) \cap V!Modified(now) /\ added[p] < 2
                                    THEN added[p] + 1 ELSE added[p]]
  BY DEF V!Witness
<1>2. held' \in BOOLEAN /\ missed' \in BOOLEAN
  BY <1>1, Zenon
<1>3. (held => held') /\ (missed => missed') /\ (V!True(claim, now) => held') /\ (~V!True(claim, now) => missed')
  BY <1>1, Zenon
<1>4. clean' \in SUBSET Paths /\ clean \subseteq clean' /\ \A p \in Paths : now.files[p] = "same" => p \in clean'
  BY <1>1
<1>5. ASSUME NEW p \in Paths
      PROVE  /\ added'[p] \in 0..2 /\ (added[p] # 0 => added'[p] # 0) /\ (added[p] = 2 => added'[p] = 2)
             /\ repo.files[p] = "untracked" /\ now.files[p] = "modified" =>
                    added'[p] # 0 /\ (added[p] # 0 => added'[p] = 2)
  <2>1. added'[p] = IF p \in V!Untracked(repo) \cap V!Modified(now) /\ added[p] < 2
                    THEN added[p] + 1 ELSE added[p]
    BY <1>1
  <2>2. added[p] \in 0..2
    OBVIOUS
  <2>3. repo.files[p] = "untracked" /\ now.files[p] = "modified" <=> p \in V!Untracked(repo) \cap V!Modified(now)
    BY DEF V!Untracked, V!Modified
  <2> QED BY <2>1, <2>2, <2>3
<1>6. added' \in [Paths -> 0..2]
  BY <1>1, <1>5
<1>7. claim' = claim /\ repo' = now
  OBVIOUS
<1>8. TrueNow' = ((V!True(claim', repo') => held') /\ (~V!True(claim', repo') => missed')
                  /\ (\A p \in Paths : repo'.files[p] = "same" => p \in clean'))
  BY Zenon DEF TrueNow
<1>9. TrueNow'
  BY <1>3, <1>4, <1>7, <1>8, Zenon
<1> QED BY <1>2, <1>3, <1>4, <1>5, <1>6, <1>7, <1>9

\* A reading tells what is true now.
LEMMA ReadingTells ==
    ASSUME V!TypeOK, TrueNow
    PROVE  /\ claim.kind = "repository_head" => Told(repo.head)
           /\ claim.kind = "repository_branch" => Told(repo.branch)
           /\ claim.kind \in {"worktree_locked", "worktree_absent"} => Told(OfWorktree(claim, repo.worktree))
           /\ claim.kind \in DirtyKinds => (Among(claim, Changed(repo)) => Told(TRUE))
<1>1. claim \in V!Requirements
  BY DEF V!TypeOK
<1> QED BY <1>1, TrueOf, Zenon DEF Told, TrueNow

LEMMA ListedIn ==
    ASSUME NEW r, NEW few, NEW many, few \subseteq many, Among(r, few)
    PROVE  Among(r, many)
  BY DEF Among

LEMMA ListedOf ==
    ASSUME NEW r, NEW one, NEW other, Among(r, one \cup other)
    PROVE  Among(r, one) \/ Among(r, other)
  BY DEF Among

LEMMA VerifyStep == VInv /\ [V!Next]_V!vars => VInv'
<1> SUFFICES ASSUME VInv, [V!Next]_V!vars  PROVE VInv'
  OBVIOUS
<1>0. /\ repo \in V!Repository /\ at \in StepNames /\ seen \in Inspections
      /\ claim \in V!Requirements /\ held \in BOOLEAN /\ missed \in BOOLEAN /\ V!TypeOK
      /\ clean \in SUBSET Paths /\ added \in [Paths -> 0..2]
  BY StepsTyped DEF VInv
<1>a. V!TypeOK' <=>
        /\ repo' \in V!Repository /\ at' \in StepNames /\ seen' \in Inspections
        /\ claim' \in V!Requirements /\ held' \in BOOLEAN /\ missed' \in BOOLEAN
        /\ clean' \in SUBSET Paths /\ added' \in [Paths -> 0..2]
  BY StepsNamed DEF V!TypeOK, Inspections
<1>1. CASE V!Call
  <2>1. at = "idle" /\ at' \in {"compile", "head"} /\ UNCHANGED <<repo, seen, claim>> /\ V!Witness(repo)
    BY <1>1 DEF V!Call
  <2>2. /\ held' \in BOOLEAN /\ missed' \in BOOLEAN /\ clean' \in SUBSET Paths /\ added' \in [Paths -> 0..2]
        /\ TrueNow'
    BY <2>1, <1>0, WitnessTells
  <2>3. V!TypeOK'
    BY <2>1, <2>2, <1>0, <1>a DEF StepNames
  <2> QED BY <2>1, <2>2, <2>3 DEF VInv, VerifyHead, VerifyBranch, VerifyWorktree, VerifyListed, VerifyMissed, VerifyPassed, Late
<1>2. CASE V!Compile
  <2>1. at = "compile" /\ at' = "head" /\ UNCHANGED <<repo, seen, claim, held, missed, clean, added>>
    BY <1>2 DEF V!Compile, V!memory
  <2>3. V!TypeOK' /\ TrueNow'
    BY <2>1, <1>0, <1>a DEF StepNames, VInv, TrueNow
  <2> QED BY <2>1, <2>3 DEF VInv, VerifyHead, VerifyBranch, VerifyWorktree, VerifyListed, VerifyMissed, VerifyPassed, Late
<1>3. CASE V!Read
  <2>0. /\ at \in {"head", "branch", "diff", "others", "diffAgain", "worktrees"}
        /\ at' = V!After(at) /\ UNCHANGED <<repo, claim, held, missed, clean, added>>
    BY <1>3 DEF V!Read, V!memory
  <2>1. TrueNow /\ TrueNow'
    BY <2>0 DEF VInv, TrueNow
  <2>k. \A v : Told(v)' <=> Told(v)
    BY <2>0 DEF Told
  <2>t. V!TypeOK' <=> at' \in StepNames /\ seen' \in Inspections
    BY <2>0, <1>0, <1>a
  <2>r. repo.head \in V!Heads /\ repo.branch \in Branches /\ repo.worktree \in V!Worktree
    BY <1>0 DEF V!Repository
  <2>2. CASE at = "head"
    <3>1. seen' = [seen EXCEPT !.head = repo.head] /\ at' = "branch"
      BY <1>3, <2>0, <2>2, AfterStep DEF V!Read
    <3>2. V!TypeOK'
      BY <3>1, <2>t, <2>r, <1>0 DEF Inspections, StepNames
    <3>3. seen'.head = repo.head
      BY <3>1, <1>0 DEF Inspections
    <3>4. claim.kind = "repository_head" => Told(repo.head)
      BY <1>0, <2>1, ReadingTells
    <3>5. VerifyHead'
      BY <2>0, <3>3, <3>4, <2>k DEF VerifyHead
    <3> QED BY <3>1, <3>2, <3>5, <2>1 DEF VInv, VerifyBranch, VerifyWorktree, VerifyListed, VerifyMissed, VerifyPassed, Late
  <2>3. CASE at = "branch"
    <3>1. seen' = [seen EXCEPT !.branch = repo.branch] /\ at' = "diff"
      BY <1>3, <2>0, <2>3, AfterStep DEF V!Read
    <3>2. V!TypeOK'
      BY <3>1, <2>t, <2>r, <1>0 DEF Inspections, StepNames
    <3>3. seen'.branch = repo.branch /\ seen'.head = seen.head
      BY <3>1, <1>0 DEF Inspections
    <3>4. claim.kind = "repository_branch" => Told(repo.branch)
      BY <1>0, <2>1, ReadingTells
    <3>5. VerifyBranch'
      BY <2>0, <3>3, <3>4, <2>k DEF VerifyBranch
    <3>6. VerifyHead'
      BY <2>0, <2>3, <3>3, <2>k DEF VerifyHead, VInv
    <3> QED BY <3>1, <3>2, <3>5, <3>6, <2>1 DEF VInv, VerifyWorktree, VerifyListed, VerifyMissed, VerifyPassed, Late
  <2>a. claim.kind \in DirtyKinds => (Among(claim, Changed(repo)) => Told(TRUE))
    BY <1>0, <2>1, ReadingTells, Zenon
  <2>b. \A p \in Paths : /\ repo.files[p] \in {"same", "modified", "untracked"}
                         /\ repo.files[p] = "same" => p \in clean
    BY <1>0, <2>1 DEF V!Repository, TrueNow
  <2>4. CASE at = "diff"
    <3>0. at' = "others"
      BY <2>0, <2>4, AfterStep
    <3>1. seen' = [seen EXCEPT !.changed = V!Modified(repo)]
      BY <1>3, <2>4 DEF V!Read
    <3>2. V!Modified(repo) \subseteq Changed(repo) /\ V!Modified(repo) \in SUBSET Paths
      BY DEF Changed, V!Modified
    <3>3. /\ seen' \in Inspections /\ seen'.head = seen.head /\ seen'.branch = seen.branch
          /\ seen'.changed = V!Modified(repo)
      BY <3>1, <3>2, <1>0 DEF Inspections
    <3>4. VerifyListed'
      BY <3>2, <3>3, <2>0, <2>a, <2>k, ListedIn DEF VerifyListed
    <3>5. VerifyMissed'
      BY <3>0, <3>3, <2>0, <2>b DEF VerifyMissed, Hidden, V!Modified
    <3>6. V!TypeOK'
      BY <3>0, <3>3, <2>t DEF StepNames
    <3>7. VerifyHead' /\ VerifyBranch'
      BY <2>0, <2>4, <3>3, <2>k DEF VerifyHead, VerifyBranch, VInv
    <3> QED BY <3>0, <3>4, <3>5, <3>6, <3>7, <2>1 DEF VInv, VerifyWorktree, VerifyPassed
  <2>6. CASE at = "others"
    <3>0. at' = "headAgain"
      BY <2>0, <2>6, AfterStep
    <3>1. seen' = [seen EXCEPT !.changed = @ \cup V!Untracked(repo)]
      BY <1>3, <2>6 DEF V!Read
    <3>2. V!Untracked(repo) \subseteq Changed(repo) /\ V!Untracked(repo) \in SUBSET Paths
      BY DEF Changed, V!Untracked
    <3>3. /\ seen' \in Inspections /\ seen'.head = seen.head /\ seen'.branch = seen.branch
          /\ seen'.changed = seen.changed \cup V!Untracked(repo)
      BY <3>1, <3>2, <1>0 DEF Inspections
    <3>4. VerifyListed'
      <4> SUFFICES ASSUME claim.kind \in DirtyKinds, Among(claim, seen.changed \cup V!Untracked(repo))
                   PROVE  Told(TRUE)
        BY <3>3, <2>0, <2>k DEF VerifyListed
      <4>1. Among(claim, seen.changed) => Told(TRUE)
        BY <2>6 DEF VInv, VerifyListed, Late
      <4>2. Among(claim, V!Untracked(repo)) => Told(TRUE)
        BY <3>2, <2>a, ListedIn
      <4> QED BY <4>1, <4>2, ListedOf
    <3>5. VerifyMissed'
      BY <3>0, <3>3, <2>0, <2>6, <2>b DEF VInv, VerifyMissed, Hidden, Late, V!Untracked
    <3>6. V!TypeOK'
      BY <3>0, <3>3, <2>t DEF StepNames
    <3>7. VerifyHead' /\ VerifyBranch'
      BY <2>0, <2>6, <3>3, <2>k DEF VerifyHead, VerifyBranch, VInv
    <3> QED BY <3>0, <3>4, <3>5, <3>6, <3>7, <2>1 DEF VInv, VerifyWorktree, VerifyPassed
  <2>7. CASE at = "diffAgain"
    <3>0. at' = "othersAgain"
      BY <2>0, <2>7, AfterStep
    <3>1. seen' = [seen EXCEPT !.again = V!Modified(repo)]
      BY <1>3, <2>7 DEF V!Read
    <3>2. V!Modified(repo) \in SUBSET Paths
      BY DEF V!Modified
    <3>3. /\ seen' \in Inspections /\ seen'.head = seen.head /\ seen'.branch = seen.branch
          /\ seen'.changed = seen.changed /\ seen'.again = V!Modified(repo)
      BY <3>1, <3>2, <1>0 DEF Inspections
    <3>4. VerifyListed'
      BY <3>0, <3>3, <2>0, <2>7, <2>k DEF VInv, VerifyListed, Late
    <3>5. VerifyMissed'
      BY <3>0, <3>3, <2>0, <2>7, <2>b DEF VInv, VerifyMissed, Hidden, Late, V!Modified
    <3>6. V!TypeOK'
      BY <3>0, <3>3, <2>t DEF StepNames
    <3>7. VerifyHead' /\ VerifyBranch'
      BY <2>0, <2>7, <3>3, <2>k DEF VerifyHead, VerifyBranch, VInv
    <3> QED BY <3>0, <3>4, <3>5, <3>6, <3>7, <2>1 DEF VInv, VerifyWorktree, VerifyPassed
  <2>5. CASE at = "worktrees"
    <3>1. seen' = [seen EXCEPT !.worktree = repo.worktree] /\ at' = "evaluate"
      BY <1>3, <2>0, <2>5, AfterStep DEF V!Read
    <3>2. V!TypeOK'
      BY <3>1, <2>t, <2>r, <1>0 DEF Inspections, StepNames
    <3>3. /\ seen'.branch = seen.branch /\ seen'.head = seen.head /\ seen'.changed = seen.changed
          /\ seen'.again = seen.again /\ seen'.worktree = repo.worktree
      BY <3>1, <1>0 DEF Inspections
    <3>4. claim.kind \in {"worktree_locked", "worktree_absent"} => Told(OfWorktree(claim, repo.worktree))
      BY <1>0, <2>1, ReadingTells
    <3>5. VerifyWorktree'
      BY <2>0, <3>3, <3>4, <2>k DEF VerifyWorktree
    <3>6. VerifyHead' /\ VerifyBranch'
      BY <2>0, <2>5, <3>3, <2>k DEF VerifyHead, VerifyBranch, VInv
    <3>7. VerifyListed' /\ VerifyMissed'
      BY <2>0, <2>5, <3>1, <3>3, <2>k DEF VerifyListed, VerifyMissed, Hidden, Late, VInv
    <3> QED BY <3>1, <3>2, <3>5, <3>6, <3>7, <2>1 DEF VInv, VerifyPassed
  <2> QED BY <2>0, <2>2, <2>3, <2>4, <2>5, <2>6, <2>7
<1>4. CASE V!Compare
  <2>1. /\ at \in {"headAgain", "branchAgain", "othersAgain"} /\ at' = V!After(at)
        /\ at = "othersAgain" => seen.again \cup V!Untracked(repo) = seen.changed
        /\ seen' = [seen EXCEPT !.again = {}] /\ UNCHANGED <<repo, claim, held, missed, clean, added>>
    BY <1>4 DEF V!Compare, V!memory
  <2>2. \/ at = "headAgain" /\ at' = "branchAgain"
        \/ at = "branchAgain" /\ at' = "diffAgain"
        \/ at = "othersAgain" /\ at' = "worktrees"
    BY <2>1, AfterStep
  <2>k. \A v : Told(v)' <=> Told(v)
    BY <2>1 DEF Told
  <2>a. seen' \in Inspections /\ seen'.head = seen.head /\ seen'.branch = seen.branch /\ seen'.changed = seen.changed
    BY <2>1, <1>0 DEF Inspections
  <2>3. V!TypeOK'
    BY <2>1, <2>2, <2>a, <1>0, <1>a DEF StepNames
  <2>4. TrueNow' /\ VerifyHead' /\ VerifyBranch'
    BY <2>1, <2>2, <2>a, <2>k DEF VInv, TrueNow, VerifyHead, VerifyBranch
  <2>5. VerifyListed'
    BY <2>1, <2>2, <2>a, <2>k DEF VInv, VerifyListed, Late
  <2>6. VerifyMissed'
    <3> SUFFICES ASSUME NEW p \in Paths \ seen.changed, p \notin clean  PROVE Hidden(p)'
      BY <2>1, <2>a DEF VerifyMissed
    <3>1. Hidden(p)
      BY <2>2 DEF VInv, VerifyMissed, Late
    <3>2. at = "othersAgain" => p \notin seen.again /\ repo.files[p] # "untracked"
      BY <2>1 DEF V!Untracked
    <3> QED BY <3>1, <3>2, <2>1, <2>2 DEF Hidden
  <2> QED BY <2>2, <2>3, <2>4, <2>5, <2>6 DEF VInv, VerifyWorktree, VerifyPassed
<1>5. CASE V!Evaluate
  <2>1. /\ at = "evaluate" /\ at' = "done"
        /\ seen' = [seen EXCEPT !.passed = V!Verdict(claim, V!Evidence(seen))]
        /\ UNCHANGED <<repo, claim, held, missed, clean, added>>
    BY <1>5 DEF V!Evaluate, V!memory
  <2>k. \A v : Told(v)' <=> Told(v)
    BY <2>1 DEF Told
  <2>2. /\ seen'.head = seen.head /\ seen'.branch = seen.branch /\ seen'.worktree = seen.worktree
        /\ seen'.changed = seen.changed /\ (seen'.passed <=> V!Verdict(claim, V!Evidence(seen)))
    BY <2>1, <1>0 DEF Inspections
  <2>3. seen' \in Inspections
    <3>1. V!Verdict(claim, V!Evidence(seen)) \in BOOLEAN
      <4>1. CASE claim.kind = "repository_clean"
        <5> DEFINE any == seen.changed # {}
        <5>1. V!Verdict(claim, V!Evidence(seen)) = (claim.value = ~any)
          BY <4>1 DEF V!Verdict, V!Observed, V!Evidence, V!Passes
        <5> QED BY <5>1
      <4>2. CASE claim.kind = "repository_changed_path"
        <5>1. V!Verdict(claim, V!Evidence(seen)) = (claim.path \in seen.changed)
          BY <4>2 DEF V!Verdict, V!Observed, V!Evidence, V!Passes
        <5> QED BY <5>1
      <4>3. CASE claim.kind = "worktree_absent"
        <5>1. V!Verdict(claim, V!Evidence(seen)) = ~seen.worktree.present
          BY <4>3 DEF V!Verdict, V!Observed, V!Evidence, V!Passes
        <5> QED BY <5>1
      <4>4. CASE claim.kind = "worktree_locked"
        <5>1. seen.worktree \in V!Worktree
          BY <1>0 DEF Inspections
        <5> QED BY <4>4, <5>1 DEF V!Verdict, V!Observed, V!Evidence, V!Passes, V!Worktree
      <4>5. CASE claim.kind \in {"repository_head", "repository_branch"}
        BY <4>5 DEF V!Verdict, V!Passes
      <4> QED BY <1>0, <4>1, <4>2, <4>3, <4>4, <4>5, RequirementKinds
    <3> QED BY <3>1, <2>1, <1>0 DEF Inspections
  <2>4. V!TypeOK'
    BY <2>1, <2>3, <1>0, <1>a DEF StepNames
  <2>5. /\ claim.kind = "repository_head" => Told(seen.head)
        /\ claim.kind = "repository_branch" => Told(seen.branch)
        /\ claim.kind \in {"worktree_locked", "worktree_absent"} => Told(OfWorktree(claim, seen.worktree))
        /\ claim.kind \in DirtyKinds => (Among(claim, seen.changed) => Told(TRUE))
    BY <2>1 DEF VInv, VerifyHead, VerifyBranch, VerifyWorktree, VerifyListed, Late
  <2> DEFINE verdict == V!Verdict(claim, V!Evidence(seen))
  <2>6. \/ (verdict => held) /\ (~verdict => missed)
        \/ claim.kind \in DirtyKinds /\ ~Among(claim, seen.changed)
    <3>1. claim.kind \in {"repository_head", "repository_branch", "worktree_locked", "worktree_absent"}
              \/ claim.kind \in DirtyKinds
      BY <1>0, RequirementKinds DEF DirtyKinds
    <3> QED BY <1>0, <2>5, <3>1, VerdictOfSeen, Zenon DEF Told
  <2>7. VerifyPassed'
    <3>1. claim.kind \in DirtyKinds /\ (verdict <=> V!Passes(claim, FALSE)) => ~Among(claim, seen.changed)
      <4> SUFFICES ASSUME claim.kind \in DirtyKinds, Among(claim, seen.changed)
                   PROVE  ~(verdict <=> V!Passes(claim, FALSE))
        OBVIOUS
      <4>1. verdict <=> V!Passes(claim, TRUE)
        BY <1>0, VerdictOfSeen
      <4>2. ~(V!Passes(claim, TRUE) <=> V!Passes(claim, FALSE))
        <5>1. CASE claim.kind = "repository_clean"
          <6>1. claim.value \in BOOLEAN
            BY <1>0, <5>1 DEF V!Requirements
          <6> QED BY <5>1, <6>1 DEF V!Passes
        <5>2. CASE claim.kind = "repository_changed_path"
          BY <5>2 DEF V!Passes
        <5> QED BY <5>1, <5>2 DEF DirtyKinds
      <4> QED BY <4>1, <4>2, Zenon
    <3>2. claim.kind \in DirtyKinds /\ ~Among(claim, seen.changed) => (verdict <=> V!Passes(claim, FALSE))
      BY <1>0, VerdictOfSeen
    <3>3. (seen'.passed <=> verdict) /\ claim' = claim /\ seen'.changed = seen.changed /\ held' = held /\ missed' = missed
      BY <2>1, <2>2
    <3> HIDE DEF verdict
    <3> QED BY <2>6, <3>1, <3>2, <3>3, Zenon DEF VerifyPassed
  <2>8. VerifyHead' /\ VerifyBranch' /\ VerifyWorktree'
    BY <2>1, <2>2, <2>5, <2>k DEF VerifyHead, VerifyBranch, VerifyWorktree
  <2>9. VerifyListed' /\ VerifyMissed'
    BY <2>1, <2>2, <2>5, <2>k DEF VInv, VerifyListed, VerifyMissed, Hidden, Late
  <2>10. TrueNow'
    BY <2>1 DEF VInv, TrueNow
  <2> QED BY <2>1, <2>4, <2>7, <2>8, <2>9, <2>10 DEF VInv
<1>6. CASE V!Fail
  <2>1. /\ at' = "idle" /\ seen' = V!Nothing /\ held' = FALSE /\ missed' = FALSE /\ UNCHANGED <<repo, claim>>
        /\ clean' = {} /\ added' = [p \in Paths |-> 0]
    BY <1>6 DEF V!Fail, V!Forget
  <2>a. added' \in [Paths -> 0..2] /\ clean' \in SUBSET Paths
    BY <2>1
  <2>2. V!Nothing \in Inspections
    BY PluginsAssumption DEF Inspections, V!Nothing, V!NoWorktree, V!Worktree, V!Heads
  <2>3. V!TypeOK'
    BY <2>1, <2>2, <2>a, <1>0, <1>a DEF StepNames
  <2> QED BY <2>1, <2>3 DEF VInv, VerifyHead, VerifyBranch, VerifyWorktree, VerifyListed, VerifyMissed, VerifyPassed, Late
<1>7. ASSUME NEW now \in V!Repository, V!Change(now)  PROVE VInv'
  <2>1. repo' = now /\ at # "done" /\ UNCHANGED <<at, seen, claim>>
    BY <1>7 DEF V!Change
  <2>2. CASE at = "idle"
    <3>1. UNCHANGED <<held, missed, clean, added>>
      BY <1>7, <2>2 DEF V!Change, V!memory
    <3>2. V!TypeOK'
      BY <2>1, <3>1, <1>0, <1>a
    <3> QED BY <2>1, <2>2, <3>2 DEF VInv, VerifyHead, VerifyBranch, VerifyWorktree, VerifyListed, VerifyMissed, VerifyPassed, Late
  <2>3. CASE at # "idle"
    <3>1. V!Witness(now)
      BY <1>7, <2>3 DEF V!Change
    <3>2. /\ held' \in BOOLEAN /\ missed' \in BOOLEAN
          /\ clean' \in SUBSET Paths /\ added' \in [Paths -> 0..2]
          /\ (held => held') /\ (missed => missed') /\ clean \subseteq clean'
          /\ \A p \in Paths :
                 /\ added[p] # 0 => added'[p] # 0
                 /\ added[p] = 2 => added'[p] = 2
                 /\ repo.files[p] = "untracked" /\ repo'.files[p] = "modified" =>
                        added'[p] # 0 /\ (added[p] # 0 => added'[p] = 2)
          /\ TrueNow'
      <4>1. repo' = now /\ UNCHANGED claim
        BY <2>1
      <4>2. held \in BOOLEAN /\ missed \in BOOLEAN /\ clean \in SUBSET Paths /\ added \in [Paths -> 0..2]
        BY <1>0
      <4> QED BY <3>1, <4>1, <4>2, WitnessTells
    <3>3. V!TypeOK'
      BY <2>1, <3>2, <1>0, <1>a
    <3>k. ASSUME NEW v, Told(v)  PROVE Told(v)'
      BY <3>k, <3>2, <2>1 DEF Told
    <3>4. VerifyHead' /\ VerifyBranch' /\ VerifyWorktree'
      BY <2>1, <3>k DEF VInv, VerifyHead, VerifyBranch, VerifyWorktree
    <3>5. VerifyListed'
      BY <2>1, <3>k DEF VInv, VerifyListed, Late
    <3>6. VerifyMissed'
      <4> SUFFICES ASSUME Late, NEW p \in Paths \ seen.changed, p \notin clean'  PROVE Hidden(p)'
        BY <2>1 DEF VerifyMissed, Late
      <4>1. Hidden(p)
        BY <3>2 DEF VInv, VerifyMissed
      <4>2. repo'.files[p] \in {"modified", "untracked"}
        <5>1. repo'.files[p] \in {"same", "modified", "untracked"}
          BY <2>1, <1>7 DEF V!Repository
        <5> QED BY <5>1, <3>2 DEF TrueNow
      <4> QED BY <4>1, <4>2, <3>2, <2>1 DEF Hidden
    <3>7. VerifyPassed'
      BY <2>1 DEF VerifyPassed
    <3> QED BY <3>2, <3>3, <3>4, <3>5, <3>6, <3>7 DEF VInv
  <2> QED BY <2>2, <2>3
<1>8. CASE V!People
  <2>1. ASSUME NEW h \in V!Heads, NEW b \in Branches, NEW files \in [Paths -> {"same", "modified", "untracked"}]
        PROVE  [repo EXCEPT !.head = h, !.branch = b, !.files = files] \in V!Repository
    BY <1>0 DEF V!Repository
  <2>2. ASSUME NEW w \in V!Worktree  PROVE [repo EXCEPT !.worktree = w] \in V!Repository
    BY <1>0 DEF V!Repository
  <2> QED BY <1>8, <2>1, <2>2, <1>7 DEF V!People
<1>9. CASE UNCHANGED V!vars
  <2>1. UNCHANGED <<repo, at, seen, claim, held, missed, clean, added>>
    BY <1>9 DEF V!vars
  <2>2. V!TypeOK'
    BY <2>1, <1>0, <1>a
  <2> QED BY <2>1, <2>2 DEF VInv, VerifyHead, VerifyBranch, VerifyWorktree, VerifyListed, VerifyMissed, Hidden, VerifyPassed, Late, Told, TrueNow
<1> QED BY <1>1, <1>2, <1>3, <1>4, <1>5, <1>6, <1>8, <1>9 DEF V!Next

LEMMA VerifyHeld == VInv => V!VerdictsHeld
<1> SUFFICES ASSUME VInv, at = "done"
             PROVE  CASE claim.kind = "repository_clean" /\ seen.passed = claim.value -> \A p \in Paths : V!Missable(p)
                      [] claim.kind = "repository_changed_path" /\ ~seen.passed -> V!Missable(claim.path)
                      [] OTHER -> IF seen.passed THEN held ELSE missed
  BY DEF V!VerdictsHeld
<1>1. claim \in V!Requirements /\ seen.passed \in BOOLEAN
  BY StepsTyped DEF VInv, Inspections
<1>2. \A p \in Paths \ seen.changed : V!Missable(p)
  BY DEF VInv, VerifyMissed, Hidden, Late, V!Missable
<1>3. CASE claim.kind = "repository_clean" /\ seen.passed = claim.value
  <2>1. claim.kind \in DirtyKinds /\ (seen.passed <=> V!Passes(claim, FALSE))
    BY <1>1, <1>3 DEF V!Passes, DirtyKinds
  <2>2. seen.changed = {}
    BY <2>1, <1>3 DEF VInv, VerifyPassed, Among
  <2> QED BY <1>2, <1>3, <2>2
<1>4. CASE claim.kind = "repository_changed_path" /\ ~seen.passed
  <2>1. claim.kind \in DirtyKinds /\ (seen.passed <=> V!Passes(claim, FALSE))
    BY <1>4 DEF V!Passes, DirtyKinds
  <2>2. claim.path \in Paths \ seen.changed
    BY <2>1, <1>1, <1>4 DEF VInv, VerifyPassed, Among, V!Requirements
  <2> QED BY <1>2, <1>4, <2>2
<1>5. CASE ~(claim.kind = "repository_clean" /\ seen.passed = claim.value)
           /\ ~(claim.kind = "repository_changed_path" /\ ~seen.passed)
  <2>1. ~(claim.kind \in DirtyKinds /\ (seen.passed <=> V!Passes(claim, FALSE)))
    <3>1. claim.kind = "repository_clean" => claim.value \in BOOLEAN
      BY <1>1 DEF V!Requirements
    <3> QED BY <1>1, <1>5, <3>1 DEF V!Passes, DirtyKinds
  <2>2. IF seen.passed THEN held ELSE missed
    BY <2>1 DEF VInv, VerifyPassed
  <2> QED BY <1>5, <2>2
<1> QED BY <1>3, <1>4, <1>5

LEMMA VerifyKept == MCSpec => [](part = "verify" => VInv)
<1> DEFINE Inv == part = "verify" => VInv
<1>1. MCInit => Inv
  BY VerifyInit DEF MCInit
<1>2. Inv /\ [MCNext]_mcVars => Inv'
  <2> SUFFICES ASSUME Inv, [MCNext]_mcVars, part' = "verify"  PROVE VInv'
    OBVIOUS
  <2>1. VInv /\ [V!Next]_V!vars
    BY DEF MCNext, mcVars, verifyVars, V!vars
  <2> QED BY <2>1, VerifyStep
<1> QED BY <1>1, <1>2, PTL DEF MCSpec

\* For any branches, heads and files, and whatever people do between the git commands of
\* verify_repository: every verdict was true of the repository at some moment of the call;
\* but a path that is taken to be unchanged may also have been added to the index twice
\* meanwhile, and all paths need not have been unchanged at the same moment.
THEOREM VerdictsHeldOnce == MCSpec => []VerdictsHeld
<1>1. (part = "verify" => VInv) => VerdictsHeld
  BY VerifyHeld DEF VerdictsHeld
<1> QED BY <1>1, VerifyKept, PTL
=============================================================================
