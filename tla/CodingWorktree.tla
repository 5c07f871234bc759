---------------------------- MODULE CodingWorktree ----------------------------
(***************************************************************************)
(* The tools on linked worktrees, at one target path: add a detached one,  *)
(* perhaps locked, lock, unlock, remove.  Every call is a row of git       *)
(* commands with a check of the listed worktree before and after.  A git   *)
(* command is one step; it may fail, or be given up after five seconds     *)
(* with its effect done, and git worktree remove with half of it.  Calls   *)
(* interleave with each other and with people who use git on the path.     *)
(***************************************************************************)
EXTENDS Naturals

CONSTANTS
    Heads, Reasons, Callers,
    Free,      \* no lock
    MaxMade,   \* bound: worktrees and other directories made at the path
    MaxPeople  \* bound: steps of people

VARIABLES
    tree,   \* what git lists at the target, and what the disk has
    made,   \* worktrees and other directories made at the path: each has its number
    people, \* steps of people so far
    call    \* calls, and how they ended

vars == <<tree, made, people, call>>

Gone == [id |-> 0, listed |-> FALSE, dir |-> FALSE, head |-> CHOOSE h \in Heads : TRUE,
         detached |-> FALSE, lock |-> Free, dirty |-> FALSE]
Ops == {"add", "addLocked", "lock", "unlock", "remove"}
NoCall == [op |-> "none", at |-> "idle", head |-> Gone.head, reason |-> Free,
           id |-> 0, undo |-> FALSE, result |-> "none"]

TypeOK ==
    /\ tree \in [id : 0..MaxMade, listed : BOOLEAN, dir : BOOLEAN, head : Heads,
                 detached : BOOLEAN, lock : Reasons \cup {Free}, dirty : BOOLEAN]
    /\ made \in 0..MaxMade /\ people \in 0..MaxPeople
    /\ call \in [Callers -> [op : Ops \cup {"none"}, head : Heads, reason : Reasons \cup {Free},
                             at : {"idle", "add", "prove", "findLock", "lock", "proveLock", "unlock",
                                   "find", "remove", "proveList", "proveDir"},
                             id : 0..MaxMade, undo : BOOLEAN,
                             result : {"none", "ok", "failed", "rolledBack", "stuck"}]]

Init == tree = Gone /\ made = 0 /\ people = 0 /\ call = [c \in Callers |-> NoCall]

-----------------------------------------------------------------------------
Goto(c, at) == call' = [call EXCEPT ![c].at = at]
End(c, result) == call' = [call EXCEPT ![c].at = "idle", ![c].result = result]

\* A step of the call fails: what addLocked has made is taken back, and a failure to
\* take it back is told.
Failed(c) ==
    IF call[c].undo THEN End(c, "stuck")
    ELSE IF call[c].at \in {"prove", "findLock", "lock", "proveLock"} /\ call[c].op \in {"add", "addLocked"}
    THEN call' = [call EXCEPT ![c].at = "find", ![c].undo = TRUE]
    ELSE End(c, "failed")

\* _find_worktree and _require_lockable_detached: the path, the head and that no branch
\* is on it are all that is compared.  Prunable, to git, is a worktree without a
\* directory unless it is locked.
Lockable(c) ==
    tree.listed /\ tree.detached /\ tree.head = call[c].head /\ (tree.dir \/ tree.lock # Free)

\* A call begins.
Begin(c, op, h, r) ==
    /\ call[c].op = "none"
    /\ LET at == CASE op = "add" \/ op = "addLocked" -> "add"
                   [] op = "lock" -> "findLock"
                   [] op = "unlock" -> "find"
                   [] op = "remove" -> "find"
       IN call' = [call EXCEPT ![c] = [NoCall EXCEPT !.op = op, !.at = at, !.head = h,
                                       !.reason = IF op \in {"add", "remove"} THEN Free ELSE r]]
    /\ UNCHANGED <<tree, made, people>>

\* add_detached_worktree: the target does not exist; git worktree add.
Add(c) ==
    /\ call[c].at = "add" /\ UNCHANGED people
    /\ IF tree.dir \/ tree.listed THEN End(c, "failed") /\ UNCHANGED <<tree, made>>
       ELSE /\ made < MaxMade /\ made' = made + 1
            /\ tree' = [Gone EXCEPT !.id = made + 1, !.listed = TRUE, !.dir = TRUE,
                                    !.head = call[c].head, !.detached = TRUE]
            /\ \/ call' = [call EXCEPT ![c].at = "prove", ![c].id = made + 1]
               \/ End(c, "failed")

\* The new worktree is listed as it was asked for.
Prove(c) ==
    /\ call[c].at = "prove" /\ UNCHANGED <<tree, made, people>>
    /\ IF ~(tree.listed /\ tree.detached /\ tree.head = call[c].head) THEN Failed(c)
       ELSE IF call[c].op = "add" THEN End(c, "ok")
       ELSE Goto(c, "findLock")

\* lock_worktree
FindLock(c) ==
    /\ call[c].at = "findLock" /\ UNCHANGED <<tree, made, people>>
    /\ IF Lockable(c) /\ tree.lock = Free THEN Goto(c, "lock") ELSE Failed(c)

Lock(c) ==
    /\ call[c].at = "lock" /\ UNCHANGED <<made, people>>
    /\ IF tree.listed /\ tree.lock = Free
       THEN /\ tree' = [tree EXCEPT !.lock = call[c].reason]
            /\ Goto(c, "proveLock") \/ Failed(c)
       ELSE Failed(c) /\ UNCHANGED tree

ProveLock(c) ==
    /\ call[c].at = "proveLock" /\ UNCHANGED <<tree, made, people>>
    /\ IF Lockable(c) /\ tree.lock = call[c].reason THEN End(c, "ok") ELSE Failed(c)

\* unlock_worktree, remove_detached_worktree and _rollback_created_worktree: the worktree
\* is found as expected;
Find(c) ==
    /\ call[c].at = "find" /\ UNCHANGED <<tree, made, people>>
    /\ IF ~Lockable(c) THEN Failed(c)
       ELSE IF call[c].op = "unlock" THEN IF tree.lock = call[c].reason THEN Goto(c, "unlock") ELSE Failed(c)
       ELSE IF tree.lock # Free THEN Failed(c)
       ELSE call' = [call EXCEPT ![c].at = "remove", ![c].id = IF call[c].undo THEN @ ELSE tree.id]

Unlock(c) ==
    /\ call[c].at = "unlock" /\ UNCHANGED <<made, people>>
    /\ IF tree.listed /\ tree.lock # Free
       THEN tree' = [tree EXCEPT !.lock = Free] /\ (End(c, "ok") \/ Failed(c))
       ELSE Failed(c) /\ UNCHANGED tree

\* git worktree remove, which refuses what is locked or has changes: it may leave the
\* directory behind, or be stopped with some files deleted;
Remove(c) ==
    /\ call[c].at = "remove" /\ UNCHANGED <<made, people>>
    /\ IF tree.listed /\ tree.lock = Free /\ ~(tree.dir /\ tree.dirty)
       THEN /\ \/ tree' = Gone
               \/ tree.dir /\ tree' = [tree EXCEPT !.listed = FALSE]
               \/ tree.dir /\ tree' = [tree EXCEPT !.dirty = TRUE]
            /\ Goto(c, "proveList") \/ Failed(c)
       ELSE Failed(c) /\ UNCHANGED tree

\* Mutant: the disk is not looked at.
ProveListOnly(c) ==
    /\ call[c].at = "proveList" /\ UNCHANGED <<tree, made, people>>
    /\ IF tree.listed THEN Failed(c)
       ELSE IF call[c].undo THEN End(c, "rolledBack") ELSE End(c, "ok")

\* and, whatever it answered, absence is proved: from the list and from the disk.
ProveList(c) ==
    /\ call[c].at = "proveList" /\ UNCHANGED <<tree, made, people>>
    /\ IF tree.listed THEN Failed(c) ELSE Goto(c, "proveDir")

ProveDir(c) ==
    /\ call[c].at = "proveDir" /\ UNCHANGED <<tree, made, people>>
    /\ IF tree.dir THEN Failed(c)
       ELSE IF call[c].undo THEN End(c, "rolledBack") ELSE End(c, "ok")

\* A git command fails or is given up, without effect.
Fail(c) == call[c].at # "idle" /\ Failed(c) /\ UNCHANGED <<tree, made, people>>

\* People, with git, mkdir and rm: another worktree, a directory that is none, another head
\* or branch, a change, a lock, an unlock, a removal, a deleted directory.
People ==
    /\ people < MaxPeople /\ people' = people + 1 /\ UNCHANGED call
    /\ \/ /\ ~tree.listed /\ ~tree.dir /\ made < MaxMade /\ made' = made + 1
          /\ \E h \in Heads, d \in BOOLEAN :
                 tree' = [Gone EXCEPT !.id = made + 1, !.listed = TRUE, !.dir = TRUE, !.head = h, !.detached = d]
       \/ /\ ~tree.listed /\ ~tree.dir /\ made < MaxMade /\ made' = made + 1
          /\ tree' = [Gone EXCEPT !.id = made + 1, !.dir = TRUE]
       \/ ~tree.listed /\ tree.dir /\ tree' = Gone /\ UNCHANGED made
       \/ /\ tree.listed /\ UNCHANGED made
          /\ \/ \E h \in Heads, d \in BOOLEAN : tree.dir /\ tree' = [tree EXCEPT !.head = h, !.detached = d]
             \/ tree.dir /\ tree' = [tree EXCEPT !.dirty = TRUE]
             \/ \E r \in Reasons \cup {Free} : tree' = [tree EXCEPT !.lock = r]
             \/ tree' = [tree EXCEPT !.dir = FALSE]
             \/ tree.lock = Free /\ tree' = Gone

Next ==
    \/ People
    \/ \E c \in Callers :
         \/ Add(c) \/ Prove(c) \/ FindLock(c) \/ Lock(c) \/ ProveLock(c) \/ Find(c)
         \/ Unlock(c) \/ Remove(c) \/ ProveList(c) \/ ProveDir(c) \/ Fail(c)
         \/ \E op \in Ops, h \in Heads, r \in Reasons : Begin(c, op, h, r)

Spec == Init /\ [][Next]_vars

-----------------------------------------------------------------------------
(* Properties.                                                             *)

\* What a call tells to be removed or rolled back - the worktree it found, or the one it
\* had made - is neither listed nor on the disk from then on, though git worktree remove
\* left half of it, was given up, or somebody else removed it and made another worktree or
\* directory there.  It says no more than that: the rollback knows the worktree it made by
\* path and head alone, so it deletes another one that people put in its place with the
\* same head, and tells "rolled back" of it.
ReportedGone ==
    \A c \in Callers :
        \/ call[c].result = "rolledBack"
        \/ call[c].op = "remove" /\ call[c].result = "ok"
        => ~((tree.listed \/ tree.dir) /\ tree.id = call[c].id)

\* README: "a caller cannot silently clear another coordination lock".
UnlocksOwnLock ==
    [][\A c \in Callers : call[c].at = "unlock" /\ call'[c].result = "ok" /\ call[c].result # "ok"
                              => tree.lock = call[c].reason]_vars
=============================================================================
