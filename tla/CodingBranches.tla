---------------------------- MODULE CodingBranches ----------------------------
(***************************************************************************)
(* The tools that move refs: create a branch, delete one, commit.  Each is *)
(* a row of git commands, each atomic, and each may fail or be given up    *)
(* after five seconds with or without its effect.  Between the commands    *)
(* of one call other calls run, and people at work in the same checkout    *)
(* commit, switch branches and stage.                                      *)
(***************************************************************************)
EXTENDS Naturals, Sequences

CONSTANTS
    Branches, Callers,
    MaxCommits  \* bound: commits made

VARIABLES
    tips,      \* tips[b]: the commit of refs/heads/b, 0 if there is none
    head,      \* HEAD: the branch it is attached to, or the commit
    index,     \* the staging area: the commit it started from, and whether more is staged
    commits,   \* the n-th commit: the commits it descends from, and what its tree started from
    call,      \* calls under way
    published, \* commits that were put on a branch
    dropped    \* commits a delete was told to expect

vars == <<tips, head, index, commits, call, published, dropped>>

Ids == 1..MaxCommits
Idle == [at |-> "idle", branch |-> CHOOSE b \in Branches : TRUE, expected |-> 0, tree |-> [base |-> 0, staged |-> FALSE]]
Staging == [base : 0..MaxCommits, staged : BOOLEAN]

TypeOK ==
    /\ tips \in [Branches -> 0..MaxCommits] /\ head \in Branches \cup Ids /\ index \in Staging
    /\ commits \in Seq([up : SUBSET Ids, parent : 0..MaxCommits, from : Ids]) /\ Len(commits) <= MaxCommits
    /\ call \in [Callers -> [at : {"idle", "listed", "attached", "current", "written"},
                             branch : Branches \cup Ids, expected : 0..MaxCommits, tree : Staging]]
    /\ published \cup dropped \subseteq Ids

Init ==
    /\ head \in Branches /\ tips = [b \in Branches |-> IF b = head THEN 1 ELSE 0]
    /\ index = [base |-> 1, staged |-> FALSE]
    /\ commits = <<[up |-> {1}, parent |-> 0, from |-> 1]>>
    /\ call = [c \in Callers |-> Idle] /\ published = {1} /\ dropped = {}

Tip == IF head \in Branches THEN tips[head] ELSE head
Fresh == Len(commits) + 1
End(c) == call' = [call EXCEPT ![c] = Idle]

\* A commit of tree t on parent p.
Made(p, t) == Append(commits, [up |-> commits[p].up \cup {Fresh}, parent |-> p, from |-> t.base])

-----------------------------------------------------------------------------
\* create_branch: one transaction verifies HEAD and creates the ref.
CreateBranch(b, e) ==
    /\ Tip = e /\ tips[b] = 0 /\ e # 0 /\ tips' = [tips EXCEPT ![b] = e]
    /\ UNCHANGED <<head, index, commits, call, published, dropped>>

\* delete_branch: the branch is checked out nowhere.
List(c, b, e) ==
    /\ call[c].at = "idle" /\ head # b
    /\ call' = [call EXCEPT ![c] = [Idle EXCEPT !.at = "listed", !.branch = b, !.expected = e]]
    /\ UNCHANGED <<tips, head, index, commits, published, dropped>>

\* update-ref -d with the old value.
Delete(c) ==
    LET b == call[c].branch
        e == call[c].expected
    IN  /\ call[c].at = "listed" /\ End(c)
        /\ IF tips[b] = e
           THEN tips' = [tips EXCEPT ![b] = 0] /\ dropped' = dropped \cup commits[e].up
           ELSE UNCHANGED <<tips, dropped>>
        /\ UNCHANGED <<head, index, commits, published>>

\* commit: HEAD is attached to a branch,
Attach(c, e) ==
    /\ call[c].at = "idle" /\ head \in Branches
    /\ call' = [call EXCEPT ![c] = [Idle EXCEPT !.at = "attached", !.branch = head, !.expected = e]]
    /\ UNCHANGED <<tips, head, index, commits, published, dropped>>

\* and still where the caller saw it;
Compare(c) ==
    /\ call[c].at = "attached"
    /\ IF Tip = call[c].expected THEN call' = [call EXCEPT ![c].at = "current"] ELSE End(c)
    /\ UNCHANGED <<tips, head, index, commits, published, dropped>>

\* write-tree; a tree that is the parent's is no commit;
WriteTree(c) ==
    /\ call[c].at = "current"
    /\ IF index = [base |-> call[c].expected, staged |-> FALSE] THEN End(c)
       ELSE call' = [call EXCEPT ![c].at = "written", ![c].tree = index]
    /\ UNCHANGED <<tips, head, index, commits, published, dropped>>

\* Mutant: update-ref without the old value.
UpdateAnyway(c) ==
    LET b == call[c].branch
        e == call[c].expected
    IN  /\ call[c].at = "written" /\ End(c) /\ UNCHANGED <<head, dropped>>
        /\ Fresh <= MaxCommits /\ tips' = [tips EXCEPT ![b] = Fresh]
        /\ commits' = Made(e, call[c].tree) /\ published' = published \cup {Fresh}
        /\ IF head = b /\ index.base = e
           THEN \E more \in BOOLEAN : index' = [base |-> Fresh, staged |-> more]
           ELSE UNCHANGED index

\* commit-tree, and update-ref with the old value.  What was staged meanwhile stays so.
Update(c) ==
    LET b == call[c].branch
        e == call[c].expected
    IN  /\ call[c].at = "written" /\ End(c) /\ UNCHANGED <<head, dropped>>
        /\ IF tips[b] = e
           THEN /\ Fresh <= MaxCommits /\ tips' = [tips EXCEPT ![b] = Fresh]
                /\ commits' = Made(e, call[c].tree) /\ published' = published \cup {Fresh}
                /\ IF head = b /\ index.base = e
                   THEN \E more \in BOOLEAN : index' = [base |-> Fresh, staged |-> more]
                   ELSE UNCHANGED index
           ELSE UNCHANGED <<tips, commits, published, index>>

\* A git command fails, or is given up.
Fail(c) ==
    /\ call[c].at # "idle" /\ End(c)
    /\ UNCHANGED <<tips, head, index, commits, published, dropped>>

-----------------------------------------------------------------------------
(* People at work in the checkout.                                         *)

Stage ==
    /\ index' = [index EXCEPT !.staged = TRUE]
    /\ UNCHANGED <<tips, head, commits, call, published, dropped>>

Commit ==
    /\ head \in Branches /\ Tip # 0 /\ index.staged /\ Fresh <= MaxCommits
    /\ commits' = Made(Tip, index) /\ tips' = [tips EXCEPT ![head] = Fresh]
    /\ published' = published \cup {Fresh} /\ index' = [base |-> Fresh, staged |-> FALSE]
    /\ UNCHANGED <<head, call, dropped>>

Checkout(h) ==
    /\ head' = h /\ LET tip == IF h \in Branches THEN tips[h] ELSE h
                    IN  tip # 0 /\ index' = [index EXCEPT !.base = tip]
    /\ UNCHANGED <<tips, commits, call, published, dropped>>

Next ==
    \/ Stage \/ Commit
    \/ \E h \in Branches \cup DOMAIN commits : Checkout(h)
    \/ \E b \in Branches, e \in DOMAIN commits : CreateBranch(b, e)
    \/ \E c \in Callers : \/ Delete(c) \/ Compare(c) \/ WriteTree(c) \/ Update(c) \/ Fail(c)
                          \/ \E e \in DOMAIN commits : Attach(c, e) \/ \E b \in Branches : List(c, b, e)

Spec == Init /\ [][Next]_vars

-----------------------------------------------------------------------------
(* Properties.                                                             *)

\* A commit that was put on a branch, by a tool or a person, stays within reach of a branch,
\* unless a delete was told to expect it: no call overwrites what came between its commands.
NoLostCommit ==
    published \subseteq dropped \cup UNION {commits[tips[b]].up : b \in {x \in Branches : tips[x] # 0}}

\* README: commit "consumes only the staged index, [...] refuses stale HEAD": what it
\* commits on a parent was staged on that parent.
StagedOnParent == \A n \in DOMAIN commits : commits[n].parent # 0 => commits[n].from = commits[n].parent
=============================================================================
