----------------------------- MODULE CodingVerify -----------------------------
(***************************************************************************)
(* coding.spec.check-repository: a declarative SPEC is compiled, the       *)
(* repository is inspected with one git command after the other, and the   *)
(* requirements are evaluated against what was seen.  Meanwhile people     *)
(* edit, stage and unstage files, commit, reset, switch branches and lock  *)
(* worktrees.  One worktree path stands for all: no requirement is about   *)
(* two of them.                                                            *)
(***************************************************************************)
EXTENDS Naturals, Sequences, FiniteSets

CONSTANTS
    Branches,
    Paths,    \* files of the repository
    MaxHead   \* bound: commits; a new commit is a new head

VARIABLES
    repo,   \* the repository
    at,     \* the git command the call is at
    seen,   \* what the call has read
    claim,  \* the requirement of the SPEC that is looked at
    held,   \* it held at some moment of the call
    missed, \* it did not, at some moment of the call
    clean,  \* paths that were unchanged at some moment of the call
    added   \* how often each untracked path was put under git's control in the call, up to two

vars == <<repo, at, seen, claim, held, missed, clean, added>>

Heads == 1..MaxHead
Worktree == {w \in [present : BOOLEAN, head : Heads, locked : BOOLEAN] :
                w.present \/ (w.head = 1 /\ ~w.locked)}
\* A path is as in HEAD; or modified, deleted or added to the index, which git diff lists;
\* or untracked, which git ls-files --others lists.
Repository == [head : Heads, branch : Branches, files : [Paths -> {"same", "modified", "untracked"}],
               worktree : Worktree]
Modified(now) == {p \in Paths : now.files[p] = "modified"}
Untracked(now) == {p \in Paths : now.files[p] = "untracked"}

\* What a SPEC may require of HEAD, the branch, the clean state, a changed path, a locked
\* and an absent worktree.
Requirements ==
    [kind : {"repository_head"}, value : Heads]
    \cup [kind : {"repository_branch"}, value : Branches]
    \cup [kind : {"repository_clean"}, value : BOOLEAN]
    \cup [kind : {"repository_changed_path"}, path : Paths]
    \cup [kind : {"worktree_absent"}]
    \cup [kind : {"worktree_locked"}, value : Heads]

Steps == <<"idle", "compile", "head", "branch", "diff", "others", "headAgain", "branchAgain",
           "diffAgain", "othersAgain", "worktrees", "evaluate", "done">>
After(s) == Steps[1 + CHOOSE i \in DOMAIN Steps : Steps[i] = s]

TypeOK ==
    /\ repo \in Repository /\ \E i \in DOMAIN Steps : at = Steps[i]
    /\ seen \in [head : Heads, branch : Branches, changed : SUBSET Paths, again : SUBSET Paths,
                 worktree : Worktree, passed : BOOLEAN]
    /\ claim \in Requirements /\ held \in BOOLEAN /\ missed \in BOOLEAN
    /\ clean \in SUBSET Paths /\ added \in [Paths -> 0..2]

-----------------------------------------------------------------------------
(* Evidence and evaluators.                                                *)

\* build_repository_evidence and _repository_payload: dirty is that anything is changed.
Evidence(s) == [head |-> s.head, branch |-> s.branch, changed |-> s.changed, dirty |-> s.changed # {},
                worktree |-> s.worktree]

\* repository_value: the observation a requirement is evaluated on.
Observed(r, e) ==
    CASE r.kind = "repository_head" -> e.head
      [] r.kind = "repository_branch" -> e.branch
      [] r.kind = "repository_clean" -> e.dirty
      [] r.kind = "repository_changed_path" -> r.path \in e.changed
      [] r.kind = "worktree_locked" -> e.worktree
      [] r.kind = "worktree_absent" -> e.worktree.present

\* The evaluators of zara_coding_assertions.pl.
Passes(r, v) ==
    CASE r.kind \in {"repository_head", "repository_branch"} -> v = r.value
      [] r.kind = "repository_clean" -> r.value = ~v
      [] r.kind = "repository_changed_path" -> v
      [] r.kind = "worktree_locked" -> v.present /\ v.head = r.value /\ v.locked
      [] r.kind = "worktree_absent" -> ~v

Verdict(r, e) == Passes(r, Observed(r, e))

\* What is true of a repository.
True(r, now) ==
    Verdict(r, Evidence([head |-> now.head, branch |-> now.branch, worktree |-> now.worktree,
                         changed |-> Modified(now) \cup Untracked(now)]))

\* What the repository has come to be is remembered for the rest of the call.
Witness(now) ==
    /\ held' = (held \/ True(claim, now))
    /\ missed' = (missed \/ ~True(claim, now))
    /\ clean' = clean \cup {p \in Paths : now.files[p] = "same"}
    /\ added' = [p \in Paths |-> IF p \in Untracked(repo) \cap Modified(now) /\ added[p] < 2
                                  THEN added[p] + 1 ELSE added[p]]

Forget == held' = FALSE /\ missed' = FALSE /\ clean' = {} /\ added' = [p \in Paths |-> 0]

-----------------------------------------------------------------------------
NoWorktree == [present |-> FALSE, head |-> 1, locked |-> FALSE]
Nothing == [head |-> 1, branch |-> CHOOSE b \in Branches : TRUE, changed |-> {}, again |-> {},
            worktree |-> NoWorktree, passed |-> FALSE]

Init ==
    /\ \E b \in Branches :
           repo = [head |-> 1, branch |-> b, files |-> [p \in Paths |-> "same"], worktree |-> NoWorktree]
    /\ at = "idle" /\ seen = Nothing /\ claim \in Requirements
    /\ held = FALSE /\ missed = FALSE /\ clean = {} /\ added = [p \in Paths |-> 0]

memory == <<held, missed, clean, added>>

\* check_repository_spec, or verify_repository_spec with a SPEC frozen before.
Call ==
    /\ at = "idle" /\ at' \in {"compile", "head"}
    /\ Witness(repo) /\ UNCHANGED <<repo, seen, claim>>

Compile == at = "compile" /\ at' = "head" /\ UNCHANGED <<repo, seen, claim, memory>>

\* One command of inspect, _changed_paths (diff, then ls-files) or worktrees.
Read ==
    /\ at \in {"head", "branch", "diff", "others", "diffAgain", "worktrees"}
    /\ at' = After(at)
    /\ seen' = CASE at = "head" -> [seen EXCEPT !.head = repo.head]
                 [] at = "branch" -> [seen EXCEPT !.branch = repo.branch]
                 [] at = "diff" -> [seen EXCEPT !.changed = Modified(repo)]
                 [] at = "others" -> [seen EXCEPT !.changed = @ \cup Untracked(repo)]
                 [] at = "diffAgain" -> [seen EXCEPT !.again = Modified(repo)]
                 [] at = "worktrees" -> [seen EXCEPT !.worktree = repo.worktree]
    /\ UNCHANGED <<repo, claim, memory>>

\* Mutant: the changed paths are not compared.
CompareIdentity ==
    /\ \/ at = "headAgain" /\ repo.head = seen.head
       \/ at = "branchAgain" /\ repo.branch = seen.branch
       \/ at = "othersAgain"
    /\ at' = After(at) /\ seen' = [seen EXCEPT !.again = {}] /\ UNCHANGED <<repo, claim, memory>>

\* The second reading is the first, else the call fails.
Compare ==
    /\ \/ at = "headAgain" /\ repo.head = seen.head
       \/ at = "branchAgain" /\ repo.branch = seen.branch
       \/ at = "othersAgain" /\ seen.again \cup Untracked(repo) = seen.changed
    /\ at' = After(at) /\ seen' = [seen EXCEPT !.again = {}] /\ UNCHANGED <<repo, claim, memory>>

\* verify_repository_spec, in a process of its own.
Evaluate ==
    /\ at = "evaluate" /\ at' = "done"
    /\ seen' = [seen EXCEPT !.passed = Verdict(claim, Evidence(seen))]
    /\ UNCHANGED <<repo, claim, memory>>

\* A command fails, a reading differs, the SPEC is rejected.
Fail ==
    /\ at \notin {"idle", "done"} /\ at' = "idle"
    /\ seen' = Nothing /\ Forget /\ UNCHANGED <<repo, claim>>

\* People: any command, or edit, that changes files, head and branch, or the worktree.
Change(now) ==
    /\ repo' = now /\ at # "done" /\ UNCHANGED <<at, seen, claim>>
    /\ IF at = "idle" THEN UNCHANGED memory ELSE Witness(now)

People ==
    \/ \E h \in Heads, b \in Branches, files \in [Paths -> {"same", "modified", "untracked"}] :
           Change([repo EXCEPT !.head = h, !.branch = b, !.files = files])
    \/ \E w \in Worktree : Change([repo EXCEPT !.worktree = w])

Next == Call \/ Compile \/ Read \/ Compare \/ Evaluate \/ Fail \/ People

Spec == Init /\ [][Next]_vars

-----------------------------------------------------------------------------
(* Properties.                                                             *)

\* The readings miss a change of the path only if it was unchanged at some moment of the
\* call, or was twice untracked when git diff looked and added when git ls-files did.
Missable(p) == p \in clean \/ added[p] = 2

\* Though nothing is locked while the call reads, each verdict, taken alone, is the truth
\* of some moment of the call - but for one that rests on a path being unchanged: the
\* lists that are compared are each made of two readings, so a path is not in them that
\* was unchanged at some moment, not one and the same for all paths, or one that people
\* added to the index, took out and added again.
VerdictsHeld ==
    at = "done" =>
        CASE claim.kind = "repository_clean" /\ seen.passed = claim.value -> \A p \in Paths : Missable(p)
          [] claim.kind = "repository_changed_path" /\ ~seen.passed -> Missable(claim.path)
          [] OTHER -> IF seen.passed THEN held ELSE missed
=============================================================================
