------------------------------- MODULE MCPlugins -------------------------------
(***************************************************************************)
(* Plugins that share no state with each other: each behaviour exercises   *)
(* one of them, the part the first state names; the others stay unused.    *)
(* The expert host is extended, so that its property is checked under the  *)
(* name its proof states; it stays at its start when unused.               *)
(***************************************************************************)
EXTENDS ExpertHost, FiniteSets

CONSTANTS CodingCallers, Tasks, Kinds, MaxTasks, MaxEvidence, MaxStarts,
          Branches, MaxCommits,
          TreeHeads, Reasons, Free, MaxMade, MaxPeople,
          Paths, MaxHead,
          None, MaxChanges,
          Signatures, MaxInvocations, MaxDepth, MaxFanOut, MaxCalls, MaxGeneration,
          PageLimit, MaxRewritten, MaxOverlays

VARIABLES part, plugin, starts, process, tasks, caller, tips, head, index, commits, refCall,
          published, dropped, tree, made, people, treeCall, repo, at, seen, claim, held, missed, clean, added,
          family, bound, lock, todo, result, shared, changes, text, budget, saved, spent, frames, step, taken, generation, cancelled, fence,
          calls, outcome, call, stage, current, answer, honest, aliased, raced, registries, runtime,
          down, listing, steps, pick, workspace, stopped, chainFence, claims, book, link, language,
          read, submitted, resolved, asked, checked, overlays, moved, style

tasksVars == <<plugin, starts, process, tasks, caller>>
branchesVars == <<tips, head, index, commits, refCall, published, dropped>>
worktreeVars == <<tree, made, people, treeCall>>
verifyVars == <<repo, at, seen, claim, held, missed, clean, added>>
languageVars == <<family, bound, lock, todo, result, shared, changes, text>>
compositionVars == <<budget, saved, spent, frames, step, taken, generation, cancelled, fence, calls,
    outcome>>
repairVars == <<call, stage, current, answer, honest, aliased, raced>>
catalogVars == <<registries, runtime, down, listing, steps, pick>>
styleVars == <<workspace, stopped, chainFence, claims, book, link, language, read, submitted, resolved, asked,
    checked>>
overlaysVars == <<overlays, moved, style>>
mcVars == <<part, tasksVars, branchesVars, worktreeVars, verifyVars, languageVars, vars,
    compositionVars, repairVars, catalogVars, styleVars, overlaysVars>>

\* There is a branch, a head and something to style, and the bounds are numbers.
ASSUME PluginsAssumption ==
    /\ Branches # {} /\ TreeHeads # {} /\ Predicates # {}
    /\ MaxCommits \in Nat \ {0} /\ MaxHead \in Nat \ {0} /\ PageLimit \in Nat \ {0} /\ MaxRegistrations \in Nat \ {0}
    /\ MaxMade \in Nat /\ MaxPeople \in Nat /\ MaxChanges \in Nat /\ MaxGeneration \in Nat
    /\ MaxInvocations \in Nat /\ MaxDepth \in Nat /\ MaxEvidence \in Nat /\ MaxFanOut \in Nat
    /\ MaxOverlays \in Nat /\ MaxTasks \in Nat /\ MaxStarts \in Nat /\ MaxCalls \in Nat

T == INSTANCE CodingTasks WITH
    Callers <- CodingCallers
B == INSTANCE CodingBranches WITH
    Callers <- CodingCallers, call <- refCall
W == INSTANCE CodingWorktree WITH
    call <- treeCall, Heads <- TreeHeads
V == INSTANCE CodingVerify
L == INSTANCE LanguageExperts
C == INSTANCE ExpertComposition WITH
    at <- step, result <- taken, Requests <- Signatures
R == INSTANCE RepairVerdicts WITH
    at <- stage, outcome <- answer, shared <- aliased
E == INSTANCE ExpertCatalog WITH
    Experts <- Sources, Nobody <- None, MaxGeneration <- MaxRegistrations, MaxRuntime <- MaxChanges,
    todo <- steps
S == INSTANCE StyleChain WITH
    Rules <- Sources, Checks <- Predicates, generation <- workspace, cancelled <- stopped,
    fence <- chainFence, at <- link
O == INSTANCE StyleOverlays WITH
    Keys <- Predicates, NoLanguage <- None

Parts == {"tasks", "branches", "worktree", "verify", "language", "host", "composition", "repair",
    "catalog", "style", "overlays"}

MCInit ==
    /\ part \in Parts
    /\ Init
    /\ IF part = "tasks" THEN T!Init
       ELSE plugin = None /\ starts = None /\ process = None /\ tasks = None /\ caller = None
    /\ IF part = "branches" THEN B!Init
       ELSE tips = None /\ head = None /\ index = None /\ commits = None /\ refCall = None /\ published = None
            /\ dropped = None
    /\ IF part = "worktree" THEN W!Init
       ELSE tree = None /\ made = None /\ people = None /\ treeCall = None
    /\ IF part = "verify" THEN V!Init
       ELSE repo = None /\ at = None /\ seen = None /\ claim = None /\ held = None /\ missed = None
            /\ clean = None /\ added = None
    /\ IF part = "language" THEN L!Init
       ELSE family = None /\ bound = None /\ lock = None /\ todo = None /\ result = None /\ shared = None
            /\ changes = None /\ text = None
    /\ IF part = "composition" THEN C!Init
       ELSE budget = None /\ saved = None /\ spent = None /\ frames = None /\ step = None /\ taken = None
            /\ generation = None /\ cancelled = None /\ fence = None /\ calls = None
            /\ outcome = None
    /\ IF part = "repair" THEN R!Init
       ELSE call = None /\ stage = None /\ current = None /\ answer = None /\ honest = None /\ aliased = None
            /\ raced = None
    /\ IF part = "catalog" THEN E!Init
       ELSE registries = None /\ runtime = None /\ down = None /\ listing = None /\ steps = None /\ pick = None
    /\ IF part = "style" THEN S!Init
       ELSE workspace = None /\ stopped = None /\ chainFence = None /\ claims = None /\ book = None
            /\ link = None /\ language = None /\ read = None /\ submitted = None /\ resolved = None /\ asked = None
            /\ checked = None
    /\ IF part = "overlays" THEN O!Init
       ELSE overlays = None /\ moved = None /\ style = None

MCNext ==
    /\ part' = part
    /\ IF part = "tasks" THEN T!Next ELSE UNCHANGED tasksVars
    /\ IF part = "branches" THEN B!Next ELSE UNCHANGED branchesVars
    /\ IF part = "worktree" THEN W!Next ELSE UNCHANGED worktreeVars
    /\ IF part = "verify" THEN V!Next ELSE UNCHANGED verifyVars
    /\ IF part = "language" THEN L!Next ELSE UNCHANGED languageVars
    /\ IF part = "host" THEN Next ELSE UNCHANGED vars
    /\ IF part = "composition" THEN C!Next ELSE UNCHANGED compositionVars
    /\ IF part = "repair" THEN R!Next ELSE UNCHANGED repairVars
    /\ IF part = "catalog" THEN E!Next ELSE UNCHANGED catalogVars
    /\ IF part = "style" THEN S!Next ELSE UNCHANGED styleVars
    /\ IF part = "overlays" THEN O!Next ELSE UNCHANGED overlaysVars

\* What people change of a repository that is verified is what the claim is about: files,
\* or the head, the branch and the worktree (TLC's constraint; the proofs need none).
OnTheClaim ==
    part = "verify" =>
        IF claim.kind \in {"repository_clean", "repository_changed_path"}
        THEN repo.head = 1 /\ repo.branch = V!Nothing.branch /\ repo.worktree = V!NoWorktree
        ELSE \A p \in Paths : repo.files[p] = "same"

MCSpec == MCInit /\ [][MCNext]_mcVars

\* The states of every part are of their types.
MCTypeOK ==
    /\ part \in Parts
    /\ TypeOK
    /\ part = "tasks" => T!TypeOK
    /\ part = "branches" => B!TypeOK
    /\ part = "worktree" => W!TypeOK
    /\ part = "verify" => V!TypeOK
    /\ part = "language" => L!TypeOK
    /\ part = "composition" => C!TypeOK
    /\ part = "repair" => R!TypeOK
    /\ part = "catalog" => E!TypeOK
    /\ part = "style" => S!TypeOK
    /\ part = "overlays" => O!TypeOK

\* A task the Prolog program calls completed is verified by the latest evidence of each kind.
CompletedIsVerified == part = "tasks" => T!CompletedIsVerified
\* delete_branch and commit lose no commit and no tip that people made meanwhile.
NoLostCommit == part = "branches" => B!NoLostCommit
\* The worktree that a call tells to be removed or rolled back is gone from git's list and
\* from the disk, whichever git command failed.
ReportedGone == part = "worktree" => W!ReportedGone
\* What verification says of a repository held at some time during its call; that a path is
\* unchanged, of each path alone, and but for paths twice added to the index meanwhile.
VerdictsHeld == part = "verify" => V!VerdictsHeld
\* What a language expert returns is what it validated, whatever the producer changes.
ReturnedProven == part = "language" => L!ReturnedProven
\* A composition exceeds no bound of its budget, whatever an invoker does to it.
CompositionBounded == part = "composition" => C!CompositionBounded
\* A repair the composer is told is verified or applied rests on a receipt for it, whose
\* contents, of a Lisp dialect, were checked; a change between check and copy is not noticed.
RepairsProven == part = "repair" => R!RepairsProven
\* A listing and a selected expert are of one generation of Core's registry.
DiscoveryConsistent == part = "catalog" => E!DiscoveryConsistent
\* A style is of one generation of the workspace, by rules as they were submitted or as the
\* resolver, which holds the same objects, has left them; and of every key the last overlay
\* of the narrowest scope that applies decides.
StyleSound ==
    /\ part = "style" => S!StyleOfOneGeneration
    /\ part = "overlays" => O!Precedence
=============================================================================
