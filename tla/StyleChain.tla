------------------------------ MODULE StyleChain ------------------------------
(***************************************************************************)
(* The fixed chain of experts over a file: the dotfiles expert says whose  *)
(* language it is in, the expert of that language inspects it, and the     *)
(* style expert reads the rules and has them resolved.  Every link asks    *)
(* somebody outside, while the workspace moves on and the brains' files    *)
(* change.  Of the outsiders' answers, the resolver's is the least trusted:*)
(* it is compared with the rules that were submitted, but these are the    *)
(* very objects the resolver was handed, and it may have changed them.     *)
(***************************************************************************)
EXTENDS Naturals, FiniteSets

CONSTANTS
    Rules,          \* identities
    Checks,
    MaxGeneration,  \* bound
    MaxRewritten    \* bound: rules that the resolver changes in place

VARIABLES
    generation, cancelled,  \* of the workspace, and of the call
    fence,                  \* the generation of the call
    claims,                 \* the languages whose brain claims the path
    book,                   \* the rules as the brain of style has them
    at,                     \* the question that comes next
    language,               \* that the path was found to be in
    read,                   \* the rules that were read, as they were then
    submitted,              \* these rules, as the resolver has left them
    resolved,               \* the resolution
    asked,                  \* generations in which an outsider looked at its question
    checked                 \* the fence was checked for the next question

vars == <<generation, cancelled, fence, claims, book, at, language, read, submitted, resolved, asked, checked>>

Languages == {"nix", "bash"}
\* One scope for each way to be bound.
Scopes == {"user_global", "user_language", "project_global", "session"}
Generations == 0..MaxGeneration
Always == MaxGeneration + 1   \* of a rule: whatever the generation

\* A rule is of a scope, for a check, and for a language and a generation where it has to be.
Rule == [id : Rules, check : Checks, scope : Scopes, language : Languages \cup {"any"}, generation : 0..Always]
Decision == [check : Checks, winner : Rules, shadowed : SUBSET Rules]
NoResolution == [effective |-> {}, decisions |-> {}]

Bound(scope, l, g) ==
    [language |-> IF scope \in {"user_language", "session"} THEN l ELSE "any",
     generation |-> IF scope \in {"project_global", "session"} THEN g ELSE Always]
RuleOf(id, check, scope, l, g) ==
    [id |-> id, check |-> check, scope |-> scope, language |-> Bound(scope, l, g).language,
     generation |-> Bound(scope, l, g).generation]

TypeOK ==
    /\ generation \in Generations /\ cancelled \in BOOLEAN /\ fence \in Generations
    /\ claims \subseteq Languages /\ language \in Languages \cup {"any"}
    /\ book \subseteq Rule /\ read \subseteq Rule /\ submitted \subseteq Rule
    /\ at \in {"idle", "nix", "bash", "delegate", "inspect", "policy", "rules", "resolve", "settle", "returned"}
    /\ resolved.effective \subseteq Rule /\ resolved.decisions \subseteq Decision
    /\ asked \subseteq Generations /\ checked \in BOOLEAN

\* A book: one rule for each identity, as it is written for a language and a generation.
Books(g) ==
    UNION {{{RuleOf(id, c[id], s, l, g) : id \in Rules} : c \in [Rules -> Checks], s \in Scopes} : l \in Languages}

Init ==
    /\ generation = 0 /\ cancelled = FALSE /\ fence = 0 /\ claims \in SUBSET Languages
    /\ book \in Books(0) /\ at = "idle" /\ language = "any" /\ read = {} /\ submitted = {} /\ resolved = NoResolution
    /\ asked = {} /\ checked = FALSE

-----------------------------------------------------------------------------
Current == ~cancelled /\ generation = fence
World == UNCHANGED <<generation, cancelled, claims, book>>
Goes(step) == at' = step /\ checked' = FALSE /\ World /\ UNCHANGED fence
Asks(step) == asked' = asked \cup {generation} /\ Goes(step)
Refuse ==
    /\ at' = "idle" /\ language' = "any" /\ read' = {} /\ submitted' = {} /\ resolved' = NoResolution /\ asked' = {}
    /\ checked' = FALSE /\ World /\ UNCHANGED fence

\* The composer calls the dotfiles expert.
Compose ==
    /\ at \in {"idle", "returned"} /\ at' = "nix" /\ fence' = generation /\ cancelled' = FALSE
    /\ language' = "any" /\ read' = {} /\ submitted' = {} /\ resolved' = NoResolution /\ asked' = {} /\ checked' = FALSE
    /\ UNCHANGED <<generation, claims, book>>

\* Mutant: what the resolver took its time for is not fenced.
CheckAllButLast ==
    /\ at \notin {"idle", "bash", "returned"} /\ ~checked
    /\ IF Current \/ at = "settle" THEN checked' = TRUE /\ World /\ UNCHANGED <<fence, at, language, read, submitted, resolved, asked>>
       ELSE Refuse

\* InvocationFence.check, before and after every question but between the two of inspect.
Check ==
    /\ at \notin {"idle", "bash", "returned"} /\ ~checked
    /\ IF Current THEN checked' = TRUE /\ World /\ UNCHANGED <<fence, at, language, read, submitted, resolved, asked>>
       ELSE Refuse

\* _query_matches, one brain after the other.
MatchNix ==
    /\ at = "nix" /\ checked /\ UNCHANGED <<read, submitted, resolved>>
    /\ language' = (IF "nix" \in claims THEN "nix" ELSE "any") /\ Asks("bash")

\* inspect: both or none is no specialist; the outcome delegates to the one there is.
MatchBash ==
    LET both == "bash" \in claims /\ language = "nix"
        neither == "bash" \notin claims /\ language = "any"
    IN  /\ at = "bash"
        /\ IF both \/ neither THEN Refuse
           ELSE /\ language' = (IF language = "nix" THEN "nix" ELSE "bash")
                /\ Asks("inspect") /\ UNCHANGED <<read, submitted, resolved>>

\* The language expert succeeds, and the chain adds the style expert's delegation; if it
\* does not, there is no style.
Inspect ==
    /\ at = "inspect" /\ checked
    /\ \/ Asks("policy") /\ UNCHANGED <<language, read, submitted, resolved>>
       \/ Refuse

\* The policy that style is without models.
Policy ==
    /\ at = "policy" /\ checked
    /\ \/ Asks("rules") /\ UNCHANGED <<language, read, submitted, resolved>>
       \/ Refuse

\* _validate_rule_scope_binding
ScopeBound(r) == <<r.language, r.generation>> = <<Bound(r.scope, language, fence).language, Bound(r.scope, language, fence).generation>>

\* _read_rules: the book as it is now, if all of it is bound to this call.
ReadRules ==
    /\ at = "rules" /\ checked
    /\ IF \A r \in book : ScopeBound(r)
       THEN read' = book /\ submitted' = book /\ Asks("resolve") /\ UNCHANGED <<language, resolved>>
       ELSE Refuse

\* What the resolver may say: rules that were submitted, or its own.
Forged == {RuleOf(id, check, "user_global", "any", Always) : id \in Rules, check \in Checks}
Few(S) == {{}} \cup {{s, t} : s, t \in S}

\* Every rule that is effective is a submitted one as it is now, and there by one identity.
EffectiveValid(e) ==
    /\ e \subseteq submitted
    /\ \A r, s \in e : r.id = s.id => r = s

\* Every decision has an effective winner of its check, decides it once, and shadows
\* submitted rules that are for it now; every effective check is decided.
DecisionsValid(ds, e) ==
    /\ \A d \in ds :
           /\ \E r \in e : r.id = d.winner /\ r.check = d.check
           /\ d.winner \notin d.shadowed
           /\ \A id \in d.shadowed : \E r \in submitted : r.id = id /\ r.check = d.check
    /\ \A d, f \in ds : d.check = f.check => d = f
    /\ {r.check : r \in e} = {d.check : d \in ds}

\* PrologRlmStyleOverlayAdapter.resolve
Resolve ==
    /\ at = "resolve" /\ checked
    /\ \/ Asks("settle") /\ UNCHANGED <<language, read, submitted, resolved>>
       \/ Refuse

\* Of the submitted rules, no two have one identity now.
Distinct == Cardinality({r.id : r \in submitted}) = Cardinality(read)

\* The answer is of this project, generation and language, and without models.  For which
\* language and generation its rules are is not looked at again.
Settle ==
    /\ at = "settle" /\ checked
    /\ \/ /\ Distinct
          /\ \E e \in Few(submitted \cup Forged) :
                 /\ EffectiveValid(e)
                 /\ \E ds \in Few(Decision) : DecisionsValid(ds, e) /\ resolved' = [effective |-> e, decisions |-> ds]
          /\ Goes("returned") /\ UNCHANGED <<language, read, submitted, asked>>
       \/ Refuse

-----------------------------------------------------------------------------
(* Outside.                                                                *)

Move ==
    /\ at \notin {"idle", "returned"}
    /\ \/ generation < MaxGeneration /\ generation' = generation + 1 /\ UNCHANGED cancelled
       \/ ~cancelled /\ cancelled' = TRUE /\ UNCHANGED generation
    /\ UNCHANGED <<fence, claims, book, at, language, read, submitted, resolved, asked, checked>>

\* Brains are registered and revoked, rules are written for some generation, as long as
\* they are still to be read.
Change ==
    /\ at \notin {"idle", "resolve", "settle", "returned"}
    /\ \/ claims' \in SUBSET Languages \ {claims} /\ UNCHANGED book
       \/ book' \in (UNION {Books(g) : g \in {generation, 0}}) \ {book} /\ UNCHANGED claims
    /\ UNCHANGED <<generation, cancelled, fence, at, language, read, submitted, resolved, asked, checked>>

\* The resolver changes a rule it was handed, until its answer is settled.
Rewrites == {RuleOf(id, check, s, l, g) : id \in Rules, check \in Checks, s \in Scopes, l \in Languages, g \in Generations}
Rewrite ==
    /\ at = "settle"
    /\ \E r \in submitted, s \in Rewrites \ submitted :
           submitted' = (submitted \ {r}) \cup {s} /\ Cardinality(submitted' \ read) <= MaxRewritten
    /\ UNCHANGED <<generation, cancelled, fence, claims, book, at, language, read, resolved, asked, checked>>

Next ==
    \/ Compose \/ Check \/ MatchNix \/ MatchBash \/ Inspect \/ Policy \/ ReadRules \/ Resolve \/ Settle
    \/ Move \/ Change \/ Rewrite

Spec == Init /\ [][Next]_vars

-----------------------------------------------------------------------------
(* Properties.                                                             *)

\* A style that is returned was found, inspected, read and resolved in one generation of
\* the workspace.  Whatever the resolver answers, and does to the rules: a decision is by
\* the one effective rule of its check, over rules for that check as they were submitted or
\* rewritten.  An effective rule that is as it was read was written for this language and
\* this generation.  One that the resolver changed in place passes for a submitted one, and
\* may be of any identity and check, and for another language or generation.
StyleOfOneGeneration ==
    at = "returned" =>
        /\ asked = {fence}
        /\ \A r \in resolved.effective : \E d \in resolved.decisions : d.check = r.check
        /\ \A d \in resolved.decisions :
               /\ \A f \in resolved.decisions : d.check = f.check => d = f
               /\ \E r \in resolved.effective : r.id = d.winner /\ r.check = d.check
               /\ \A id \in d.shadowed : \E r \in submitted : r.id = id /\ r.check = d.check
        /\ \A r \in resolved.effective : r \in submitted /\ (r \in read => ScopeBound(r))
=============================================================================
