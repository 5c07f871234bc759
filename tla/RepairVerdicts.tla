---------------------------- MODULE RepairVerdicts ----------------------------
(***************************************************************************)
(* What a composed expert may say of a repair.  A call goes to the expert's *)
(* handler directly or through Zara Core, and what comes back is checked   *)
(* field by field before the composer sees it.  The handlers never write;  *)
(* they say that a repair is verified only on a receipt of Core for it.    *)
(* Core is not trusted to have said so.  It may go on changing the objects *)
(* it returned, so the Lisp invokers detach what they have checked: after  *)
(* they have checked it, and without checking the copy.                    *)
(***************************************************************************)
EXTENDS FiniteSets, Naturals

VARIABLES
    call,     \* the call: route, expert, operation and input
    at,       \* the step that comes next
    current,  \* the fence: not cancelled, and the generation of the call
    outcome,  \* what the handler or Core returned; what the call returned when it is over
    honest,   \* it is what the handler said
    shared,   \* its producer has it as well
    raced     \* it was changed while it was being checked

vars == <<call, at, current, outcome, honest, shared, raced>>

\* One expert for each kind: with and without a postcondition of its own, Lisp or not.
Experts == {"bash", "python", "lisp", "common-lisp"}
IsLisp(e) == e \in {"lisp", "common-lisp"}
HasPostcondition(e) == e \in {"bash", "common-lisp"}

\* Disguised: of a class derived from the one that is meant, and may read otherwise later.
Inputs == {"ground", "variable", "unshaped", "disguised"}
Calls == [route : {"direct", "core"}, expert : Experts, input : Inputs,
          operation : {"repair.preview", "repair.verify", "repair.apply"}]

\* A receipt, by what it is bound to of the call that is under way, and says.
Bound == {"expert", "generation", "candidate", "condition", "verified", "fresh"}
NoReceipt == {}
Receipts == {Bound, NoReceipt} \cup {Bound \ {b} : b \in Bound}

\* What of an outcome may be disguised.
Wire == {"evidence", "usage", "verdict", "data evidence", "effects", "nested"}

Fields ==
    [verdict : {"succeeded", "blocked", "failed", "cancelled", "unknown"},
     models : BOOLEAN,          \* a model was used
     effects : 0..2,            \* effect receipts
     canonical : BOOLEAN,       \* the data shows the effect receipt, of the generation of the call
     observed : BOOLEAN,        \* the generation after the repair is another one
     receipt : Receipts,        \* the postcondition's evidence
     evidence : {"none", "canonical", "receipt", "foreign"},
     data : {"none", "result", "undeclared"},
     disguised : SUBSET Wire]

Said(v, r, e, d) ==
    [verdict |-> v, models |-> FALSE, effects |-> 0, canonical |-> FALSE, observed |-> FALSE,
     receipt |-> r, evidence |-> e, data |-> d, disguised |-> {}]

TypeOK ==
    /\ call \in Calls /\ current \in BOOLEAN /\ outcome \in Fields
    /\ at \in {"idle", "admit", "activate", "dispatch", "fence", "validate", "contract", "snapshot", "returned"}
    /\ honest \in BOOLEAN /\ shared \in BOOLEAN /\ raced \in BOOLEAN

Nothing == Said("unknown", NoReceipt, "none", "none")

Init ==
    /\ call \in Calls /\ at = "idle" /\ current = TRUE /\ outcome = Nothing
    /\ honest = TRUE /\ shared = FALSE /\ raced = FALSE

-----------------------------------------------------------------------------
(* The handlers.                                                           *)

\* _verified_postcondition_ref; what a receipt says is read once.
Proves(r) == r = Bound

\* Input that is looked at before the brain is asked: the variable of the result is the
\* adapter's own.
LanguageForms(input) == input = "ground"
LispForms(input) == input \in {"ground", "disguised"}
LispPlain(c) == c.input = "disguised" => c.operation = "repair.preview"

\* The receipts that turn a brain's request for the postcondition of its expert into a
\* success.  A resolver that raises has none; with the evidence full it is not asked.
Promoted(e, receipts) ==
    IF ~HasPostcondition(e) THEN {}
    ELSE {Said("succeeded", r, "receipt", "result") : r \in {p \in receipts : Proves(p)}}

Symbolic(verdict, d) == Said(verdict, NoReceipt, "canonical", d)
Untouched == Said("blocked", NoReceipt, "none", "undeclared")

\* The handlers, with receipts or without.  That the brain succeeded in verifying means
\* blocked; what is not a success keeps its data only where data is the whole result.
LanguageHandles(e, operation, receipts) ==
    LET kept == IF e = "python" THEN "none" ELSE "result"
    IN  CASE operation = "repair.apply" -> {Untouched}
          [] operation = "repair.preview" -> {Symbolic("failed", kept), Symbolic("succeeded", "result")}
          [] OTHER -> {Symbolic("failed", kept), Symbolic("blocked", kept)} \cup Promoted(e, receipts)

LispHandles(e, operation, receipts) ==
    CASE operation = "repair.apply" -> {Untouched}
      [] operation = "repair.preview" -> {Symbolic(v, "result") : v \in {"failed", "unknown", "succeeded"}}
      [] OTHER -> {Symbolic(v, "result") : v \in {"failed", "unknown", "blocked"}} \cup Promoted(e, receipts)

Handled(e, operation, receipts) ==
    IF IsLisp(e) THEN LispHandles(e, operation, receipts) ELSE LanguageHandles(e, operation, receipts)

\* Whatever Core may say: an outcome that is in order, or not in one respect.
Orderly ==
    {Said(v, NoReceipt, "canonical", "result") : v \in {"succeeded", "failed", "blocked"}}
    \cup {Said("succeeded", Bound, "receipt", "result"), Said("cancelled", NoReceipt, "none", "none")}
    \cup {[Said("succeeded", Bound, "receipt", "result") EXCEPT !.effects = 1, !.canonical = TRUE, !.observed = TRUE]}
Outcomes ==
    Orderly
    \cup {[o EXCEPT !.models = TRUE] : o \in Orderly}
    \cup {[o EXCEPT !.effects = n] : o \in Orderly, n \in 0..2}
    \cup {[o EXCEPT !.canonical = FALSE] : o \in Orderly}
    \cup {[o EXCEPT !.observed = FALSE] : o \in Orderly}
    \cup {[o EXCEPT !.receipt = r] : o \in Orderly, r \in Receipts}
    \cup {[o EXCEPT !.evidence = e] : o \in Orderly, e \in {"none", "canonical", "receipt", "foreign"}}
    \cup {[o EXCEPT !.data = d] : o \in Orderly, d \in {"none", "result", "undeclared"}}
    \cup {[o EXCEPT !.disguised = {w}] : o \in Orderly, w \in Wire}

-----------------------------------------------------------------------------
(* The checks.                                                             *)

\* No model, no effects.  The newer experts' evidence and usage must be plain.
LanguageHandlerValid(o) == ~o.models /\ o.effects = 0
LanguageCoreValid(o) ==
    ~o.models /\ o.effects = 0 /\ (call.expert = "python" => o.disguised \cap {"evidence", "usage"} = {})

\* The fences in front of the Lisp checks.
EvidencePlain(o) == "evidence" \notin o.disguised
UsagePlain(o) == "usage" \notin o.disguised
VerdictPlain(o) == "verdict" \notin o.disguised
DataEvidencePlain(o) == "data evidence" \notin o.disguised
EffectsPlain(o) == "effects" \notin o.disguised
NestedPlain(o) == "nested" \notin o.disguised
Plain(o) == EvidencePlain(o) /\ UsagePlain(o) /\ VerdictPlain(o) /\ DataEvidencePlain(o)

\* _handler_outcome_to_invocation_result
LispHandlerValid(o) == Plain(o) /\ ~o.models /\ o.effects = 0 /\ o.data = "result"

\* _validated_core_result: effects come with a repair that was applied, and only with it.
AppliedInCore(o) ==
    /\ o.effects = 1 /\ o.canonical
    /\ "verified" \in o.receipt /\ o.observed /\ o.evidence # "none"
LispCoreValid(o) ==
    /\ Plain(o) /\ EffectsPlain(o) /\ ~o.models
    /\ IF call.operation = "repair.apply" /\ o.verdict = "succeeded" THEN AppliedInCore(o) ELSE o.effects = 0

Valid(o) ==
    CASE call.route = "direct" -> IF IsLisp(call.expert) THEN LispHandlerValid(o) ELSE LanguageHandlerValid(o)
      [] OTHER -> IF IsLisp(call.expert) THEN LispCoreValid(o) ELSE LanguageCoreValid(o)

\* _validate_repair_verify_postcondition; whether the receipt is fresh and verified its
\* text does not say again: it is the reference that must be canonical.
VerifyProven(o) ==
    /\ HasPostcondition(call.expert) /\ o.evidence = "receipt"
    /\ {"generation", "candidate", "condition"} \subseteq o.receipt

\* _validate_repair_apply_postcondition
ApplyProven(o) == HasPostcondition(call.expert) => Proves(o.receipt) /\ o.evidence = "receipt"

\* _validate_projected_evidence
Canonical(o) == o.evidence # "foreign" /\ (o.evidence = "receipt" => call.operation # "repair.preview")

Delegates == call.expert = "common-lisp" /\ call.operation = "repair.preview"

\* _validate_predicate_output, and the postcondition's.
Contracted(o) ==
    /\ o.verdict = "cancelled" => o.data = "none" /\ o.evidence = "none" /\ o.receipt = NoReceipt
    /\ call.operation = "repair.apply" => Canonical(o) /\ (o.verdict = "succeeded" => ApplyProven(o))
    /\ o.verdict # "cancelled" /\ call.operation # "repair.apply" =>
           /\ Canonical(o) /\ (Delegates \/ o.data = "result")
           /\ call.operation = "repair.verify" /\ o.verdict = "succeeded" => VerifyProven(o)

-----------------------------------------------------------------------------
To(step) == at' = step /\ UNCHANGED <<call, current>>
Same == UNCHANGED <<outcome, honest, shared, raced>>
Refuse == To("idle") /\ outcome' = Nothing /\ honest' = TRUE /\ shared' = FALSE /\ raced' = FALSE

Start(c) ==
    /\ at \in {"idle", "returned"} /\ at' = "admit" /\ call' = c /\ current' = TRUE
    /\ outcome' = Nothing /\ honest' = TRUE /\ shared' = FALSE /\ raced' = FALSE

\* The fence and the payload: the language handlers look at the input later, Lisp
\* applies no repair without Core.
Admit ==
    /\ at = "admit"
    /\ IF ~current \/ (IsLisp(call.expert) /\ ~(LispForms(call.input) /\ LispPlain(call)))
          \/ (IsLisp(call.expert) /\ call.route = "direct" /\ call.operation = "repair.apply")
       THEN Refuse
       ELSE Same /\ To(IF call.route = "core" THEN "activate" ELSE IF Delegates THEN "contract" ELSE "dispatch")

\* activation_for must know the expert, in this workspace.
Activate ==
    /\ at = "activate"
    /\ \/ Refuse
       \/ current /\ To(IF Delegates THEN "contract" ELSE "dispatch") /\ Same

\* The handler or Core: it may raise, and meanwhile the fence may fall.
Answers(o) == outcome' = o /\ shared' = TRUE /\ To("fence") /\ UNCHANGED raced
Dispatch ==
    /\ at = "dispatch"
    /\ \/ Refuse
       \/ /\ honest' = TRUE /\ IF IsLisp(call.expert) THEN LispForms(call.input) ELSE LanguageForms(call.input)
          /\ \E o \in Handled(call.expert, call.operation,
                              IF call.route = "direct" THEN {NoReceipt} ELSE Receipts) : Answers(o)
       \/ call.route = "core" /\ honest' = FALSE /\ \E o \in Outcomes : Answers(o)

Fence ==
    /\ at = "fence"
    /\ IF current THEN To("validate") /\ Same ELSE Refuse

\* The language invokers return what they have checked, nested objects and all.
Validate ==
    /\ at = "validate"
    /\ IF ~Valid(outcome) THEN Refuse
       ELSE To(IF IsLisp(call.expert) THEN "contract" ELSE "returned") /\ Same

Contract ==
    /\ at = "contract"
    /\ IF Contracted(outcome) THEN To("snapshot") /\ Same ELSE Refuse

\* Mutant: only the outer dictionary is copied.
SnapshotShallow == at = "snapshot" /\ To("returned") /\ Same

\* _snapshot_authority_projection: what is disguised would escape the copying.
Snapshot ==
    /\ at = "snapshot"
    /\ IF NestedPlain(outcome) THEN To("returned") /\ shared' = FALSE /\ UNCHANGED <<outcome, honest, raced>>
       ELSE Refuse

\* Who produced the outcome changes what its data shows of the receipts, which is nested:
\* the rest of it the invokers copied when they looked at it first.
Change ==
    /\ shared /\ at \in {"fence", "validate", "contract", "snapshot", "returned"}
    /\ \/ \E r \in Receipts \ {outcome.receipt} : outcome' = [outcome EXCEPT !.receipt = r]
       \/ outcome' = [outcome EXCEPT !.canonical = ~outcome.canonical]
       \/ outcome' = [outcome EXCEPT !.observed = ~outcome.observed]
    /\ honest' = FALSE /\ raced' = (raced \/ at \in {"contract", "snapshot"})
    /\ UNCHANGED <<call, at, current, shared>>

\* The workspace moves on, or the call is cancelled.
Fall == at # "idle" /\ current /\ current' = FALSE /\ UNCHANGED <<call, at, outcome, honest, shared, raced>>

Next ==
    \/ \E c \in Calls : Start(c)
    \/ Admit \/ Activate \/ Dispatch \/ Fence \/ Validate \/ Contract \/ Snapshot \/ Change \/ Fall

Spec == Init /\ [][Next]_vars

-----------------------------------------------------------------------------
(* Properties.                                                             *)

Repaired == at = "returned" /\ outcome.verdict = "succeeded" /\ call.operation # "repair.preview"

\* What both checks of a Lisp dialect found in the receipts that the data shows.
ReceiptsHold ==
    /\ call.expert = "common-lisp" => {"generation", "candidate", "condition"} \subseteq outcome.receipt
    /\ IsLisp(call.expert) /\ call.operation = "repair.apply" => AppliedInCore(outcome)

\* A repair that is reported verified, or applied, rests on a receipt of this candidate
\* and generation, if Core passes on what the handler said.  Of a Lisp dialect, whatever
\* Core says and changes later, the reference of a receipt is among the evidence, an
\* applied repair has a single effect, and nothing in it can read otherwise.  What the
\* data shows inside the receipts was checked too, and stays as it is once returned; but
\* a change between the check and the copy is not noticed, and then it may be of another
\* candidate or not verified (raced).
RepairsProven ==
    Repaired =>
        /\ honest => outcome.receipt = Bound /\ outcome.evidence = "receipt" /\ HasPostcondition(call.expert)
        /\ call.expert = "common-lisp" => outcome.evidence = "receipt"
        /\ IsLisp(call.expert) => outcome.disguised = {}
        /\ IsLisp(call.expert) /\ call.operation = "repair.apply" => outcome.effects = 1 /\ outcome.evidence # "none"
        /\ ~raced => ReceiptsHold
=============================================================================
