--------------------------- MODULE LanguageExperts ---------------------------
(***************************************************************************)
(* The nine language experts are adapters: a call is admitted, handed to   *)
(* the expert host through its capability, and what the host returns is    *)
(* validated before its JSON text is returned.  The host shares the        *)
(* object it returns with whoever produced it, so that it may change while *)
(* it is being validated.  Bash and Nix, Java and its kin, and Python and  *)
(* its kin differ in what they admit, what they accept, whether they pin   *)
(* their source, and the order of the steps; within a kin the code of the  *)
(* adapters is the same.                                                   *)
(***************************************************************************)
EXTENDS Naturals, Sequences, FiniteSets, TLC

CONSTANTS
    None,        \* no result
    MaxChanges   \* bound: changes of a result by its producer

VARIABLES
    family,   \* the adapter
    bound,    \* it is started: it has a runtime
    lock,     \* the source lock on disk, and what the host says of the language
    todo,     \* the steps the call still has to take
    result,   \* the object the call has in its hands
    shared,   \* it is the one its producer holds as well
    changes,
    text      \* what the call returned

vars == <<family, bound, lock, todo, result, shared, changes, text>>

Families == {"bash", "nix", "java", "javascript", "kotlin", "typescript", "python", "nim", "prolog"}

\* A result, by what the validations tell apart.  Its defects: another request's identity,
\* another generation, model calls, effect receipts, data that is not JSON.
Results ==
    [defects : {d \in SUBSET {"identity", "stale", "models", "effects", "cyclic"} : Cardinality(d) <= 1},
     verdict : {"succeeded", "failed", "cancelled"},
     code : {"none", "terminal"},   \* terminal: cancelled or stale_generation
     data : {"none", "declared", "undeclared"},
     evidence : {"none", "some", "full", "claimed", "attested"}]

Locks == [file : {"pinned", "changed"}, host : {"absent", "same", "other manifest", "other"}]

-----------------------------------------------------------------------------
(* What the adapters share.                                                *)

ReadInputs ==
    "match" :> {"path", "source_generation"} @@ "inspect" :> {"source", "source_generation"} @@
    "diagnose" :> {"source", "source_generation"} @@
    "repair.preview" :> {"source", "source_generation", "diagnostic_ref"} @@
    "repair.verify" :> {"original_source", "candidate_source", "source_generation"} @@
    "style.rules" :> {"source", "project_style"} @@ "explain" :> {"decision_ref", "source_generation"}

ApplyInputs == "repair.apply" :> {"repair", "expected_preimage", "source_generation"}

Admitted(inputs, q, shapes) ==
    q.operation \in DOMAIN inputs /\ q.given = inputs[q.operation] /\ q.shape \in shapes

Sound(r) == r.defects = {}
Silent(r) == r.data = "none" /\ r.evidence = "none"
Fenced(r) == r.code = "terminal" => r.verdict # "succeeded" /\ Silent(r)
AsDeclared(r) == r.data = IF r.verdict = "succeeded" THEN "declared" ELSE "none"

Pinned == <<"lock", "host", "lock", "validate", "copy", "validate", "attest", "copy", "validate", "return">>
Plain == <<"host", "validate", "copy", "validate", "return">>

-----------------------------------------------------------------------------
(* Bash and Nix: repairs may be applied, a path must not be empty.         *)

BashInputs == ReadInputs @@ ApplyInputs
BashBoundary(q) == Admitted(BashInputs, q, {"plain", "ambiguous", "deep"})
BashAdmits(q) == BashBoundary(q) /\ Admitted(BashInputs, q, {"plain", "empty path"})
BashLock(l) == l.file = "pinned" /\ l.host \in {"absent", "same"}
BashAccepts(r) == Sound(r) /\ Fenced(r) /\ (r.verdict = "cancelled" => Silent(r))
BashInvoke == Pinned

NixInputs == ReadInputs @@ ApplyInputs
NixBoundary(q) == Admitted(NixInputs, q, {"plain", "ambiguous", "deep"})
NixAdmits(q) == NixBoundary(q) /\ Admitted(NixInputs, q, {"plain", "empty path"})
NixLock(l) == l.file = "pinned" /\ l.host \in {"absent", "same"}
NixAccepts(r) == Sound(r) /\ Fenced(r) /\ (r.verdict = "cancelled" => Silent(r))
NixInvoke == Pinned

(* Java and its kin: no source lock, no fence on error codes.              *)

JavaInputs == ReadInputs
JavaAdmits(q) == Admitted(JavaInputs, q, {"plain", "ambiguous", "empty path"})
JavaAccepts(r) == Sound(r) /\ AsDeclared(r) /\ (r.verdict = "cancelled" => Silent(r))
JavaInvoke == Plain

JavascriptInputs == ReadInputs
JavascriptAdmits(q) == Admitted(JavascriptInputs, q, {"plain", "ambiguous", "empty path"})
JavascriptAccepts(r) == Sound(r) /\ AsDeclared(r) /\ (r.verdict = "cancelled" => Silent(r))
JavascriptInvoke == Plain

KotlinInputs == ReadInputs
KotlinAdmits(q) == Admitted(KotlinInputs, q, {"plain", "ambiguous", "empty path"})
KotlinAccepts(r) == Sound(r) /\ AsDeclared(r) /\ (r.verdict = "cancelled" => Silent(r))
KotlinInvoke == Plain

TypescriptInputs == ReadInputs
TypescriptAdmits(q) == Admitted(TypescriptInputs, q, {"plain", "ambiguous", "empty path"})
TypescriptAccepts(r) == Sound(r) /\ AsDeclared(r) /\ (r.verdict = "cancelled" => Silent(r))
TypescriptInvoke == Plain

(* Python and its kin: the host's manifest digest is not compared.         *)

PythonInputs == ReadInputs
PythonAdmits(q) == Admitted(PythonInputs, q, {"plain", "empty path"})
PythonLock(l) == l.file = "pinned" /\ l.host # "other"
PythonAccepts(r) == Sound(r) /\ Fenced(r) /\ AsDeclared(r) /\ (r.verdict = "cancelled" => Silent(r))
PythonInvoke == Pinned

NimInputs == ReadInputs
NimAdmits(q) == Admitted(NimInputs, q, {"plain", "empty path"})
NimLock(l) == l.file = "pinned" /\ l.host # "other"
NimAccepts(r) == Sound(r) /\ Fenced(r) /\ AsDeclared(r) /\ (r.verdict = "cancelled" => Silent(r))
NimInvoke == Pinned

PrologInputs == ReadInputs
PrologAdmits(q) == Admitted(PrologInputs, q, {"plain", "empty path"})
PrologLock(l) == l.file = "pinned" /\ l.host # "other"
PrologAccepts(r) == Sound(r) /\ Fenced(r) /\ AsDeclared(r) /\ (r.verdict = "cancelled" => Silent(r))
PrologInvoke == Pinned

Admits(q) ==
    CASE family = "bash" -> BashAdmits(q) [] family = "nix" -> NixAdmits(q)
      [] family = "java" -> JavaAdmits(q) [] family = "javascript" -> JavascriptAdmits(q)
      [] family = "kotlin" -> KotlinAdmits(q) [] family = "typescript" -> TypescriptAdmits(q)
      [] family = "python" -> PythonAdmits(q) [] family = "nim" -> NimAdmits(q) [] OTHER -> PrologAdmits(q)

Accepts(r) ==
    CASE family = "bash" -> BashAccepts(r) [] family = "nix" -> NixAccepts(r)
      [] family = "java" -> JavaAccepts(r) [] family = "javascript" -> JavascriptAccepts(r)
      [] family = "kotlin" -> KotlinAccepts(r) [] family = "typescript" -> TypescriptAccepts(r)
      [] family = "python" -> PythonAccepts(r) [] family = "nim" -> NimAccepts(r) [] OTHER -> PrologAccepts(r)

LockHolds ==
    CASE family = "bash" -> BashLock(lock) [] family = "nix" -> NixLock(lock)
      [] family = "python" -> PythonLock(lock) [] family = "nim" -> NimLock(lock) [] OTHER -> PrologLock(lock)

Invoke ==
    CASE family = "bash" -> BashInvoke [] family = "nix" -> NixInvoke
      [] family = "java" -> JavaInvoke [] family = "javascript" -> JavascriptInvoke
      [] family = "kotlin" -> KotlinInvoke [] family = "typescript" -> TypescriptInvoke
      [] family = "python" -> PythonInvoke [] family = "nim" -> NimInvoke [] OTHER -> PrologInvoke

-----------------------------------------------------------------------------
Requests ==
    {[operation |-> o, given |-> g, shape |-> s] :
        o \in {"match", "repair.apply", "unknown"},
        g \in {{"path", "source_generation"}, {"path"}, ApplyInputs["repair.apply"]},
        s \in {"plain", "ambiguous", "deep", "empty path"}}

TypeOK ==
    /\ family \in Families /\ bound \in BOOLEAN /\ lock \in Locks /\ shared \in BOOLEAN
    /\ Len(todo) <= Len(Invoke) /\ \A i \in DOMAIN todo : todo[i] = Invoke[i + Len(Invoke) - Len(todo)]
    /\ result \in Results \cup {None} /\ text \in Results \cup {None} /\ changes \in 0..MaxChanges

Init ==
    /\ family \in Families /\ bound = FALSE /\ lock \in Locks /\ todo = <<>>
    /\ result = None /\ shared = FALSE /\ changes = 0 /\ text = None

Bind == todo = <<>> /\ bound' = ~bound /\ UNCHANGED <<family, lock, todo, result, shared, changes, text>>

Call ==
    /\ todo = <<>> /\ \E q \in Requests : Admits(q)
    /\ todo' = Invoke /\ text' = None /\ result' = None /\ shared' = FALSE /\ changes' = 0
    /\ UNCHANGED <<family, bound, lock>>

At(step) == todo # <<>> /\ todo[1] = step
Proceed == todo' = Tail(todo) /\ UNCHANGED <<family, bound, lock>>
Refuse ==
    /\ todo' = <<>> /\ result' = None /\ shared' = FALSE
    /\ UNCHANGED <<family, bound, lock, changes, text>>

Lock ==
    /\ At("lock")
    /\ IF LockHolds THEN Proceed /\ UNCHANGED <<result, shared, changes, text>> ELSE Refuse

\* The host answers, fails, or is not there; meanwhile files may have changed.
Host ==
    /\ At("host")
    /\ \/ /\ bound /\ todo' = Tail(todo) /\ lock' \in Locks
          /\ \E r \in Results : r.evidence # "attested" /\ result' = r
          /\ shared' = TRUE /\ UNCHANGED <<family, bound, changes, text>>
       \/ Refuse

\* Who produced the result goes on changing it.
Change ==
    /\ shared /\ changes < MaxChanges /\ changes' = changes + 1
    /\ \E r \in Results :
           /\ r.evidence # "attested" /\ r.verdict = result.verdict
           /\ Cardinality({f \in DOMAIN r : r[f] # result[f]}) = 1
           /\ result' = r
    /\ UNCHANGED <<family, bound, lock, todo, shared, text>>

Validate ==
    /\ At("validate")
    /\ IF Accepts(result) THEN Proceed /\ UNCHANGED <<result, shared, changes, text>> ELSE Refuse

\* Mutant: the last copy is not validated once more.
CopyUnchecked ==
    /\ At("copy")
    /\ IF "cyclic" \in result.defects THEN Refuse
       ELSE /\ todo' = IF Len(todo) = 3 THEN <<"return">> ELSE Tail(todo)
            /\ shared' = FALSE /\ UNCHANGED <<family, bound, lock, result, changes, text>>

\* Encoded and decoded again: the object is the call's own.
Copy ==
    /\ At("copy")
    /\ IF "cyclic" \notin result.defects
       THEN Proceed /\ shared' = FALSE /\ UNCHANGED <<result, changes, text>> ELSE Refuse

\* A result that succeeded gets the adapter's provenance, which nobody else may claim.
Attest ==
    /\ At("attest")
    /\ IF result.verdict # "succeeded" THEN Proceed /\ UNCHANGED <<result, shared, changes, text>>
       ELSE IF result.evidence \in {"claimed", "full"} THEN Refuse
       ELSE /\ result' = [result EXCEPT !.evidence = "attested"]
            /\ Proceed /\ UNCHANGED <<shared, changes, text>>

Return ==
    /\ At("return") /\ text' = result /\ result' = None /\ todo' = <<>>
    /\ UNCHANGED <<family, bound, lock, shared, changes>>

Next == Bind \/ Call \/ Lock \/ Host \/ Change \/ Validate \/ Copy \/ Attest \/ Return

Spec == Init /\ [][Next]_vars

-----------------------------------------------------------------------------
(* Properties.                                                             *)

\* Whatever the producer of a result changes and when, the text that is returned belongs to
\* the request and its generations, proves that no model was called and nothing effected,
\* leaks nothing of a cancelled call, and, where the source is pinned, a success carries
\* the adapter's provenance.
ReturnedProven ==
    text # None =>
        /\ Sound(text) /\ (text.verdict = "cancelled" => Silent(text))
        /\ text.evidence = "attested" <=> (text.verdict = "succeeded" /\ Invoke = Pinned)
=============================================================================
