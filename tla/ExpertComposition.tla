-------------------------- MODULE ExpertComposition --------------------------
(***************************************************************************)
(* MetaExpertComposer: an expert is invoked, then every expert its result  *)
(* delegates to, depth first, all on one budget.  The invoker is handed    *)
(* the budget itself, and may write to it, raise, or take its time, while  *)
(* the workspace moves to its next generation or the call is cancelled.    *)
(* The caller may compose again on what is left of its budget.             *)
(***************************************************************************)
EXTENDS Naturals, Sequences

CONSTANTS
    Requests,        \* signatures: expert, operation and input
    MaxInvocations, MaxDepth, MaxEvidence,
    MaxFanOut,       \* bound: delegations and evidence of one result
    MaxCalls,        \* bound: compositions
    MaxGeneration    \* bound

VARIABLES
    budget,      \* SharedSymbolicBudget, as the object reads
    saved,       \* its snapshot
    spent,       \* what was really invoked and recorded
    frames,      \* the path under way: each signature and its delegations to come
    at,          \* what comes next
    result,      \* what the invoker has returned
    generation,  \* of the workspace
    cancelled,
    fence,       \* the generation the call is about
    calls, outcome

vars == <<budget, saved, spent, frames, at, result, generation, cancelled, fence, calls, outcome>>

Used == [invocations : 0..MaxInvocations, evidence : 0..MaxEvidence]
Delegations == UNION {[1..n -> Requests] : n \in 0..MaxFanOut}
Result == [evidence : 0..MaxFanOut, delegations : Delegations]
NoResult == [evidence |-> 0, delegations |-> <<>>]

TypeOK ==
    /\ budget \in [invocations : 0..MaxInvocations, evidence : 0..MaxEvidence, models : 0..1]
    /\ saved \in [invocations : 0..MaxInvocations, evidence : 0..MaxEvidence, models : 0..1]
    /\ spent \in Used
    /\ frames \in Seq([request : Requests, left : Delegations])
    /\ at \in {"idle", "enter", "invoker", "result", "next"} /\ result \in Result
    /\ generation \in 0..MaxGeneration /\ cancelled \in BOOLEAN /\ fence \in 0..MaxGeneration
    /\ calls \in 0..MaxCalls /\ outcome \in {"none", "failed", "returned"}

Init ==
    /\ budget = [invocations |-> 0, evidence |-> 0, models |-> 0] /\ saved = budget
    /\ spent = [invocations |-> 0, evidence |-> 0]
    /\ frames = <<>> /\ at = "idle" /\ result = NoResult
    /\ generation = 0 /\ cancelled = FALSE /\ fence = 0 /\ calls = 0 /\ outcome = "none"

-----------------------------------------------------------------------------
Top == frames[Len(frames)]
Path(stack) == {stack[i].request : i \in DOMAIN stack}

\* InvocationFence.check
Current == ~cancelled /\ generation = fence

\* CompositionError: the whole composition is given up.
Fail == at' = "idle" /\ outcome' = "failed" /\ frames' = <<>> /\ result' = NoResult

\* _invoke, to the call of the invoker, for a request whose ancestors are on the stack:
\* no signature twice on a path, then admit.
Invoke(request, stack) ==
    IF ~Current \/ request \in Path(stack) \/ Len(stack) > MaxDepth
       \/ budget.invocations >= MaxInvocations
    THEN Fail /\ UNCHANGED <<budget, saved, spent>>
    ELSE /\ budget' = [budget EXCEPT !.invocations = @ + 1]
         /\ saved' = budget' /\ spent' = [spent EXCEPT !.invocations = @ + 1]
         /\ frames' = Append(stack, [request |-> request, left |-> <<>>])
         /\ at' = "invoker" /\ UNCHANGED <<outcome, result>>

\* invoke
Compose(request) ==
    /\ at = "idle" /\ calls < MaxCalls /\ calls' = calls + 1
    /\ fence' = generation /\ cancelled' = FALSE
    /\ at' = "enter" /\ outcome' = "none" /\ frames' = <<[request |-> request, left |-> <<>>]>>
    /\ UNCHANGED <<budget, saved, spent, result, generation>>

\* The first request of a composition has no ancestors.
Enter ==
    /\ at = "enter" /\ Invoke(Top.request, <<>>)
    /\ UNCHANGED <<generation, cancelled, fence, calls>>

\* The invoker writes to the budget.
Tamper ==
    /\ at = "invoker"
    /\ \/ \E n \in 0..MaxInvocations : budget' = [budget EXCEPT !.invocations = n]
       \/ \E n \in 0..MaxEvidence : budget' = [budget EXCEPT !.evidence = n]
       \/ budget' = [budget EXCEPT !.models = 1]
    /\ UNCHANGED <<saved, spent, frames, at, result, generation, cancelled, fence, calls, outcome>>

\* Mutant: the budget is not compared with its snapshot.
InvokerEndsUnchecked ==
    /\ at = "invoker" /\ UNCHANGED <<saved, spent, generation, cancelled, fence, calls, budget>>
    /\ \/ \E r \in Result : at' = "result" /\ result' = r /\ UNCHANGED <<frames, outcome>>
       \/ Fail

\* It returns or raises; a budget that it changed is restored either way, and no result
\* is taken then.
InvokerEnds ==
    /\ at = "invoker" /\ UNCHANGED <<saved, spent, generation, cancelled, fence, calls>>
    /\ budget' = saved
    /\ \/ budget = saved /\ \E r \in Result : at' = "result" /\ result' = r /\ UNCHANGED <<frames, outcome>>
       \/ Fail

\* The result is current, and its evidence within the budget.
Accept ==
    /\ at = "result" /\ UNCHANGED <<saved, generation, cancelled, fence, calls>>
    /\ IF ~Current \/ budget.models # 0 \/ budget.evidence + result.evidence > MaxEvidence
       THEN Fail /\ UNCHANGED <<budget, spent>>
       ELSE /\ budget' = [budget EXCEPT !.evidence = @ + result.evidence]
            /\ spent' = [spent EXCEPT !.evidence = @ + result.evidence]
            /\ frames' = [frames EXCEPT ![Len(frames)].left = result.delegations]
            /\ at' = "next" /\ result' = NoResult /\ UNCHANGED outcome

\* The next delegation.
Delegate ==
    /\ at = "next" /\ Top.left # <<>>
    /\ Invoke(Head(Top.left), [frames EXCEPT ![Len(frames)].left = Tail(@)])
    /\ UNCHANGED <<generation, cancelled, fence, calls>>

\* All are done: the node is returned to the one that delegated, or to the caller.
Return ==
    /\ at = "next" /\ Top.left = <<>>
    /\ IF ~Current THEN Fail
       ELSE /\ frames' = SubSeq(frames, 1, Len(frames) - 1) /\ result' = NoResult
            /\ IF Len(frames) = 1 THEN at' = "idle" /\ outcome' = "returned"
               ELSE at' = at /\ outcome' = outcome
    /\ UNCHANGED <<budget, saved, spent, generation, cancelled, fence, calls>>

\* The workspace changes, or the call is cancelled.
Move ==
    /\ at # "idle"
    /\ \/ generation < MaxGeneration /\ generation' = generation + 1 /\ UNCHANGED cancelled
       \/ ~cancelled /\ cancelled' = TRUE /\ UNCHANGED generation
    /\ UNCHANGED <<budget, saved, spent, frames, at, result, fence, calls, outcome>>

Next ==
    \/ \E r \in Requests : Compose(r)
    \/ Enter \/ Tamper \/ InvokerEnds \/ Accept \/ Delegate \/ Return \/ Move

Spec == Init /\ [][Next]_vars

-----------------------------------------------------------------------------
(* Properties.                                                             *)

\* Whatever the invoker writes to the budget and however compositions fail, between its
\* calls the budget says what was really spent, and that is within its limits.
BudgetIsSpent ==
    at # "invoker" => /\ budget.invocations = spent.invocations
                      /\ budget.evidence = spent.evidence /\ budget.models = 0
                      /\ spent.invocations <= MaxInvocations /\ spent.evidence <= MaxEvidence

\* Delegation makes progress: a path repeats no request and is of bounded depth.
PathsProgress ==
    /\ Len(frames) <= MaxDepth + 1
    /\ \A i, j \in DOMAIN frames : frames[i].request = frames[j].request => i = j

\* Every composition on one budget keeps to its bounds.
CompositionBounded == BudgetIsSpent /\ PathsProgress
=============================================================================
