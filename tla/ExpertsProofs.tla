----------------------------- MODULE ExpertsProofs -----------------------------
(***************************************************************************)
(* The expert host's and the experts' parts of MCPlugins, for any experts, *)
(* rules, queries and bounds: each part's inductive invariant, one lemma   *)
(* for what each of its steps does to it, and the theorem that the         *)
(* property of the part holds of every behaviour.                          *)
(***************************************************************************)
EXTENDS CodingProofs, WellFoundedInduction

-----------------------------------------------------------------------------
(* The expert host: what its tables say of the registration in force.      *)

\* What is registered is what was asked for last, and its files are in place; a
\* registration under way has not let anybody have its capabilities.
Registered ==
    /\ registry # 0 => registrar = "idle" /\ registry = Latest /\ kb = requests[Latest].files
    /\ registrar \in {"issue", "files", "registry"} => Latest > 0
    /\ registrar = "registry" => kb = requests[Latest].files

Held(c) == query[c].capability[1]

\* A query holds a capability of a registration, an older one while another is under way;
\* as long as that registration stands, the files the query read are its files.
Faithful(c) ==
    /\ query[c].at \in {"files", "backend", "fence"} =>
           /\ Held(c) \in 1..Latest
           /\ query[c].capability[2] \in requests[Held(c)].predicates
           /\ registrar \in {"issue", "files", "registry"} => Held(c) < Latest
    /\ query[c].at \in {"backend", "fence"} /\ Held(c) = registry =>
           query[c].files = requests[registry].files

HInv == TypeOK /\ Registered /\ \A c \in Callers : Faithful(c)

-----------------------------------------------------------------------------
LEMMA HostInit == ASSUME MaxRegistrations \in Nat, Init  PROVE HInv
<1>1. NoQuery \in [at : {"idle"}, capability : {NoCapability}, files : {NoFiles}]  BY DEF NoQuery
<1>2. requests \in Seq(Request) /\ Len(requests) = 0  BY DEF Init
<1>3. TypeOK  BY <1>1, <1>2 DEF Init, TypeOK
<1>4. Registered  BY DEF Init, Registered
<1>5. \A c \in Callers : Faithful(c)  BY <1>1 DEF Init, Faithful
<1> QED BY <1>3, <1>4, <1>5 DEF HInv

-----------------------------------------------------------------------------
(* The thread that starts and stops plugins: it leaves the queries alone.  *)

LEMMA RegisterStep == ASSUME MaxRegistrations \in Nat, HInv, NEW r \in Request, Register(r)  PROVE HInv'
<1>1. registry = 0
  <2> SUFFICES ASSUME registry # 0  PROVE FALSE  OBVIOUS
  <2>1. Latest \in 1..Len(requests) /\ kb = requests[Latest].files
    BY DEF HInv, TypeOK, Registered, Latest
  <2>2. requests[Latest] \in Request  BY <2>1 DEF HInv, TypeOK
  <2>3. requests[Latest].files # NoFiles  BY <2>2 DEF Request
  <2> QED BY <2>1, <2>3 DEF Register
<1>2. requests' \in Seq(Request) /\ Len(requests') = Len(requests) + 1 /\ Len(requests) \in Nat
      /\ \A n \in 1..Len(requests) : requests'[n] = requests[n]
  BY DEF Register, HInv, TypeOK
<1>3. TypeOK'
  <2>1. Len(requests') <= MaxRegistrations
    BY <1>2 DEF Register, Latest
  <2> QED BY <1>2, <2>1 DEF Register, HInv, TypeOK
<1>4. Registered'  BY <1>1, <1>2 DEF Register, Registered, Latest
<1>5. ASSUME NEW c \in Callers  PROVE Faithful(c)'
  BY <1>1, <1>2 DEF Register, HInv, Faithful, Held, Latest
<1> QED BY <1>3, <1>4, <1>5 DEF HInv

LEMMA IssueStep == ASSUME HInv, Issue  PROVE HInv'
<1>1. Latest \in Registrations /\ requests[Latest] \in Request
  BY DEF Issue, HInv, TypeOK, Registered, Latest, Registrations
<1>2. Capabilities(Latest) \subseteq Capability  BY <1>1 DEF Capabilities, Capability, Request
<1>3. TypeOK'  BY <1>2 DEF Issue, HInv, TypeOK
<1>4. Registered' /\ \A c \in Callers : Faithful(c)'
  BY DEF Issue, HInv, Registered, Faithful, Held, Latest
<1> QED BY <1>3, <1>4 DEF HInv

LEMMA SetFilesStep == ASSUME HInv, SetFiles  PROVE HInv'
<1>1. requests[Latest] \in Request  BY DEF SetFiles, HInv, TypeOK, Registered, Latest
<1>2. TypeOK'  BY <1>1 DEF SetFiles, HInv, TypeOK, Request
<1>3. Registered' /\ \A c \in Callers : Faithful(c)'
  BY DEF SetFiles, HInv, Registered, Faithful, Held, Latest
<1> QED BY <1>2, <1>3 DEF HInv

\* A query that is under way holds an older registration than the one that now stands.
LEMMA SetRegistryStep == ASSUME HInv, SetRegistry  PROVE HInv'
<1>1. Latest \in 1..MaxRegistrations  BY DEF SetRegistry, HInv, TypeOK, Registered, Latest
<1>2. TypeOK'  BY <1>1 DEF SetRegistry, HInv, TypeOK
<1>3. Registered'  BY DEF SetRegistry, HInv, Registered, Latest
<1>4. ASSUME NEW c \in Callers  PROVE Faithful(c)'
  BY <1>1 DEF SetRegistry, HInv, Faithful, Held, Latest
<1> QED BY <1>2, <1>3, <1>4 DEF HInv

LEMMA RevokeStep == ASSUME MaxRegistrations \in Nat, HInv, Unregister \/ PopFiles \/ PopIssued  PROVE HInv'
<1>1. TypeOK'
  <2>1. CASE Unregister
    <3>1. 0 \in 0..MaxRegistrations  OBVIOUS
    <3> QED BY <2>1, <3>1 DEF Unregister, HInv, TypeOK
  <2>2. CASE PopFiles  BY <2>2 DEF PopFiles, HInv, TypeOK
  <2>3. CASE PopIssued  BY <2>3 DEF PopIssued, HInv, TypeOK
  <2> QED BY <2>1, <2>2, <2>3
<1>2. Registered'  BY DEF Unregister, PopFiles, PopIssued, HInv, Registered, Latest
<1>3. ASSUME NEW c \in Callers  PROVE Faithful(c)'
  BY DEF Unregister, PopFiles, PopIssued, HInv, Faithful, Held, Latest
<1> QED BY <1>1, <1>2, <1>3 DEF HInv

-----------------------------------------------------------------------------
(* Queries.                                                                *)

Stages == {"idle", "capability", "files", "backend", "fence", "answered"}

\* A query that moves on is all there is to look at.
LEMMA MovesStep ==
    ASSUME HInv, NEW c \in Callers, NEW q, Moves(c, q),
           q \in [at : Stages, capability : Capability \cup {NoCapability}, files : Sources \cup {NoFiles}],
           Faithful(c)'
    PROVE  HInv'
<1>1. query' = [query EXCEPT ![c] = q]  BY DEF Moves
<1>2. TypeOK'  BY <1>1 DEF Moves, HInv, TypeOK, Stages
<1>3. Registered'  BY DEF Moves, HInv, Registered, Latest
<1>4. ASSUME NEW d \in Callers, d # c  PROVE Faithful(d)'
  <2>1. query'[d] = query[d]  BY <1>1, <1>4 DEF HInv, TypeOK
  <2> QED BY <2>1 DEF Moves, HInv, Faithful, Held, Latest
<1> QED BY <1>2, <1>3, <1>4 DEF HInv

LEMMA FailsStep == ASSUME HInv, NEW c \in Callers, Fails(c)  PROVE HInv'
<1>1. NoQuery \in [at : Stages, capability : Capability \cup {NoCapability}, files : Sources \cup {NoFiles}]
  BY DEF NoQuery, Stages
<1>2. query'[c].at = "idle"  BY DEF Fails, Moves, HInv, TypeOK, NoQuery
<1>3. Faithful(c)'  BY <1>2 DEF Faithful
<1> QED BY <1>1, <1>3, MovesStep DEF Fails

\* What a query is, and becomes.
LEMMA QueryType ==
    ASSUME HInv, NEW c \in Callers
    PROVE  query[c] \in [at : Stages, capability : Capability \cup {NoCapability}, files : Sources \cup {NoFiles}]
BY DEF HInv, TypeOK, Stages

LEMMA AskStep == ASSUME HInv, NEW c \in Callers, Ask(c)  PROVE HInv'
<1>1. CASE Fails(c)  BY <1>1, FailsStep
<1>2. CASE Moves(c, [NoQuery EXCEPT !.at = "capability"])
  <2> DEFINE q == [NoQuery EXCEPT !.at = "capability"]
  <2>1. q \in [at : Stages, capability : Capability \cup {NoCapability}, files : Sources \cup {NoFiles}]
    BY DEF NoQuery, Stages
  <2>2. query'[c].at = "capability"  BY <1>2 DEF Moves, HInv, TypeOK, NoQuery
  <2>3. Faithful(c)'  BY <2>2 DEF Faithful
  <2> QED BY <1>2, <2>1, <2>3, MovesStep
<1> QED BY <1>1, <1>2 DEF Ask

LEMMA GetCapabilityStep ==
    ASSUME HInv, NEW c \in Callers, NEW p \in Predicates, GetCapability(c, p)  PROVE HInv'
<1>1. CASE Fails(c)  BY <1>1, FailsStep
<1>2. CASE /\ registry # 0 /\ <<registry, p>> \in Capabilities(registry)
           /\ Moves(c, [query[c] EXCEPT !.at = "files", !.capability = <<registry, p>>])
  <2> DEFINE q == [query[c] EXCEPT !.at = "files", !.capability = <<registry, p>>]
  <2>1. registry = Latest /\ registry \in Registrations /\ registrar = "idle"
    BY <1>2 DEF HInv, TypeOK, Registered, Registrations
  <2>2. q \in [at : Stages, capability : Capability \cup {NoCapability}, files : Sources \cup {NoFiles}]
    BY <2>1, QueryType DEF Stages, Capability
  <2>3. p \in requests[registry].predicates  BY <1>2 DEF Capabilities
  <2>4. query'[c] = q  BY <1>2 DEF Moves, HInv, TypeOK
  <2>5. query'[c].at = "files" /\ query'[c].capability = <<registry, p>>
    BY <2>4, QueryType
  <2>6. Faithful(c)'
    BY <1>2, <2>1, <2>3, <2>5 DEF Faithful, Held, Moves, Latest, Registrations
  <2> QED BY <1>2, <2>2, <2>6, MovesStep
<1> QED BY <1>1, <1>2 DEF GetCapability

LEMMA GetFilesStep == ASSUME HInv, NEW c \in Callers, GetFiles(c)  PROVE HInv'
<1>1. CASE Fails(c)  BY <1>1, FailsStep
<1>2. CASE query[c].at = "files" /\ Moves(c, [query[c] EXCEPT !.at = "backend", !.files = kb])
  <2> DEFINE q == [query[c] EXCEPT !.at = "backend", !.files = kb]
  <2>1. q \in [at : Stages, capability : Capability \cup {NoCapability}, files : Sources \cup {NoFiles}]
    BY QueryType DEF Stages, HInv, TypeOK
  <2>2. query'[c] = q  BY <1>2 DEF Moves, HInv, TypeOK
  <2>3. query'[c].at = "backend" /\ query'[c].files = kb /\ query'[c].capability = query[c].capability
    BY <2>2, QueryType
  <2>4. Held(c) \in 1..Latest  BY <1>2 DEF HInv, Faithful
  <2>5. Held(c) = registry => kb = requests[registry].files
    BY <2>4 DEF HInv, Registered
  <2>6. Faithful(c)'
    BY <1>2, <2>3, <2>5 DEF HInv, Faithful, Held, Moves, Latest
  <2> QED BY <1>2, <2>1, <2>6, MovesStep
<1> QED BY <1>1, <1>2 DEF GetFiles

LEMMA BackendStep == ASSUME HInv, NEW c \in Callers, Backend(c)  PROVE HInv'
<1>1. CASE Fails(c)  BY <1>1, FailsStep
<1>2. CASE query[c].at = "backend" /\ Moves(c, [query[c] EXCEPT !.at = "fence"])
  <2> DEFINE q == [query[c] EXCEPT !.at = "fence"]
  <2>1. q \in [at : Stages, capability : Capability \cup {NoCapability}, files : Sources \cup {NoFiles}]
    BY QueryType DEF Stages
  <2>2. query'[c] = q  BY <1>2 DEF Moves, HInv, TypeOK
  <2>3. query'[c].at = "fence" /\ query'[c].files = query[c].files /\ query'[c].capability = query[c].capability
    BY <2>2, QueryType
  <2>4. Faithful(c)'  BY <1>2, <2>3 DEF HInv, Faithful, Held, Moves, Latest
  <2> QED BY <1>2, <2>1, <2>4, MovesStep
<1> QED BY <1>1, <1>2 DEF Backend

LEMMA FenceStep == ASSUME HInv, NEW c \in Callers, Fence(c)  PROVE HInv'
<1>1. CASE Fails(c)  BY <1>1, FailsStep
<1>2. CASE Moves(c, [query[c] EXCEPT !.at = "answered"])
  <2> DEFINE q == [query[c] EXCEPT !.at = "answered"]
  <2>1. q \in [at : Stages, capability : Capability \cup {NoCapability}, files : Sources \cup {NoFiles}]
    BY QueryType DEF Stages
  <2>2. query'[c] = q  BY <1>2 DEF Moves, HInv, TypeOK
  <2>3. query'[c].at = "answered"  BY <2>2, QueryType
  <2>4. Faithful(c)'  BY <2>3 DEF Faithful
  <2> QED BY <1>2, <2>1, <2>4, MovesStep
<1> QED BY <1>1, <1>2 DEF Fence

LEMMA HostStep == ASSUME MaxRegistrations \in Nat, HInv, [Next]_vars  PROVE HInv'
<1>1. ASSUME NEW r \in Request, Register(r)  PROVE HInv'  BY <1>1, RegisterStep
<1>2. CASE Issue  BY <1>2, IssueStep
<1>3. CASE SetFiles  BY <1>3, SetFilesStep
<1>4. CASE SetRegistry  BY <1>4, SetRegistryStep
<1>5. CASE Unregister \/ PopFiles \/ PopIssued  BY <1>5, RevokeStep
<1>6. ASSUME NEW c \in Callers, Ask(c) \/ GetFiles(c) \/ Backend(c) \/ Fence(c)  PROVE HInv'
  BY <1>6, AskStep, GetFilesStep, BackendStep, FenceStep
<1>7. ASSUME NEW c \in Callers, NEW p \in Predicates, GetCapability(c, p)  PROVE HInv'
  BY <1>7, GetCapabilityStep
<1>8. CASE UNCHANGED vars
  BY <1>8 DEF vars, HInv, TypeOK, Registered, Faithful, Held, Latest
<1> QED BY <1>1, <1>2, <1>3, <1>4, <1>5, <1>6, <1>7, <1>8 DEF Next

\* For any number of queries and registrations: the tables of the expert host keep their
\* types, and agree with the registration that was asked for last.
THEOREM HostTables == MCSpec => []HInv
<1>1. MCInit => HInv
  BY HostInit, PluginsAssumption DEF MCInit
<1>2. HInv /\ [MCNext]_mcVars => HInv'
  <2> SUFFICES ASSUME HInv, [MCNext]_mcVars  PROVE HInv'
    OBVIOUS
  <2>1. [Next]_vars
    BY DEF MCNext, mcVars, vars
  <2> QED BY <2>1, HostStep, PluginsAssumption
<1> QED BY <1>1, <1>2, PTL DEF MCSpec

\* For any number of queries at once, and any order of their steps and those of stops and
\* new starts: whatever _run answers was computed on the files of the registration that is
\* in force when it answers, and that registration has the predicate.
THEOREM AnswersHold == MCSpec => AnswersOfAuthority
<1>1. ASSUME HInv, [Next]_vars  PROVE [AnswerOfAuthority]_vars
  <2> SUFFICES ASSUME NEW c \in Callers, Answers(c), Next  PROVE OfAuthority(c)
    BY <1>1 DEF AnswerOfAuthority
  <2>1. query[c].at = "fence" /\ query'[c].at = "answered"  BY DEF Answers
  <2>2. ASSUME NEW d \in Callers, NEW q, Moves(d, q), d # c  PROVE FALSE
    <3>1. query'[c] = query[c]  BY <1>1, <2>2 DEF Moves, HInv, TypeOK
    <3> QED BY <2>1, <3>1
  <2>3. query' # query  BY <2>1
  <2>4. PICK d \in Callers : \/ Ask(d) \/ GetFiles(d) \/ Backend(d) \/ Fence(d)
                             \/ \E p \in Predicates : GetCapability(d, p)
    BY <2>3 DEF Next, Register, Issue, SetFiles, SetRegistry, Unregister, PopFiles, PopIssued
  <2>5. \E q : Moves(d, q)
    BY <2>4 DEF Ask, GetFiles, Backend, Fence, GetCapability, Fails
  <2>6. d = c  BY <2>2, <2>5
  <2>7. Fence(c)  BY <2>1, <2>4, <2>6 DEF Ask, GetFiles, Backend, GetCapability
  <2>8. registry # 0 /\ Held(c) = registry
    <3>1. ~Fails(c)  BY <1>1, <2>1 DEF Fails, Moves, NoQuery, HInv, TypeOK
    <3> QED BY <2>7, <3>1 DEF Fence, Held
  <2> QED BY <1>1, <2>1, <2>8 DEF HInv, Faithful, Held, OfAuthority
<1>2. [MCNext]_mcVars => [Next]_vars
  BY DEF MCNext, mcVars, vars
<1>3. HInv /\ [MCNext]_mcVars => [AnswerOfAuthority]_vars
  BY <1>1, <1>2
<1> QED BY <1>3, HostTables, PTL DEF MCSpec, AnswersOfAuthority

-----------------------------------------------------------------------------
(* Composition: what the budget and the path say.                          *)

Frame == [request : Signatures, left : Seq(Signatures)]
Budget == [invocations : Nat, evidence : Nat, models : Nat]

\* A path of frames that repeats no request and is not too deep.
Sound(stack) ==
    /\ stack \in Seq(Frame) /\ Len(stack) <= MaxDepth + 1
    /\ \A i, j \in DOMAIN stack : stack[i].request = stack[j].request => i = j

CompositionTyped ==
    /\ budget \in Budget /\ saved \in Budget /\ spent \in C!Used
    /\ taken \in [evidence : Nat, delegations : Seq(Signatures)]

\* Between the invoker's calls the budget is what was spent; during one its snapshot is.
Accounted ==
    LET kept == IF step = "invoker" THEN saved ELSE budget
    IN  /\ kept.invocations = spent.invocations /\ kept.evidence = spent.evidence
        /\ kept.models = 0

\* There is a path as long as there is a step that looks at its end.
OnPath == Sound(frames) /\ (step \in {"enter", "invoker", "result", "next"} => Len(frames) > 0)

CInv == CompositionTyped /\ Accounted /\ OnPath

Limits == MaxInvocations \in Nat /\ MaxDepth \in Nat /\ MaxEvidence \in Nat /\ MaxFanOut \in Nat

-----------------------------------------------------------------------------
(* Paths.                                                                  *)

LEMMA EmptyPath == ASSUME Limits  PROVE Sound(<<>>)
BY DEF Sound, Limits

\* Room for one more, that is not on the path.
LEMMA Longer ==
    ASSUME Limits, NEW stack, Sound(stack), Len(stack) <= MaxDepth, NEW request \in Signatures,
           request \notin C!Path(stack)
    PROVE  LET longer == Append(stack, [request |-> request, left |-> <<>>])
           IN  Sound(longer) /\ Len(longer) > 0
<1> DEFINE new == [request |-> request, left |-> <<>>]
           longer == Append(stack, new)
<1>1. new \in Frame /\ new.request = request  BY DEF Frame
<1> HIDE DEF new
<1>2. stack \in Seq(Frame) /\ Len(stack) \in Nat /\ DOMAIN stack = 1..Len(stack)
  BY LenProperties DEF Sound
<1>3. /\ longer \in Seq(Frame) /\ Len(longer) = Len(stack) + 1 /\ longer[Len(stack) + 1] = new
      /\ \A i \in 1..Len(stack) : longer[i] = stack[i]
      /\ DOMAIN longer = 1..(Len(stack) + 1)
  BY <1>1, <1>2
<1> HIDE DEF longer
<1>4. \A i \in 1..Len(stack) : stack[i].request # request  BY <1>2 DEF C!Path
<1>5. \A i, j \in DOMAIN longer : longer[i].request = longer[j].request => i = j
  BY <1>1, <1>2, <1>3, <1>4 DEF Sound
<1>6. Sound(longer) /\ Len(longer) > 0
  <2>1. Len(longer) <= MaxDepth + 1 /\ Len(longer) > 0  BY <1>2, <1>3 DEF Limits
  <2> QED BY <1>3, <1>5, <2>1 DEF Sound
<1> QED BY <1>6 DEF longer, new

\* What is left to delegate to is no matter of the path.
LEMMA LeftOnly ==
    ASSUME Limits, NEW stack, Sound(stack), Len(stack) > 0, NEW left \in Seq(Signatures)
    PROVE  LET other == [stack EXCEPT ![Len(stack)].left = left]
           IN  Sound(other) /\ Len(other) = Len(stack)
<1> DEFINE n == Len(stack)
           other == [stack EXCEPT ![n].left = left]
<1>1. stack \in Seq(Frame) /\ n \in Nat /\ DOMAIN stack = 1..n /\ n \in 1..n
  BY LenProperties DEF Sound
<1>2. \A i \in 1..n : stack[i] \in Frame  BY <1>1
<1>3. DOMAIN other = 1..n /\ \A i \in 1..n : i # n => other[i] = stack[i]  BY <1>1
<1>4. other[n] = [stack[n] EXCEPT !.left = left]  BY <1>1
<1>5. other[n] \in Frame /\ other[n].request = stack[n].request  BY <1>1, <1>2, <1>4 DEF Frame
<1>6. \A i \in 1..n : other[i] \in Frame /\ other[i].request = stack[i].request
  BY <1>2, <1>3, <1>5
<1>7. other = [i \in 1..n |-> other[i]]  BY <1>1
<1> HIDE DEF other
<1>8. other \in [1..n -> Frame]  BY <1>6, <1>7
<1> HIDE DEF n
<1>9. other \in Seq(Frame)  BY <1>1, <1>8, SeqDef
<1>10. Len(other) = n  BY <1>1, <1>3, <1>9, LenProperties
<1>11. Sound(other)  BY <1>1, <1>3, <1>6, <1>9, <1>10 DEF n, Sound
<1> QED BY <1>10, <1>11 DEF n, other

LEMMA Shorter ==
    ASSUME Limits, NEW stack, Sound(stack), Len(stack) > 0
    PROVE  LET shorter == SubSeq(stack, 1, Len(stack) - 1)
           IN  Sound(shorter) /\ Len(shorter) = Len(stack) - 1
<1> DEFINE n == Len(stack)
           shorter == SubSeq(stack, 1, n - 1)
<1>1. stack \in Seq(Frame) /\ n \in Nat \ {0} /\ DOMAIN stack = 1..n
  BY LenProperties DEF Sound
<1>2. /\ shorter \in Seq(Frame) /\ Len(shorter) = n - 1
      /\ \A i \in 1..(n - 1) : shorter[i] = stack[i]
  BY <1>1
<1>3. DOMAIN shorter = 1..(n - 1)  BY <1>2, LenProperties
<1>4. \A i, j \in DOMAIN shorter : shorter[i].request = shorter[j].request => i = j
  BY <1>1, <1>2, <1>3 DEF Sound
<1> QED BY <1>1, <1>2, <1>4 DEF Sound, Limits

LEMMA ResultIs == C!Result \subseteq [evidence : Nat, delegations : Seq(Signatures)]
<1>1. C!Delegations \subseteq Seq(Signatures)  BY DEF C!Delegations
<1> QED BY <1>1 DEF C!Result

-----------------------------------------------------------------------------
(* The steps.                                                              *)

LEMMA CompositionInit == ASSUME Limits, C!Init  PROVE CInv
<1>1. CompositionTyped  BY DEF C!Init, CompositionTyped, Budget, C!Used, C!NoResult, Limits
<1>2. Accounted  BY DEF C!Init, Accounted
<1>3. OnPath  BY EmptyPath DEF C!Init, OnPath
<1> QED BY <1>1, <1>2, <1>3 DEF CInv

\* A composition that is given up.
LEMMA FailStep ==
    ASSUME Limits, CInv, C!Fail, UNCHANGED <<saved, spent>>,
           budget' = (IF step = "invoker" THEN saved ELSE budget)
    PROVE  CInv'
<1>1. CompositionTyped'  BY DEF C!Fail, C!NoResult, CInv, CompositionTyped
<1>2. Accounted'  BY DEF C!Fail, CInv, Accounted
<1>3. OnPath'  BY EmptyPath DEF C!Fail, OnPath, Sound
<1> QED BY <1>1, <1>2, <1>3 DEF CInv

LEMMA InvokeStep ==
    ASSUME Limits, CInv, step # "invoker", NEW request \in Signatures, NEW stack, Sound(stack), C!Invoke(request, stack)
    PROVE  CInv'
<1>1. CASE C!Fail /\ UNCHANGED <<budget, saved, spent>>
  <2>1. budget' = (IF step = "invoker" THEN saved ELSE budget)  BY <1>1
  <2> QED BY <1>1, <2>1, FailStep
<1>2. CASE /\ request \notin C!Path(stack) /\ ~(Len(stack) > MaxDepth) /\ ~(budget.invocations >= MaxInvocations)
           /\ budget' = [budget EXCEPT !.invocations = @ + 1]
           /\ saved' = budget' /\ spent' = [spent EXCEPT !.invocations = @ + 1]
           /\ frames' = Append(stack, [request |-> request, left |-> <<>>])
           /\ step' = "invoker" /\ UNCHANGED <<outcome, taken>>
  <2>1. budget.invocations = spent.invocations /\ budget.evidence = spent.evidence /\ budget.models = 0
    BY DEF CInv, Accounted
  <2>2. CompositionTyped'
    <3>1. budget \in Budget /\ saved \in Budget /\ spent \in C!Used  BY DEF CInv, CompositionTyped
    <3>2. budget' \in Budget /\ saved' = budget'  BY <1>2, <3>1 DEF Budget
    <3>3. spent.invocations + 1 \in 0..MaxInvocations
      BY <1>2, <2>1, <3>1 DEF Budget, C!Used, Limits
    <3>4. spent' \in C!Used  BY <1>2, <3>1, <3>3 DEF C!Used
    <3> QED BY <1>2, <3>2, <3>4 DEF CInv, CompositionTyped
  <2>3. Accounted'  BY <1>2, <2>1 DEF CInv, CompositionTyped, Accounted, Budget, C!Used
  <2>4. Len(stack) <= MaxDepth
    BY <1>2, LenProperties DEF Sound, Limits
  <2>5. Sound(frames') /\ Len(frames') > 0  BY <1>2, <2>4, Longer
  <2>6. OnPath'  BY <2>5 DEF OnPath, Sound
  <2> QED BY <2>2, <2>3, <2>6 DEF CInv
<1> QED BY <1>1, <1>2 DEF C!Invoke

LEMMA ComposeStep == ASSUME Limits, CInv, NEW r \in Signatures, C!Compose(r)  PROVE CInv'
<1>1. CompositionTyped' /\ Accounted'  BY DEF C!Compose, CInv, CompositionTyped, Accounted
<1>2. Sound(frames') /\ Len(frames') = 1
  <2>1. frames' = <<[request |-> r, left |-> <<>>]>>  BY DEF C!Compose
  <2>2. [request |-> r, left |-> <<>>] \in Frame  BY DEF Frame
  <2> QED BY <2>1, <2>2 DEF Sound, Limits
<1>3. OnPath'  BY <1>2 DEF OnPath, Sound
<1> QED BY <1>1, <1>3 DEF CInv

LEMMA TopIs == ASSUME CInv, step \in {"enter", "next"}  PROVE C!Top \in Frame /\ Len(frames) \in Nat \ {0}
BY LenProperties DEF CInv, OnPath, Sound, C!Top

LEMMA EnterStep == ASSUME Limits, CInv, C!Enter  PROVE CInv'
<1>1. C!Top.request \in Signatures  BY TopIs DEF C!Enter, Frame
<1> QED BY <1>1, EmptyPath, InvokeStep DEF C!Enter

\* The invoker may write to the budget, not to its snapshot.
LEMMA TamperStep == ASSUME Limits, CInv, C!Tamper  PROVE CInv'
<1>1. budget' \in Budget  BY DEF C!Tamper, CInv, CompositionTyped, Budget, Limits
<1>2. CompositionTyped' /\ Accounted' /\ OnPath'
  BY <1>1 DEF C!Tamper, CInv, CompositionTyped, Accounted, OnPath, Sound
<1> QED BY <1>2 DEF CInv

LEMMA InvokerEndsStep == ASSUME Limits, CInv, C!InvokerEnds  PROVE CInv'
<1>1. step = "invoker" /\ budget' = saved /\ UNCHANGED <<saved, spent>>  BY DEF C!InvokerEnds
<1>2. CASE C!Fail  BY <1>1, <1>2, FailStep
<1>3. ASSUME NEW r \in C!Result, step' = "result", taken' = r, UNCHANGED <<frames, outcome>>  PROVE CInv'
  <2>1. CompositionTyped'  BY <1>1, <1>3, ResultIs DEF CInv, CompositionTyped
  <2>2. Accounted' /\ OnPath'  BY <1>1, <1>3 DEF CInv, Accounted, OnPath, Sound
  <2> QED BY <2>1, <2>2 DEF CInv
<1> QED BY <1>2, <1>3 DEF C!InvokerEnds

LEMMA AcceptStep == ASSUME Limits, CInv, C!Accept  PROVE CInv'
<1>1. step = "result" /\ UNCHANGED saved  BY DEF C!Accept
<1>2. CASE C!Fail /\ UNCHANGED <<budget, spent>>
  <2>1. budget' = (IF step = "invoker" THEN saved ELSE budget)  BY <1>1, <1>2
  <2> QED BY <1>1, <1>2, <2>1, FailStep
<1>3. CASE /\ ~(budget.evidence + taken.evidence > MaxEvidence)
           /\ budget' = [budget EXCEPT !.evidence = @ + taken.evidence]
           /\ spent' = [spent EXCEPT !.evidence = @ + taken.evidence]
           /\ frames' = [frames EXCEPT ![Len(frames)].left = taken.delegations]
           /\ step' = "next" /\ taken' = C!NoResult
  <2>1. budget.invocations = spent.invocations /\ budget.evidence = spent.evidence /\ budget.models = 0
    BY <1>1 DEF CInv, Accounted
  <2>2. taken.evidence \in Nat /\ taken.delegations \in Seq(Signatures)  BY DEF CInv, CompositionTyped
  <2>3. CompositionTyped'
    <3>1. budget \in Budget /\ saved \in Budget /\ spent \in C!Used  BY DEF CInv, CompositionTyped
    <3>2. budget' \in Budget  BY <1>3, <2>2, <3>1 DEF Budget
    <3>3. spent.evidence + taken.evidence \in 0..MaxEvidence
      BY <1>3, <2>1, <2>2, <3>1 DEF Budget, C!Used, Limits
    <3>4. spent' \in C!Used  BY <1>3, <3>1, <3>3 DEF C!Used
    <3>5. taken' \in [evidence : Nat, delegations : Seq(Signatures)]  BY <1>3 DEF C!NoResult
    <3> QED BY <1>1, <3>1, <3>2, <3>4, <3>5 DEF CompositionTyped
  <2>4. Accounted'  BY <1>1, <1>3, <2>1, <2>2 DEF CInv, CompositionTyped, Accounted, Budget, C!Used
  <2>5. Len(frames) > 0 /\ Sound(frames)  BY <1>1 DEF CInv, OnPath
  <2>6. Sound(frames') /\ Len(frames') = Len(frames)  BY <1>3, <2>2, <2>5, LeftOnly
  <2>7. OnPath'  BY <2>5, <2>6 DEF OnPath, Sound
  <2> QED BY <2>3, <2>4, <2>7 DEF CInv
<1> QED BY <1>2, <1>3 DEF C!Accept

LEMMA DelegateStep == ASSUME Limits, CInv, C!Delegate  PROVE CInv'
<1> DEFINE stack == [frames EXCEPT ![Len(frames)].left = Tail(@)]
<1>1. step = "next" /\ C!Top.left # <<>> /\ C!Invoke(Head(C!Top.left), stack)  BY DEF C!Delegate
<1>2. C!Top \in Frame /\ Len(frames) \in Nat \ {0} /\ Sound(frames)  BY <1>1, TopIs DEF CInv, OnPath
<1>3. C!Top.left \in Seq(Signatures)  BY <1>2 DEF Frame
<1>4. Head(C!Top.left) \in Signatures /\ Tail(C!Top.left) \in Seq(Signatures)  BY <1>1, <1>3
<1>5. stack = [frames EXCEPT ![Len(frames)].left = Tail(C!Top.left)]
  BY <1>2, LenProperties DEF C!Top, Sound
<1>6. Sound([frames EXCEPT ![Len(frames)].left = Tail(C!Top.left)])
  <2>1. Len(frames) > 0  BY <1>2
  <2> DEFINE rest == Tail(C!Top.left)
  <2>2. rest \in Seq(Signatures)  BY <1>4
  <2> HIDE DEF rest
  <2>3. Sound([frames EXCEPT ![Len(frames)].left = rest])  BY <1>2, <2>1, <2>2, LeftOnly
  <2> QED BY <2>3 DEF rest
<1>7. Sound(stack)  BY <1>5, <1>6
<1> HIDE DEF stack
<1> QED BY <1>1, <1>4, <1>7, InvokeStep

LEMMA ReturnStep == ASSUME Limits, CInv, C!Return  PROVE CInv'
<1>1. step = "next" /\ UNCHANGED <<budget, saved, spent>>  BY DEF C!Return
<1>2. CASE C!Fail
  <2>1. budget' = (IF step = "invoker" THEN saved ELSE budget)  BY <1>1
  <2> QED BY <1>1, <1>2, <2>1, FailStep
<1>3. CASE /\ frames' = SubSeq(frames, 1, Len(frames) - 1) /\ taken' = C!NoResult
           /\ IF Len(frames) = 1 THEN step' = "idle" /\ outcome' = "returned"
              ELSE step' = step /\ outcome' = outcome
  <2>1. Len(frames) \in Nat \ {0} /\ Sound(frames)  BY <1>1, TopIs DEF CInv, OnPath
  <2>2. Sound(frames') /\ Len(frames') = Len(frames) - 1  BY <1>3, <2>1, Shorter
  <2>3. CompositionTyped'  BY <1>1, <1>3 DEF CInv, CompositionTyped, C!NoResult
  <2>4. Accounted'  BY <1>1, <1>3 DEF CInv, Accounted
  <2>5. OnPath'  BY <1>1, <1>3, <2>1, <2>2 DEF OnPath, Sound
  <2> QED BY <2>3, <2>4, <2>5 DEF CInv
<1> QED BY <1>2, <1>3 DEF C!Return

LEMMA CompositionStep == ASSUME Limits, CInv, [C!Next]_C!vars  PROVE CInv'
<1>1. ASSUME NEW r \in Signatures, C!Compose(r)  PROVE CInv'  BY <1>1, ComposeStep
<1>2. CASE C!Enter \/ C!Tamper \/ C!InvokerEnds \/ C!Accept
  BY <1>2, EnterStep, TamperStep, InvokerEndsStep, AcceptStep
<1>3. CASE C!Delegate \/ C!Return  BY <1>3, DelegateStep, ReturnStep
<1>4. CASE C!Move
  BY <1>4 DEF C!Move, CInv, CompositionTyped, Accounted, OnPath, Sound
<1>5. CASE UNCHANGED C!vars
  BY <1>5 DEF C!vars, CInv, CompositionTyped, Accounted, OnPath, Sound
<1> QED BY <1>1, <1>2, <1>3, <1>4, <1>5 DEF C!Next

-----------------------------------------------------------------------------
(* Composition: its types.                                                 *)

LEMMA DelegationsAre ==
    ASSUME Limits, NEW list
    PROVE  list \in C!Delegations <=> list \in Seq(Signatures) /\ Len(list) <= MaxFanOut
<1>1. ASSUME list \in C!Delegations  PROVE list \in Seq(Signatures) /\ Len(list) <= MaxFanOut
  <2>1. PICK n \in 0..MaxFanOut : list \in [1..n -> Signatures]
    BY <1>1 DEF C!Delegations
  <2>2. list \in Seq(Signatures) /\ DOMAIN list = 1..n
    BY <2>1, SeqDef
  <2>3. Len(list) = n
    BY <2>1, <2>2, LenProperties
  <2> QED BY <2>1, <2>2, <2>3 DEF Limits
<1>2. ASSUME list \in Seq(Signatures), Len(list) <= MaxFanOut  PROVE list \in C!Delegations
  <2>1. Len(list) \in 0..MaxFanOut /\ list \in [1..Len(list) -> Signatures]
    BY <1>2, LenProperties DEF Limits
  <2> QED BY <2>1, Zenon DEF C!Delegations
<1> QED BY <1>1, <1>2

ComposerFrame == [request : Signatures, left : C!Delegations]

LEMMA NoneLeft == ASSUME Limits  PROVE <<>> \in C!Delegations /\ C!NoResult \in C!Result
<1>1. <<>> \in Seq(Signatures) /\ Len(<<>>) <= MaxFanOut
  BY DEF Limits
<1>2. <<>> \in C!Delegations
  BY <1>1, DelegationsAre, Zenon
<1> QED BY <1>2 DEF C!NoResult, C!Result, Limits

LEMMA LeftTyped ==
    ASSUME NEW stack \in Seq(ComposerFrame), Len(stack) > 0, NEW left \in C!Delegations
    PROVE  [stack EXCEPT ![Len(stack)].left = left] \in Seq(ComposerFrame)
<1> DEFINE n == Len(stack)
           other == [stack EXCEPT ![n].left = left]
<1>1. n \in Nat /\ DOMAIN stack = 1..n /\ n \in 1..n /\ stack \in [1..n -> ComposerFrame]
  BY LenProperties
<1>2. other = [stack EXCEPT ![n] = [stack[n] EXCEPT !.left = left]]
  BY <1>1
<1>3. [stack[n] EXCEPT !.left = left] \in ComposerFrame
  BY <1>1 DEF ComposerFrame
<1>4. other \in [1..n -> ComposerFrame]
  BY <1>1, <1>2, <1>3
<1> QED BY <1>1, <1>4, SeqDef

ComposerInv == CInv /\ C!TypeOK

LEMMA FailTypes ==
    ASSUME Limits, ComposerInv, C!Fail, UNCHANGED <<saved, spent, generation, fence, calls>>, cancelled' \in BOOLEAN,
           budget' \in {budget, saved}
    PROVE  C!TypeOK'
BY NoneLeft DEF C!Fail, ComposerInv, C!TypeOK

LEMMA InvokeTypes ==
    ASSUME Limits, ComposerInv, step # "invoker", NEW request \in Signatures, NEW stack \in Seq(ComposerFrame),
           C!Invoke(request, stack), UNCHANGED <<generation, cancelled, fence, calls>>
    PROVE  C!TypeOK'
<1>1. CASE C!Fail /\ UNCHANGED <<budget, saved, spent>>
  BY <1>1, FailTypes DEF ComposerInv, C!TypeOK
<1>2. CASE /\ ~(budget.invocations >= MaxInvocations)
           /\ budget' = [budget EXCEPT !.invocations = @ + 1]
           /\ saved' = budget' /\ spent' = [spent EXCEPT !.invocations = @ + 1]
           /\ frames' = Append(stack, [request |-> request, left |-> <<>>])
           /\ step' = "invoker" /\ UNCHANGED <<outcome, taken>>
  <2>1. budget.invocations = spent.invocations
    BY DEF ComposerInv, CInv, Accounted
  <2>2. budget.invocations + 1 \in 0..MaxInvocations
    BY <1>2 DEF ComposerInv, C!TypeOK, Limits
  <2>3. /\ budget' \in [invocations : 0..MaxInvocations, evidence : 0..MaxEvidence, models : 0..1]
        /\ spent' \in C!Used
    BY <1>2, <2>1, <2>2 DEF ComposerInv, C!TypeOK, C!Used
  <2>4. [request |-> request, left |-> <<>>] \in ComposerFrame
    BY NoneLeft DEF ComposerFrame
  <2>5. frames' \in Seq(ComposerFrame)
    BY <1>2, <2>4
  <2> QED BY <1>2, <2>3, <2>5 DEF ComposerInv, C!TypeOK, ComposerFrame
<1> QED BY <1>1, <1>2 DEF C!Invoke

LEMMA CompositionTypes == Limits /\ MaxCalls \in Nat /\ MaxGeneration \in Nat /\ ComposerInv /\ [C!Next]_C!vars => C!TypeOK'
<1> SUFFICES ASSUME Limits, MaxCalls \in Nat, MaxGeneration \in Nat, ComposerInv, [C!Next]_C!vars  PROVE C!TypeOK'
  OBVIOUS
<1>0. C!TypeOK /\ frames \in Seq(ComposerFrame) /\ CInv
  BY DEF ComposerInv, C!TypeOK, ComposerFrame
<1>1. ASSUME NEW r \in Signatures, C!Compose(r)  PROVE C!TypeOK'
  <2>1. [request |-> r, left |-> <<>>] \in ComposerFrame
    BY NoneLeft DEF ComposerFrame
  <2>2. frames' \in Seq(ComposerFrame) /\ calls' \in 0..MaxCalls
    BY <1>0, <1>1, <2>1 DEF C!Compose, C!TypeOK
  <2> QED BY <1>0, <1>1, <2>2 DEF C!Compose, C!TypeOK, ComposerFrame
<1>2. CASE C!Enter
  <2>1. C!Top.request \in Signatures
    BY <1>0, <1>2, TopIs DEF C!Enter, Frame
  <2>2. <<>> \in Seq(ComposerFrame)
    OBVIOUS
  <2> QED BY <1>2, <2>1, <2>2, InvokeTypes DEF C!Enter
<1>3. CASE C!Tamper
  BY <1>0, <1>3 DEF C!Tamper, C!TypeOK
<1>4. CASE C!InvokerEnds
  <2>1. CASE C!Fail
    BY <1>0, <1>4, <2>1, FailTypes DEF C!InvokerEnds, C!TypeOK
  <2>2. ASSUME NEW r \in C!Result, step' = "result", taken' = r, UNCHANGED <<frames, outcome>>  PROVE C!TypeOK'
    BY <1>0, <1>4, <2>2 DEF C!InvokerEnds, C!TypeOK
  <2> QED BY <1>4, <2>1, <2>2 DEF C!InvokerEnds
<1>5. CASE C!Accept
  <2>0. UNCHANGED <<saved, generation, cancelled, fence, calls>> /\ step = "result" /\ cancelled \in BOOLEAN
    BY <1>0, <1>5 DEF C!Accept, C!TypeOK
  <2>1. CASE C!Fail /\ UNCHANGED <<budget, spent>>
    BY <2>0, <2>1, FailTypes
  <2>2. CASE /\ ~(budget.evidence + taken.evidence > MaxEvidence)
             /\ budget' = [budget EXCEPT !.evidence = @ + taken.evidence]
             /\ spent' = [spent EXCEPT !.evidence = @ + taken.evidence]
             /\ frames' = [frames EXCEPT ![Len(frames)].left = taken.delegations]
             /\ step' = "next" /\ taken' = C!NoResult /\ UNCHANGED outcome
    <3>1. budget.evidence = spent.evidence
      BY <1>0, <2>0 DEF CInv, Accounted
    <3>2. taken.evidence \in 0..MaxFanOut /\ taken.delegations \in C!Delegations
      BY <1>0 DEF C!TypeOK, C!Result
    <3>3. budget.evidence + taken.evidence \in 0..MaxEvidence
      <4>1. budget.evidence \in 0..MaxEvidence
        BY <1>0 DEF C!TypeOK
      <4> QED BY <2>2, <3>2, <4>1 DEF Limits
    <3>4. /\ budget' \in [invocations : 0..MaxInvocations, evidence : 0..MaxEvidence, models : 0..1]
          /\ spent' \in C!Used
      BY <1>0, <2>2, <3>1, <3>3 DEF C!TypeOK, C!Used
    <3>5. frames' \in Seq(ComposerFrame)
      <4>1. Len(frames) > 0
        BY <1>0, <2>0 DEF CInv, OnPath
      <4> QED BY <1>0, <2>2, <3>2, <4>1, LeftTyped
    <3> QED BY <1>0, <2>0, <2>2, <3>4, <3>5, NoneLeft DEF C!TypeOK, ComposerFrame
  <2> QED BY <1>5, <2>1, <2>2 DEF C!Accept
<1>6. CASE C!Delegate
  <2> DEFINE stack == [frames EXCEPT ![Len(frames)].left = Tail(@)]
  <2>1. step = "next" /\ C!Top.left # <<>> /\ C!Invoke(Head(C!Top.left), stack)
        /\ UNCHANGED <<generation, cancelled, fence, calls>>
    BY <1>6 DEF C!Delegate
  <2>2. Len(frames) \in DOMAIN frames /\ C!Top = frames[Len(frames)]
    <3>1. Len(frames) \in Nat \ {0}
      BY <1>0, <2>1, TopIs
    <3> QED BY <1>0, <3>1 DEF C!Top
  <2>3. C!Top \in ComposerFrame
    BY <1>0, <2>2
  <2>4. C!Top.left \in Seq(Signatures) /\ Len(C!Top.left) <= MaxFanOut
    BY <2>3, DelegationsAre DEF ComposerFrame
  <2>5. Head(C!Top.left) \in Signatures /\ Tail(C!Top.left) \in C!Delegations
    <3>1. /\ Head(C!Top.left) \in Signatures /\ Tail(C!Top.left) \in Seq(Signatures)
          /\ Len(Tail(C!Top.left)) <= Len(C!Top.left) /\ Len(C!Top.left) \in Nat /\ Len(Tail(C!Top.left)) \in Nat
      BY <2>1, <2>4
    <3>2. Len(Tail(C!Top.left)) <= MaxFanOut
      BY <2>4, <3>1 DEF Limits
    <3> QED BY <3>1, <3>2, DelegationsAre
  <2>6. stack \in Seq(ComposerFrame)
    <3> DEFINE rest == Tail(C!Top.left)
    <3>1. stack = [frames EXCEPT ![Len(frames)].left = rest]
      BY <1>0, <2>2
    <3>2. rest \in C!Delegations
      BY <2>5
    <3> HIDE DEF rest, stack
    <3>3. Len(frames) > 0
      BY <1>0, <2>1 DEF CInv, OnPath
    <3> QED BY <1>0, <3>1, <3>2, <3>3, LeftTyped
  <2> HIDE DEF stack
  <2> QED BY <2>1, <2>5, <2>6, InvokeTypes
<1>7. CASE C!Return
  <2>0. UNCHANGED <<budget, saved, spent, generation, cancelled, fence, calls>> /\ cancelled \in BOOLEAN /\ step = "next"
    BY <1>0, <1>7 DEF C!Return, C!TypeOK
  <2>1. CASE C!Fail
    BY <2>0, <2>1, FailTypes
  <2>2. CASE /\ frames' = SubSeq(frames, 1, Len(frames) - 1) /\ taken' = C!NoResult
             /\ IF Len(frames) = 1 THEN step' = "idle" /\ outcome' = "returned"
                ELSE step' = step /\ outcome' = outcome
    <3>1. Len(frames) \in Nat \ {0}
      BY <1>0, <2>0, TopIs
    <3>2. frames' \in Seq(ComposerFrame)
      BY <1>0, <2>2, <3>1
    <3> QED BY <1>0, <2>0, <2>2, <3>2, NoneLeft DEF C!TypeOK, ComposerFrame
  <2> QED BY <1>7, <2>1, <2>2 DEF C!Return
<1>8. CASE C!Move
  <2>1. \/ generation < MaxGeneration /\ generation' = generation + 1
        \/ generation' = generation
    BY <1>8, Zenon DEF C!Move
  <2>2. generation' \in 0..MaxGeneration
    BY <1>0, <2>1 DEF C!TypeOK
  <2>3. cancelled' \in BOOLEAN
    BY <1>0, <1>8, Zenon DEF C!Move, C!TypeOK
  <2> QED BY <1>0, <1>8, <2>2, <2>3 DEF C!Move, C!TypeOK
<1>9. CASE UNCHANGED C!vars
  BY <1>0, <1>9 DEF C!vars, C!TypeOK
<1> QED BY <1>1, <1>2, <1>3, <1>4, <1>5, <1>6, <1>7, <1>8, <1>9 DEF C!Next

LEMMA CompositionTypesInit == Limits /\ MaxCalls \in Nat /\ MaxGeneration \in Nat /\ C!Init => C!TypeOK
<1> SUFFICES ASSUME Limits, MaxCalls \in Nat, MaxGeneration \in Nat, C!Init  PROVE C!TypeOK
  OBVIOUS
<1>1. frames \in Seq(ComposerFrame)
  BY DEF C!Init
<1>2. /\ budget \in [invocations : 0..MaxInvocations, evidence : 0..MaxEvidence, models : 0..1]
      /\ saved = budget /\ spent \in C!Used /\ generation \in 0..MaxGeneration /\ fence \in 0..MaxGeneration
      /\ calls \in 0..MaxCalls
  BY DEF C!Init, C!Used, Limits
<1> QED BY <1>1, <1>2, NoneLeft DEF C!Init, C!TypeOK, ComposerFrame

LEMMA CompositionKept == MCSpec => [](part = "composition" => ComposerInv)
<1> DEFINE Inv == part = "composition" => ComposerInv
<1>1. MCInit => Inv
  BY CompositionInit, CompositionTypesInit, PluginsAssumption DEF MCInit, Limits, ComposerInv
<1>2. Inv /\ [MCNext]_mcVars => Inv'
  <2> SUFFICES ASSUME Inv, [MCNext]_mcVars, part' = "composition"  PROVE ComposerInv'
    OBVIOUS
  <2>1. ComposerInv /\ [C!Next]_C!vars
    BY DEF MCNext, mcVars, compositionVars, C!vars
  <2> QED BY <2>1, CompositionStep, CompositionTypes, PluginsAssumption DEF Limits, ComposerInv
<1> QED BY <1>1, <1>2, PTL DEF MCSpec

\* For any limits, requests and results, and whatever invokers write to the budget, raise
\* or delegate to: between their calls the budget of MetaExpertComposer says what was
\* spent, that is within its limits, and every path repeats no request and is no deeper
\* than it may be.
THEOREM CompositionsKeepBounds == MCSpec => []CompositionBounded
<1>1. (part = "composition" => ComposerInv) => CompositionBounded
  BY DEF ComposerInv, CInv, CompositionTyped, C!Used, Accounted, OnPath, Sound, CompositionBounded, C!CompositionBounded, C!BudgetIsSpent,
         C!PathsProgress
<1> QED BY <1>1, CompositionKept, PTL

-----------------------------------------------------------------------------
(* Language experts: what a call has validated.                            *)

Pins == L!Invoke = L!Pinned

LanguageSteps == {"lock", "host", "validate", "copy", "attest", "return"}

\* How far the call is: the steps it still has to take.
TodoLeft == Len(todo)

\* A result comes from the host, is the call's own after the first copy, gets the
\* provenance, and is accepted as it will be returned.
LanguageProgress ==
    /\ shared => IF Pins THEN TodoLeft \in 6..8 ELSE TodoLeft \in 3..4
    /\ TodoLeft \in 1..(IF Pins THEN 8 ELSE 4) => result \in L!Results
    /\ TodoLeft \in (IF Pins THEN 4 ELSE 1)..(IF Pins THEN 8 ELSE 4) => result.evidence # "attested"
    /\ TodoLeft \in 1..3 /\ Pins => (result.evidence = "attested" <=> result.verdict = "succeeded")
    /\ TodoLeft = 1 => L!Accepts(result)

LInv ==
    /\ L!TypeOK /\ todo \in Seq(LanguageSteps)
    /\ LanguageProgress
    /\ L!ReturnedProven

LEMMA InvokeCases ==
    /\ L!Invoke = L!Pinned \/ L!Invoke = L!Plain
    /\ Len(L!Pinned) = 10 /\ Len(L!Plain) = 5 /\ L!Pinned # L!Plain
    /\ L!Pinned \in Seq(LanguageSteps) /\ L!Plain \in Seq(LanguageSteps)
<1>1. L!Invoke = L!Pinned \/ L!Invoke = L!Plain
  BY DEF L!Invoke, L!BashInvoke, L!NixInvoke, L!JavaInvoke, L!JavascriptInvoke, L!KotlinInvoke, L!TypescriptInvoke,
         L!PythonInvoke, L!NimInvoke, L!PrologInvoke
<1>2. Len(L!Pinned) = 10 /\ Len(L!Plain) = 5
  BY DEF L!Pinned, L!Plain
<1>3. L!Pinned \in Seq(LanguageSteps) /\ L!Plain \in Seq(LanguageSteps)
  BY DEF L!Pinned, L!Plain, LanguageSteps
<1>4. L!Pinned # L!Plain
  BY <1>2
<1> QED BY <1>1, <1>2, <1>3, <1>4

LEMMA NothingLeft == <<>> \in Seq(LanguageSteps) /\ Len(<<>>) = 0 /\ DOMAIN <<>> = {}
  OBVIOUS

LEMMA PinnedSteps ==
    /\ L!Pinned[1] = "lock" /\ L!Pinned[2] = "host" /\ L!Pinned[3] = "lock" /\ L!Pinned[4] = "validate" /\ L!Pinned[5] = "copy"
    /\ L!Pinned[6] = "validate" /\ L!Pinned[7] = "attest" /\ L!Pinned[8] = "copy" /\ L!Pinned[9] = "validate"
    /\ L!Pinned[10] = "return"
    /\ L!Plain[1] = "host" /\ L!Plain[2] = "validate" /\ L!Plain[3] = "copy" /\ L!Plain[4] = "validate" /\ L!Plain[5] = "return"
  BY DEF L!Pinned, L!Plain

\* What every adapter accepts is sound, and of a cancelled call silent.
LEMMA AcceptedIsSound ==
    \A r : L!Accepts(r) => L!Sound(r) /\ (r.verdict = "cancelled" => L!Silent(r))
<1> SUFFICES ASSUME NEW r, L!Accepts(r)  PROVE L!Sound(r) /\ (r.verdict = "cancelled" => L!Silent(r))
  OBVIOUS
<1> QED BY DEF L!Accepts, L!BashAccepts, L!NixAccepts, L!JavaAccepts, L!JavascriptAccepts, L!KotlinAccepts, L!TypescriptAccepts,
               L!PythonAccepts, L!NimAccepts, L!PrologAccepts

\* The step a call is at says how many it has left.
LEMMA LanguageLeft ==
    ASSUME LInv, NEW s \in LanguageSteps, L!At(s)
    PROVE  /\ TodoLeft \in 1..10 /\ (~Pins => TodoLeft \in 1..5)
           /\ s = "lock" => Pins /\ TodoLeft \in {8, 10}
           /\ s = "host" => TodoLeft = IF Pins THEN 9 ELSE 5
           /\ s = "validate" => TodoLeft \in IF Pins THEN {2, 5, 7} ELSE {2, 4}
           /\ s = "copy" => TodoLeft \in IF Pins THEN {3, 6} ELSE {3}
           /\ s = "attest" => Pins /\ TodoLeft = 4
           /\ s = "return" => TodoLeft = 1
<1>1. todo \in Seq(LanguageSteps) /\ todo # <<>> /\ todo[1] = s
  BY DEF LInv, L!At
<1>2. TodoLeft \in Nat \ {0} /\ 1 \in DOMAIN todo
  BY <1>1 DEF TodoLeft
<1>3. TodoLeft <= Len(L!Invoke) /\ todo[1] = L!Invoke[1 + Len(L!Invoke) - TodoLeft]
  BY <1>2 DEF LInv, L!TypeOK, TodoLeft
<1>4. CASE Pins
  <2>1. Len(L!Invoke) = 10 /\ TodoLeft \in 1..10 /\ s = L!Pinned[11 - TodoLeft]
    BY <1>1, <1>2, <1>3, <1>4, InvokeCases DEF Pins
  <2> QED BY <2>1, <1>4, PinnedSteps
<1>5. CASE ~Pins
  <2>0. L!Invoke = L!Plain /\ Len(L!Plain) = 5
    BY <1>5, InvokeCases DEF Pins
  <2>1. Len(L!Invoke) = 5 /\ TodoLeft \in 1..5 /\ s = L!Plain[6 - TodoLeft]
    BY <1>1, <1>2, <1>3, <2>0
  <2> QED BY <2>1, <1>5, PinnedSteps
<1> QED BY <1>4, <1>5

LEMMA StepTaken ==
    ASSUME LInv, todo # <<>>, todo' = Tail(todo), UNCHANGED family
    PROVE  /\ todo' \in Seq(LanguageSteps) /\ TodoLeft' = TodoLeft - 1 /\ TodoLeft \in Nat \ {0}
           /\ Len(todo') <= Len(L!Invoke') /\ \A i \in DOMAIN todo' : todo'[i] = L!Invoke'[i + Len(L!Invoke') - Len(todo')]
<1>1. todo \in Seq(LanguageSteps) /\ L!Invoke' = L!Invoke /\ Len(L!Invoke) \in {5, 10}
  BY InvokeCases DEF LInv, L!Invoke
<1>2. todo' \in Seq(LanguageSteps) /\ Len(todo') = Len(todo) - 1 /\ Len(todo) \in Nat \ {0}
  BY <1>1
<1>3. \A i \in DOMAIN todo' : i + 1 \in DOMAIN todo /\ todo'[i] = todo[i + 1]
  BY <1>1, <1>2
<1>4. Len(todo) <= Len(L!Invoke) /\ \A i \in DOMAIN todo : todo[i] = L!Invoke[i + Len(L!Invoke) - Len(todo)]
  BY DEF LInv, L!TypeOK
<1>5. ASSUME NEW i \in DOMAIN todo'  PROVE todo'[i] = L!Invoke[i + Len(L!Invoke) - Len(todo')]
  <2>1. i \in Nat /\ (i + 1) + Len(L!Invoke) - Len(todo) = i + Len(L!Invoke) - Len(todo')
    BY <1>1, <1>2
  <2> QED BY <2>1, <1>3, <1>4
<1> QED BY <1>1, <1>2, <1>4, <1>5 DEF TodoLeft

LEMMA LanguageInit == L!Init => LInv
<1> SUFFICES ASSUME L!Init  PROVE LInv
  OBVIOUS
<1>1. TodoLeft = 0 /\ Len(L!Invoke) \in Nat
  BY InvokeCases DEF L!Init, TodoLeft
<1>2. L!TypeOK
  <2>1. Len(todo) <= Len(L!Invoke) /\ \A i \in DOMAIN todo : todo[i] = L!Invoke[i + Len(L!Invoke) - Len(todo)]
    BY <1>1, NothingLeft DEF L!Init
  <2>2. /\ family \in L!Families /\ bound \in BOOLEAN /\ lock \in L!Locks /\ shared \in BOOLEAN
        /\ result \in L!Results \cup {None} /\ text \in L!Results \cup {None} /\ changes \in 0..MaxChanges
    <3>1. family \in L!Families /\ lock \in L!Locks /\ result = None /\ text = None /\ changes = 0
      BY DEF L!Init
    <3>2. bound \in BOOLEAN /\ shared \in BOOLEAN
      BY DEF L!Init
    <3>3. changes \in 0..MaxChanges
      BY <3>1, PluginsAssumption
    <3> QED BY <3>1, <3>2, <3>3
  <2> QED BY <2>1, <2>2 DEF L!TypeOK
<1>3. LanguageProgress
  BY <1>1 DEF L!Init, LanguageProgress
<1> QED BY <1>2, <1>3, NothingLeft DEF L!Init, LInv, L!ReturnedProven

\* The call ends without a result.
LEMMA LanguageRefused ==
    ASSUME LInv, L!Refuse  PROVE LInv'
<1>1. TodoLeft' = 0 /\ todo' = <<>> /\ L!Invoke' = L!Invoke /\ Len(L!Invoke) \in Nat
  BY InvokeCases DEF L!Refuse, TodoLeft, L!Invoke
<1>2. L!TypeOK'
  <2>1. Len(todo') <= Len(L!Invoke') /\ \A i \in DOMAIN todo' : todo'[i] = L!Invoke'[i + Len(L!Invoke') - Len(todo')]
    BY <1>1, NothingLeft
  <2> QED BY <2>1 DEF L!Refuse, L!TypeOK, LInv
<1>3. L!ReturnedProven'
  BY <1>1 DEF L!Refuse, L!ReturnedProven, LInv
<1> QED BY <1>1, <1>2, <1>3 DEF L!Refuse, LInv, LanguageProgress

LEMMA LanguageStep == LInv /\ [L!Next]_L!vars => LInv'
<1> SUFFICES ASSUME LInv, [L!Next]_L!vars  PROVE LInv'
  OBVIOUS
<1>0. /\ family \in L!Families /\ bound \in BOOLEAN /\ lock \in L!Locks /\ shared \in BOOLEAN
      /\ result \in L!Results \cup {None} /\ text \in L!Results \cup {None} /\ changes \in 0..MaxChanges
      /\ todo \in Seq(LanguageSteps) /\ TodoLeft \in Nat
  BY DEF LInv, L!TypeOK, TodoLeft
<1>f. UNCHANGED family => L!Invoke' = L!Invoke /\ Pins' = Pins /\ \A r : L!Accepts(r)' = L!Accepts(r)
  BY DEF L!Invoke, Pins, L!Accepts
<1>1. CASE L!Bind
  <2>1. UNCHANGED <<family, lock, todo, result, shared, changes, text>> /\ bound' \in BOOLEAN
    BY <1>1, <1>0 DEF L!Bind
  <2>2. L!TypeOK' /\ TodoLeft' = TodoLeft
    BY <2>1, <1>f DEF LInv, L!TypeOK, TodoLeft
  <2> QED BY <2>1, <2>2, <1>f DEF LInv, LanguageProgress, L!ReturnedProven
<1>2. CASE L!Call
  <2>1. /\ todo' = L!Invoke /\ text' = None /\ result' = None /\ shared' = FALSE /\ changes' = 0
        /\ UNCHANGED <<family, bound, lock>>
    BY <1>2 DEF L!Call
  <2>2. TodoLeft' = (IF Pins THEN 10 ELSE 5) /\ todo' \in Seq(LanguageSteps)
    BY <2>1, InvokeCases DEF TodoLeft, Pins
  <2>3. L!TypeOK'
    <3>1. todo' = L!Invoke' /\ Len(L!Invoke') \in Nat /\ DOMAIN L!Invoke' = 1..Len(L!Invoke')
      BY <2>1, <1>f, InvokeCases
    <3>2. \A i \in DOMAIN todo' : todo'[i] = L!Invoke'[i + Len(L!Invoke') - Len(todo')]
      BY <3>1
    <3>3. changes' \in 0..MaxChanges /\ Len(todo') <= Len(L!Invoke')
      BY <2>1, <3>1, PluginsAssumption
    <3> QED BY <3>2, <3>3, <2>1, <1>0 DEF L!TypeOK
  <2>4. LanguageProgress'
    BY <2>1, <2>2, <1>f DEF LanguageProgress
  <2> QED BY <2>1, <2>2, <2>3, <2>4 DEF LInv, L!ReturnedProven
<1>3. CASE L!Lock
  <2>1. L!At("lock") /\ TodoLeft \in {8, 10} /\ Pins
    BY <1>3, LanguageLeft DEF L!Lock, LanguageSteps
  <2>2. CASE L!Refuse
    BY <2>2, LanguageRefused
  <2>3. CASE L!Proceed /\ UNCHANGED <<result, shared, changes, text>>
    <3>1. todo' = Tail(todo) /\ todo # <<>> /\ UNCHANGED <<family, bound, lock, result, shared, changes, text>>
      BY <2>1, <2>3 DEF L!Proceed, L!At
    <3>2. /\ todo' \in Seq(LanguageSteps) /\ TodoLeft' = TodoLeft - 1
          /\ Len(todo') <= Len(L!Invoke') /\ \A i \in DOMAIN todo' : todo'[i] = L!Invoke'[i + Len(L!Invoke') - Len(todo')]
      BY <3>1, StepTaken
    <3>3. L!TypeOK'
      BY <3>1, <3>2, <1>0 DEF L!TypeOK
    <3>4. (TodoLeft = 8 /\ TodoLeft' = 7) \/ (TodoLeft = 10 /\ TodoLeft' = 9)
      BY <2>1, <3>2
    <3>a. LanguageProgress /\ Pins /\ Pins'
      BY <2>1, <3>1, <1>f DEF LInv
    <3>5. LanguageProgress'
      BY <3>a, <3>1, <3>4 DEF LanguageProgress
    <3> QED BY <3>1, <3>2, <3>3, <3>5, <1>f DEF LInv, L!ReturnedProven
  <2> QED BY <1>3, <2>2, <2>3 DEF L!Lock
<1>4. CASE L!Host
  <2>1. L!At("host") /\ TodoLeft = IF Pins THEN 9 ELSE 5
    BY <1>4, LanguageLeft DEF L!Host, LanguageSteps
  <2>2. CASE L!Refuse
    BY <2>2, LanguageRefused
  <2>3. CASE ~L!Refuse
    <3>1. /\ todo' = Tail(todo) /\ todo # <<>> /\ lock' \in L!Locks /\ result' \in L!Results /\ result'.evidence # "attested"
          /\ shared' = TRUE /\ UNCHANGED <<family, bound, changes, text>>
      BY <1>4, <2>1, <2>3 DEF L!Host, L!At
    <3>2. /\ todo' \in Seq(LanguageSteps) /\ TodoLeft' = TodoLeft - 1
          /\ Len(todo') <= Len(L!Invoke') /\ \A i \in DOMAIN todo' : todo'[i] = L!Invoke'[i + Len(L!Invoke') - Len(todo')]
      BY <3>1, StepTaken
    <3>3. L!TypeOK'
      BY <3>1, <3>2, <1>0 DEF L!TypeOK
    <3>4. TodoLeft' = IF Pins THEN 8 ELSE 4
      BY <2>1, <3>2
    <3>5. LanguageProgress'
      BY <3>1, <3>4, <1>f DEF LanguageProgress
    <3> QED BY <3>1, <3>2, <3>3, <3>5, <1>f DEF LInv, L!ReturnedProven
  <2> QED BY <2>2, <2>3
<1>5. CASE L!Change
  <2>1. /\ shared /\ changes < MaxChanges /\ changes' = changes + 1
        /\ result' \in L!Results /\ result'.evidence # "attested"
        /\ UNCHANGED <<family, bound, lock, todo, shared, text>>
    BY <1>5 DEF L!Change
  <2>2. changes' \in 0..MaxChanges /\ TodoLeft' = TodoLeft
    BY <2>1, <1>0, PluginsAssumption DEF TodoLeft
  <2>3. L!TypeOK'
    BY <2>1, <2>2, <1>0, <1>f DEF L!TypeOK, LInv
  <2>4. IF Pins THEN TodoLeft \in 6..8 ELSE TodoLeft \in 3..4
    BY <2>1 DEF LInv, LanguageProgress
  <2>5. LanguageProgress'
    BY <2>1, <2>2, <2>4, <1>f DEF LanguageProgress
  <2> QED BY <2>1, <2>3, <2>5, <1>0, <1>f DEF LInv, L!ReturnedProven
<1>6. CASE L!Validate
  <2>1. L!At("validate") /\ TodoLeft \in IF Pins THEN {2, 5, 7} ELSE {2, 4}
    BY <1>6, LanguageLeft DEF L!Validate, LanguageSteps
  <2>2. CASE L!Refuse
    BY <2>2, LanguageRefused
  <2>3. CASE ~L!Refuse
    <3>1. todo' = Tail(todo) /\ todo # <<>> /\ UNCHANGED <<family, bound, lock, result, shared, changes, text>> /\ L!Accepts(result)
      BY <1>6, <2>1, <2>3 DEF L!Proceed, L!At, L!Validate
    <3>2. /\ todo' \in Seq(LanguageSteps) /\ TodoLeft' = TodoLeft - 1
          /\ Len(todo') <= Len(L!Invoke') /\ \A i \in DOMAIN todo' : todo'[i] = L!Invoke'[i + Len(L!Invoke') - Len(todo')]
      BY <3>1, StepTaken
    <3>3. L!TypeOK'
      BY <3>1, <3>2, <1>0 DEF L!TypeOK
    <3>4. TodoLeft' \in IF Pins THEN {1, 4, 6} ELSE {1, 3}
      BY <2>1, <3>2
    <3>5. LanguageProgress'
      BY <2>1, <3>1, <3>2, <3>4, <1>f DEF LanguageProgress, LInv
    <3> QED BY <3>1, <3>2, <3>3, <3>5, <1>f DEF LInv, L!ReturnedProven
  <2> QED BY <2>2, <2>3
<1>7. CASE L!Copy
  <2>1. L!At("copy") /\ TodoLeft \in IF Pins THEN {3, 6} ELSE {3}
    BY <1>7, LanguageLeft DEF L!Copy, LanguageSteps
  <2>2. CASE L!Refuse
    BY <2>2, LanguageRefused
  <2>3. CASE ~L!Refuse
    <3>1. todo' = Tail(todo) /\ todo # <<>> /\ shared' = FALSE /\ UNCHANGED <<family, bound, lock, result, changes, text>>
      BY <1>7, <2>1, <2>3 DEF L!Proceed, L!At, L!Copy
    <3>2. /\ todo' \in Seq(LanguageSteps) /\ TodoLeft' = TodoLeft - 1
          /\ Len(todo') <= Len(L!Invoke') /\ \A i \in DOMAIN todo' : todo'[i] = L!Invoke'[i + Len(L!Invoke') - Len(todo')]
      BY <3>1, StepTaken
    <3>3. L!TypeOK'
      BY <3>1, <3>2, <1>0 DEF L!TypeOK
    <3>4. TodoLeft' \in IF Pins THEN {2, 5} ELSE {2}
      BY <2>1, <3>2
    <3>5. LanguageProgress'
      BY <2>1, <3>1, <3>2, <3>4, <1>f DEF LanguageProgress, LInv
    <3> QED BY <3>1, <3>2, <3>3, <3>5, <1>f DEF LInv, L!ReturnedProven
  <2> QED BY <2>2, <2>3
<1>8. CASE L!Attest
  <2>1. L!At("attest") /\ TodoLeft = 4 /\ Pins
    BY <1>8, LanguageLeft DEF L!Attest, LanguageSteps
  <2>2. CASE L!Refuse
    BY <2>2, LanguageRefused
  <2>3. CASE ~L!Refuse
    <3>a. result \in L!Results /\ result.evidence # "attested" /\ ~shared
      BY <2>1 DEF LInv, LanguageProgress
    <3>1. /\ todo' = Tail(todo) /\ todo # <<>> /\ UNCHANGED <<family, bound, lock, shared, changes, text>>
          /\ IF result.verdict # "succeeded" THEN result' = result
             ELSE result' = [result EXCEPT !.evidence = "attested"]
      BY <1>8, <2>1, <2>3 DEF L!Proceed, L!At, L!Attest
    <3>2. /\ todo' \in Seq(LanguageSteps) /\ TodoLeft' = TodoLeft - 1
          /\ Len(todo') <= Len(L!Invoke') /\ \A i \in DOMAIN todo' : todo'[i] = L!Invoke'[i + Len(L!Invoke') - Len(todo')]
      BY <3>1, StepTaken
    <3>b. result' \in L!Results /\ (result'.evidence = "attested" <=> result'.verdict = "succeeded")
      BY <3>a, <3>1 DEF L!Results
    <3>3. L!TypeOK'
      BY <3>1, <3>2, <3>b, <1>0 DEF L!TypeOK
    <3>4. TodoLeft' = 3
      BY <2>1, <3>2
    <3>5. LanguageProgress'
      BY <2>1, <3>1, <3>a, <3>b, <3>4, <1>f DEF LanguageProgress
    <3> QED BY <3>1, <3>2, <3>3, <3>5, <1>f DEF LInv, L!ReturnedProven
  <2> QED BY <2>2, <2>3
<1>9. CASE L!Return
  <2>1. L!At("return") /\ TodoLeft = 1
    BY <1>9, LanguageLeft DEF L!Return, LanguageSteps
  <2>2. /\ text' = result /\ result' = None /\ todo' = <<>> /\ UNCHANGED <<family, bound, lock, shared, changes>>
    BY <1>9 DEF L!Return
  <2>3. /\ result \in L!Results /\ L!Accepts(result) /\ ~shared
        /\ result.evidence = "attested" <=> (result.verdict = "succeeded" /\ L!Invoke = L!Pinned)
    BY <2>1 DEF LInv, LanguageProgress, Pins
  <2>4. L!TypeOK' /\ TodoLeft' = 0
    BY <2>2, <2>3, <1>0, <1>f, InvokeCases DEF L!TypeOK, TodoLeft
  <2>5. L!ReturnedProven'
    BY <2>2, <2>3, <1>f, AcceptedIsSound DEF L!ReturnedProven
  <2>6. LanguageProgress'
    BY <2>2, <2>3, <2>4 DEF LanguageProgress
  <2> QED BY <2>2, <2>4, <2>5, <2>6 DEF LInv
<1>10. CASE UNCHANGED L!vars
  <2>1. UNCHANGED <<family, bound, lock, todo, result, shared, changes, text>>
    BY <1>10 DEF L!vars
  <2>2. L!TypeOK' /\ TodoLeft' = TodoLeft
    BY <2>1, <1>f DEF LInv, L!TypeOK, TodoLeft
  <2> QED BY <2>1, <2>2, <1>f DEF LInv, LanguageProgress, L!ReturnedProven
<1> QED BY <1>1, <1>2, <1>3, <1>4, <1>5, <1>6, <1>7, <1>8, <1>9, <1>10 DEF L!Next

LEMMA LanguageKept == MCSpec => [](part = "language" => LInv)
<1> DEFINE Inv == part = "language" => LInv
<1>1. MCInit => Inv
  BY LanguageInit DEF MCInit
<1>2. Inv /\ [MCNext]_mcVars => Inv'
  <2> SUFFICES ASSUME Inv, [MCNext]_mcVars, part' = "language"  PROVE LInv'
    OBVIOUS
  <2>1. LInv /\ [L!Next]_L!vars
    BY DEF MCNext, mcVars, languageVars, L!vars
  <2> QED BY <2>1, LanguageStep
<1> QED BY <1>1, <1>2, PTL DEF MCSpec

\* For any number of changes: whatever a producer makes of its reply while the expert reads
\* it, and whichever of the nine language experts it is, what is returned is what was
\* validated.
THEOREM ReturnedIsProven == MCSpec => []ReturnedProven
<1>1. (part = "language" => LInv) => ReturnedProven
  BY DEF LInv, ReturnedProven
<1> QED BY <1>1, LanguageKept, PTL

-----------------------------------------------------------------------------
(* Repairs: what an outcome says, and what it rests on.                    *)

RepairSteps == {"idle", "admit", "activate", "dispatch", "fence", "validate", "contract", "snapshot", "returned"}
Checked == {"contract", "snapshot", "returned"}

\* What a handler says: a success is a preview, or rests on a receipt.
Rests(c, o) ==
    o.verdict = "succeeded" /\ c.operation # "repair.preview"
        => o.receipt = R!Bound /\ o.evidence = "receipt" /\ R!HasPostcondition(c.expert)

\* A common-lisp repair that succeeded has the reference of a receipt.
Referred(c, o) ==
    c.expert = "common-lisp" /\ o.verdict = "succeeded" /\ c.operation # "repair.preview" => o.evidence = "receipt"

RepairDirect ==
    call.route = "direct" =>
        /\ answer.disguised = {}
        /\ R!IsLisp(call.expert) /\ call.operation = "repair.apply" => stage \in {"idle", "admit"}

\* What a Lisp dialect has checked stays so unless its producer interferes.
RepairValid ==
    R!IsLisp(call.expert) /\ stage \in Checked =>
        /\ R!Plain(answer) /\ R!EffectsPlain(answer)
        /\ call.operation = "repair.apply" /\ answer.verdict = "succeeded" =>
               answer.effects = 1 /\ answer.evidence # "none" /\ (~raced => R!AppliedInCore(answer))

RepairContracted ==
    R!IsLisp(call.expert) /\ stage \in {"snapshot", "returned"} =>
        /\ Referred(call, answer)
        /\ ~raced => R!Contracted(answer)

RepairDetached ==
    R!IsLisp(call.expert) /\ stage = "returned" => ~aliased /\ R!NestedPlain(answer)

RInv ==
    /\ R!TypeOK
    /\ stage \in {"idle", "admit", "activate", "dispatch"} => answer = R!Nothing
    /\ honest => Rests(call, answer)
    /\ RepairDirect /\ RepairValid /\ RepairContracted /\ RepairDetached

LEMMA ReceiptsTyped == R!Bound \in R!Receipts /\ R!NoReceipt \in R!Receipts /\ {R!NoReceipt} \subseteq R!Receipts /\ R!NoReceipt # R!Bound
  BY DEF R!Receipts, R!Bound, R!NoReceipt

LEMMA SaidFields ==
    ASSUME NEW v \in {"succeeded", "blocked", "failed", "cancelled", "unknown"}, NEW r \in R!Receipts,
           NEW e \in {"none", "canonical", "receipt", "foreign"}, NEW d \in {"none", "result", "undeclared"}
    PROVE  /\ R!Said(v, r, e, d) \in R!Fields /\ R!Said(v, r, e, d).disguised = {}
           /\ R!Said(v, r, e, d).verdict = v /\ R!Said(v, r, e, d).receipt = r /\ R!Said(v, r, e, d).evidence = e
  BY DEF R!Said, R!Fields

LEMMA NothingSaid ==
    /\ R!Nothing \in R!Fields /\ R!Nothing.disguised = {} /\ R!Nothing.verdict = "unknown"
    /\ R!Plain(R!Nothing) /\ R!EffectsPlain(R!Nothing) /\ R!NestedPlain(R!Nothing)
    /\ \A c : Rests(c, R!Nothing)
<1>1. /\ R!Nothing \in R!Fields /\ R!Nothing.disguised = {} /\ R!Nothing.verdict = "unknown"
  BY SaidFields, ReceiptsTyped DEF R!Nothing
<1> QED BY <1>1 DEF R!Plain, R!EvidencePlain, R!UsagePlain, R!VerdictPlain, R!DataEvidencePlain, R!EffectsPlain, R!NestedPlain, Rests

LEMMA PromotedSays ==
    ASSUME NEW e \in R!Experts, NEW receipts \in SUBSET R!Receipts, NEW o \in R!Promoted(e, receipts)
    PROVE  /\ o \in R!Fields /\ o.disguised = {}
           /\ o.receipt = R!Bound /\ o.evidence = "receipt" /\ R!HasPostcondition(e)
<1>0. R!HasPostcondition(e)
  BY DEF R!Promoted
<1>1. PICK r \in receipts : r = R!Bound /\ o = R!Said("succeeded", r, "receipt", "result")
  BY <1>0 DEF R!Promoted, R!Proves
<1> QED BY <1>0, <1>1, SaidFields, ReceiptsTyped

LEMMA SymbolicSays ==
    ASSUME NEW v \in {"succeeded", "blocked", "failed", "unknown"}, NEW d \in {"none", "result"}
    PROVE  R!Symbolic(v, d) \in R!Fields /\ R!Symbolic(v, d).disguised = {} /\ R!Symbolic(v, d).verdict = v
  BY SaidFields, ReceiptsTyped DEF R!Symbolic

\* Whatever a handler says is of its type, plain, and rests on a receipt.
LEMMA HandledSays ==
    ASSUME NEW c \in R!Calls, NEW receipts \in SUBSET R!Receipts, NEW o \in R!Handled(c.expert, c.operation, receipts)
    PROVE  o \in R!Fields /\ o.disguised = {} /\ Rests(c, o)
<1>0. c.expert \in R!Experts /\ c.operation \in {"repair.preview", "repair.verify", "repair.apply"}
  BY DEF R!Calls
<1>1. CASE o \in R!Promoted(c.expert, receipts)
  BY <1>0, <1>1, PromotedSays DEF Rests
<1>2. CASE o = R!Untouched
  <2>1. o \in R!Fields /\ o.disguised = {} /\ o.verdict = "blocked"
    BY <1>2, SaidFields, ReceiptsTyped DEF R!Untouched
  <2> QED BY <2>1 DEF Rests
<1>3. CASE \E v \in {"succeeded", "blocked", "failed", "unknown"}, d \in {"none", "result"} :
               o = R!Symbolic(v, d) /\ (v = "succeeded" => c.operation = "repair.preview")
  BY <1>3, SymbolicSays DEF Rests
<1>4. CASE R!IsLisp(c.expert)
  <2>1. o \in R!LispHandles(c.expert, c.operation, receipts)
    BY <1>4 DEF R!Handled
  <2> QED BY <2>1, <1>0, <1>1, <1>2, <1>3 DEF R!LispHandles
<1>5. CASE ~R!IsLisp(c.expert)
  <2>1. o \in R!LanguageHandles(c.expert, c.operation, receipts)
    BY <1>5 DEF R!Handled
  <2> DEFINE kept == IF c.expert = "python" THEN "none" ELSE "result"
  <2>2. \/ o = R!Untouched \/ o \in R!Promoted(c.expert, receipts)
        \/ o \in {R!Symbolic("failed", kept), R!Symbolic("blocked", kept)}
        \/ o = R!Symbolic("succeeded", "result") /\ c.operation = "repair.preview"
    BY <2>1, <1>0 DEF R!LanguageHandles
  <2>3. kept \in {"none", "result"}
    OBVIOUS
  <2> QED BY <2>2, <2>3, <1>1, <1>2, <1>3
<1> QED BY <1>4, <1>5

LEMMA OutcomesTyped == R!Outcomes \subseteq R!Fields
<1>1. R!Orderly \subseteq R!Fields
  <2> SUFFICES ASSUME NEW o \in R!Orderly  PROVE o \in R!Fields
    OBVIOUS
  <2>1. CASE \E v \in {"succeeded", "failed", "blocked"} : o = R!Said(v, R!NoReceipt, "canonical", "result")
    BY <2>1, SaidFields, ReceiptsTyped
  <2>2. CASE o = R!Said("succeeded", R!Bound, "receipt", "result") \/ o = R!Said("cancelled", R!NoReceipt, "none", "none")
    BY <2>2, SaidFields, ReceiptsTyped
  <2>3. CASE o = [R!Said("succeeded", R!Bound, "receipt", "result") EXCEPT !.effects = 1, !.canonical = TRUE, !.observed = TRUE]
    <3>1. o = [verdict |-> "succeeded", models |-> FALSE, effects |-> 1, canonical |-> TRUE, observed |-> TRUE,
               receipt |-> R!Bound, evidence |-> "receipt", data |-> "result", disguised |-> {}]
      BY <2>3 DEF R!Said
    <3> QED BY <3>1, ReceiptsTyped DEF R!Fields
  <2> QED BY <2>1, <2>2, <2>3 DEF R!Orderly
<1> SUFFICES ASSUME NEW p \in R!Outcomes  PROVE p \in R!Fields
  OBVIOUS
<1>2. ASSUME NEW o \in R!Orderly
      PROVE  /\ [o EXCEPT !.models = TRUE] \in R!Fields /\ [o EXCEPT !.canonical = FALSE] \in R!Fields
             /\ [o EXCEPT !.observed = FALSE] \in R!Fields
             /\ \A n \in 0..2 : [o EXCEPT !.effects = n] \in R!Fields
             /\ \A r \in R!Receipts : [o EXCEPT !.receipt = r] \in R!Fields
             /\ \A e \in {"none", "canonical", "receipt", "foreign"} : [o EXCEPT !.evidence = e] \in R!Fields
             /\ \A d \in {"none", "result", "undeclared"} : [o EXCEPT !.data = d] \in R!Fields
             /\ \A w \in R!Wire : [o EXCEPT !.disguised = {w}] \in R!Fields
  BY <1>1 DEF R!Fields
<1>3. CASE \E o \in R!Orderly : p \in {o, [o EXCEPT !.models = TRUE], [o EXCEPT !.canonical = FALSE], [o EXCEPT !.observed = FALSE]}
  BY <1>1, <1>2, <1>3
<1>4. CASE \E o \in R!Orderly, n \in 0..2 : p = [o EXCEPT !.effects = n]
  BY <1>2, <1>4
<1>5. CASE \E o \in R!Orderly, r \in R!Receipts : p = [o EXCEPT !.receipt = r]
  BY <1>2, <1>5
<1>6. CASE \E o \in R!Orderly, e \in {"none", "canonical", "receipt", "foreign"} : p = [o EXCEPT !.evidence = e]
  BY <1>2, <1>6
<1>7. CASE \E o \in R!Orderly, d \in {"none", "result", "undeclared"} : p = [o EXCEPT !.data = d]
  BY <1>2, <1>7
<1>8. CASE \E o \in R!Orderly, w \in R!Wire : p = [o EXCEPT !.disguised = {w}]
  BY <1>2, <1>8
<1> QED BY <1>3, <1>4, <1>5, <1>6, <1>7, <1>8 DEF R!Outcomes

LEMMA RepairInit == R!Init => RInv
  BY NothingSaid DEF R!Init, RInv, R!TypeOK, RepairDirect, RepairValid, RepairContracted, RepairDetached, Checked

\* The call ends, or a new one starts, with nothing said.
LEMMA RepairCleared ==
    ASSUME answer' = R!Nothing, aliased' = FALSE, honest' = TRUE, raced' = FALSE, call' \in R!Calls, current' \in BOOLEAN,
           stage' \in {"idle", "admit"}
    PROVE  RInv'
  BY NothingSaid DEF RInv, R!TypeOK, RepairDirect, RepairValid, RepairContracted, RepairDetached, Checked

LEMMA RepairRefused ==
    ASSUME RInv, R!Refuse  PROVE RInv'
<1>1. /\ answer' = R!Nothing /\ aliased' = FALSE /\ honest' = TRUE /\ raced' = FALSE /\ stage' = "idle"
      /\ call' \in R!Calls /\ current' \in BOOLEAN
  BY DEF R!Refuse, R!To, RInv, R!TypeOK
<1> QED BY <1>1, RepairCleared

\* A change of what the data shows leaves alone everything that was copied.
LEMMA ReceiptChanged ==
    ASSUME NEW o \in R!Fields, NEW p,
           \/ \E r \in R!Receipts : p = [o EXCEPT !.receipt = r]
           \/ p = [o EXCEPT !.canonical = ~o.canonical] \/ p = [o EXCEPT !.observed = ~o.observed]
    PROVE  /\ p \in R!Fields /\ p.disguised = o.disguised
           /\ p.verdict = o.verdict /\ p.evidence = o.evidence /\ p.effects = o.effects
           /\ R!Plain(p) <=> R!Plain(o)
           /\ R!EffectsPlain(p) <=> R!EffectsPlain(o)
           /\ R!NestedPlain(p) <=> R!NestedPlain(o)
<1>1. p \in R!Fields /\ p.disguised = o.disguised /\ p.verdict = o.verdict /\ p.evidence = o.evidence /\ p.effects = o.effects
  BY DEF R!Fields
<1>2. /\ R!Plain(p) <=> R!Plain(o)
      /\ R!EffectsPlain(p) <=> R!EffectsPlain(o)
      /\ R!NestedPlain(p) <=> R!NestedPlain(o)
  BY <1>1 DEF R!Plain, R!EvidencePlain, R!UsagePlain, R!VerdictPlain, R!DataEvidencePlain, R!EffectsPlain, R!NestedPlain
<1> QED BY <1>1, <1>2

LEMMA RepairStep == RInv /\ [R!Next]_R!vars => RInv'
<1> SUFFICES ASSUME RInv, [R!Next]_R!vars  PROVE RInv'
  OBVIOUS
<1>0. /\ call \in R!Calls /\ current \in BOOLEAN /\ answer \in R!Fields /\ stage \in RepairSteps
      /\ honest \in BOOLEAN /\ aliased \in BOOLEAN /\ raced \in BOOLEAN
      /\ stage \in {"idle", "admit", "activate", "dispatch"} => answer = R!Nothing
      /\ honest => Rests(call, answer)
  BY DEF RInv, R!TypeOK, RepairSteps
<1>e. call.expert \in R!Experts /\ call.route \in {"direct", "core"}
      /\ call.operation \in {"repair.preview", "repair.verify", "repair.apply"}
  BY <1>0 DEF R!Calls
\* A step with the call, the outcome and who has it as before.
<1>s. ASSUME UNCHANGED <<answer, honest, aliased, raced, call>>, current' \in BOOLEAN, stage' \in RepairSteps,
             stage' \in {"idle", "admit", "activate", "dispatch"} => answer = R!Nothing,
             RepairDirect', RepairValid', RepairContracted', RepairDetached'
      PROVE  RInv'
  <2>1. R!TypeOK'
    BY <1>0, <1>s DEF R!TypeOK, RepairSteps
  <2>2. (stage' \in {"idle", "admit", "activate", "dispatch"} => answer' = R!Nothing') /\ (honest' => Rests(call', answer'))
    BY <1>0, <1>s DEF R!Nothing, R!Said, R!NoReceipt
  <2> QED BY <2>1, <2>2, <1>s DEF RInv
<1>1. ASSUME NEW c \in R!Calls, R!Start(c)  PROVE RInv'
  <2>1. /\ answer' = R!Nothing /\ aliased' = FALSE /\ honest' = TRUE /\ raced' = FALSE /\ stage' = "admit"
        /\ call' \in R!Calls /\ current' \in BOOLEAN
    BY <1>1 DEF R!Start
  <2> QED BY <2>1, RepairCleared
<1>2. CASE R!Admit \/ R!Activate
  <2>1. CASE R!Refuse
    BY <2>1, RepairRefused
  <2>2. CASE ~R!Refuse
    <3>1. /\ UNCHANGED <<answer, honest, aliased, raced, call, current>> /\ stage \in {"admit", "activate"}
          /\ stage' \in {"activate", "dispatch", "contract"}
          /\ stage = "admit" => ~(R!IsLisp(call.expert) /\ call.route = "direct" /\ call.operation = "repair.apply")
      BY <1>2, <2>2 DEF R!Admit, R!Activate, R!Same, R!To
    <3>2. answer = R!Nothing
      BY <1>0, <3>1
    <3>3. RepairDirect'
      BY <3>1, <1>e DEF RInv, RepairDirect
    <3>4. RepairValid'
      BY <3>1, <3>2, NothingSaid DEF RepairValid
    <3> QED BY <3>1, <3>2, <3>3, <3>4, <1>s, <1>0 DEF RepairContracted, RepairDetached, RepairSteps
  <2> QED BY <2>1, <2>2
<1>4. CASE R!Dispatch
  <2>1. CASE R!Refuse
    BY <2>1, RepairRefused
  <2>2. CASE ~R!Refuse
    <3>1. PICK o \in R!Fields :
             /\ R!Answers(o) /\ honest' \in BOOLEAN /\ (honest' => Rests(call, o))
             /\ call.route = "direct" => o.disguised = {}
      <4>1. ASSUME NEW o, NEW receipts \in SUBSET R!Receipts, o \in R!Handled(call.expert, call.operation, receipts)
            PROVE  o \in R!Fields /\ o.disguised = {} /\ Rests(call, o)
        BY <4>1, <1>0, HandledSays
      <4>2. (IF call.route = "direct" THEN {R!NoReceipt} ELSE R!Receipts) \in SUBSET R!Receipts
        BY ReceiptsTyped
      <4>3. CASE honest' = TRUE /\ \E o \in R!Handled(call.expert, call.operation,
                              IF call.route = "direct" THEN {R!NoReceipt} ELSE R!Receipts) : R!Answers(o)
        BY <4>1, <4>2, <4>3
      <4>4. CASE call.route = "core" /\ honest' = FALSE /\ \E o \in R!Outcomes : R!Answers(o)
        BY <4>4, OutcomesTyped
      <4> QED BY <1>4, <2>2, <4>3, <4>4 DEF R!Dispatch
    <3>2. answer' = o /\ stage' = "fence" /\ UNCHANGED <<call, current, raced>> /\ aliased' = TRUE /\ stage = "dispatch"
      BY <3>1, <1>4 DEF R!Answers, R!To, R!Dispatch
    <3>3. R!TypeOK'
      BY <3>1, <3>2, <1>0 DEF R!TypeOK
    <3>4. RepairDirect'
      BY <3>1, <3>2, <1>e DEF RInv, RepairDirect
    <3> QED BY <3>1, <3>2, <3>3, <3>4 DEF RInv, RepairValid, RepairContracted, RepairDetached, Checked
  <2> QED BY <2>1, <2>2
<1>5. CASE R!Fence
  <2>1. CASE R!Refuse
    BY <2>1, RepairRefused
  <2>2. CASE ~R!Refuse
    <3>1. UNCHANGED <<answer, honest, aliased, raced, call, current>> /\ stage = "fence" /\ stage' = "validate"
      BY <1>5, <2>2 DEF R!Fence, R!Same, R!To
    <3>3. RepairDirect'
      BY <3>1 DEF RInv, RepairDirect
    <3> QED BY <3>1, <3>3, <1>s, <1>0 DEF RepairValid, RepairContracted, RepairDetached, RepairSteps, Checked
  <2> QED BY <2>1, <2>2
<1>6. CASE R!Validate
  <2>1. CASE R!Refuse
    BY <2>1, RepairRefused
  <2>2. CASE ~R!Refuse
    <3>1. /\ UNCHANGED <<answer, honest, aliased, raced, call, current>> /\ stage = "validate" /\ R!Valid(answer)
          /\ stage' = IF R!IsLisp(call.expert) THEN "contract" ELSE "returned"
      BY <1>6, <2>2 DEF R!Validate, R!Same, R!To
    <3>3. RepairDirect'
      BY <3>1 DEF RInv, RepairDirect
    <3>4. ASSUME R!IsLisp(call.expert)
          PROVE  /\ R!Plain(answer) /\ R!EffectsPlain(answer)
                 /\ call.operation = "repair.apply" /\ answer.verdict = "succeeded" => R!AppliedInCore(answer)
      <4>1. CASE call.route = "direct"
        <5>1. R!Plain(answer)
          BY <3>1, <3>4, <4>1 DEF R!Valid, R!LispHandlerValid
        <5>2. answer.disguised = {} /\ call.operation # "repair.apply"
          BY <3>1, <3>4, <4>1 DEF RInv, RepairDirect
        <5> QED BY <5>1, <5>2 DEF R!EffectsPlain
      <4>2. CASE call.route = "core"
        BY <3>1, <3>4, <4>2 DEF R!Valid, R!LispCoreValid
      <4> QED BY <4>1, <4>2, <1>e
    <3>5. RepairValid'
      BY <3>1, <3>4 DEF RepairValid, R!AppliedInCore, R!Plain, R!EvidencePlain, R!UsagePlain, R!VerdictPlain, R!DataEvidencePlain, R!EffectsPlain
    <3>6. RepairContracted' /\ RepairDetached'
      BY <3>1 DEF RepairContracted, RepairDetached
    <3> QED BY <3>1, <3>3, <3>5, <3>6, <1>s, <1>0 DEF RepairSteps
  <2> QED BY <2>1, <2>2
<1>7. CASE R!Contract \/ R!Snapshot
  <2>1. CASE R!Refuse
    BY <2>1, RepairRefused
  <2>2. CASE ~R!Refuse
    <3>1. /\ UNCHANGED <<answer, honest, raced, call, current>> /\ stage \in Checked /\ stage # "returned"
          /\ \/ stage = "contract" /\ stage' = "snapshot" /\ aliased' = aliased /\ R!Contracted(answer)
             \/ stage = "snapshot" /\ stage' = "returned" /\ aliased' = FALSE /\ R!NestedPlain(answer)
      BY <1>7, <2>2 DEF R!Contract, R!Snapshot, R!Same, R!To, Checked
    <3>2. R!TypeOK'
      BY <3>1, <1>0 DEF R!TypeOK
    <3>3. RepairDirect' /\ RepairValid'
      BY <3>1 DEF RInv, RepairDirect, RepairValid, Checked
    <3>4. R!Contracted(answer)' <=> R!Contracted(answer)
      BY <3>1 DEF R!Contracted, R!Canonical, R!ApplyProven, R!VerifyProven, R!Delegates
    <3>7. ASSUME R!Contracted(answer)  PROVE Referred(call, answer)
      BY <3>7, <1>e DEF Referred, R!Contracted, R!ApplyProven, R!VerifyProven, R!HasPostcondition
    <3>5. RepairContracted'
      BY <3>1, <3>4, <3>7 DEF RInv, RepairContracted, Referred
    <3>6. RepairDetached'
      BY <3>1 DEF RepairDetached, R!NestedPlain
    <3> QED BY <3>1, <3>2, <3>3, <3>5, <3>6, <1>0 DEF RInv, Rests
  <2> QED BY <2>1, <2>2
<1>8. CASE R!Change
  <2>2. /\ aliased /\ stage \in {"fence", "validate", "contract", "snapshot", "returned"}
        /\ honest' = FALSE /\ UNCHANGED <<call, stage, current, aliased>>
    BY <1>8 DEF R!Change
  <2>3. raced' \in BOOLEAN /\ (stage \in {"contract", "snapshot"} => raced')
    <3>1. raced' = (raced \/ stage \in {"contract", "snapshot"})
      BY <1>8 DEF R!Change
    <3> QED BY <3>1, Zenon
  <2>4. /\ answer' \in R!Fields /\ answer'.disguised = answer.disguised
        /\ answer'.verdict = answer.verdict /\ answer'.evidence = answer.evidence /\ answer'.effects = answer.effects
        /\ R!Plain(answer') <=> R!Plain(answer)
        /\ R!EffectsPlain(answer') <=> R!EffectsPlain(answer)
    <3>1. \/ \E r \in R!Receipts : answer' = [answer EXCEPT !.receipt = r]
          \/ answer' = [answer EXCEPT !.canonical = ~answer.canonical] \/ answer' = [answer EXCEPT !.observed = ~answer.observed]
      BY <1>8 DEF R!Change
    <3> QED BY <3>1, <1>0, ReceiptChanged
  <2>5. R!IsLisp(call.expert) => stage # "returned"
    BY <2>2 DEF RInv, RepairDetached
  <2>6. R!TypeOK'
    BY <2>2, <2>3, <2>4, <1>0 DEF R!TypeOK
  <2>7. RepairDirect'
    BY <2>2, <2>4 DEF RInv, RepairDirect
  <2>8. RepairValid'
    BY <2>2, <2>3, <2>4, <2>5 DEF RInv, RepairValid, Checked
  <2>9. RepairContracted' /\ RepairDetached'
    BY <2>2, <2>3, <2>4, <2>5 DEF RInv, RepairContracted, RepairDetached, Referred
  <2> QED BY <2>2, <2>6, <2>7, <2>8, <2>9 DEF RInv
<1>9. CASE R!Fall \/ UNCHANGED R!vars
  <2>1. UNCHANGED <<call, stage, answer, honest, aliased, raced>> /\ current' \in BOOLEAN
    BY <1>9, <1>0 DEF R!Fall, R!vars
  <2>2. RepairDirect' /\ RepairValid' /\ RepairContracted' /\ RepairDetached'
    BY <2>1 DEF RInv, RepairDirect, RepairValid, RepairContracted, RepairDetached, R!Contracted, R!Canonical, R!ApplyProven,
                R!VerifyProven, R!Delegates, R!AppliedInCore, R!Plain, R!EvidencePlain, R!UsagePlain, R!VerdictPlain, R!DataEvidencePlain,
                R!EffectsPlain, R!NestedPlain
  <2> QED BY <2>1, <2>2, <1>0, <1>s
<1> QED BY <1>1, <1>2, <1>4, <1>5, <1>6, <1>7, <1>8, <1>9 DEF R!Next

LEMMA RepairProven == RInv => R!RepairsProven
<1> SUFFICES ASSUME RInv, R!Repaired
             PROVE  /\ honest => answer.receipt = R!Bound /\ answer.evidence = "receipt" /\ R!HasPostcondition(call.expert)
                    /\ call.expert = "common-lisp" => answer.evidence = "receipt"
                    /\ R!IsLisp(call.expert) => answer.disguised = {}
                    /\ R!IsLisp(call.expert) /\ call.operation = "repair.apply" => answer.effects = 1 /\ answer.evidence # "none"
                    /\ ~raced => R!ReceiptsHold
  BY DEF R!RepairsProven
<1>0. /\ stage = "returned" /\ answer.verdict = "succeeded" /\ call.operation \in {"repair.verify", "repair.apply"}
      /\ answer \in R!Fields
  BY DEF R!Repaired, RInv, R!TypeOK, R!Calls
<1>1. honest => answer.receipt = R!Bound /\ answer.evidence = "receipt" /\ R!HasPostcondition(call.expert)
  BY <1>0 DEF RInv, Rests
<1>2. call.expert = "common-lisp" => answer.evidence = "receipt"
  BY <1>0 DEF RInv, RepairContracted, Referred, R!IsLisp
<1>3. ASSUME R!IsLisp(call.expert)
      PROVE  answer.disguised = {}
             /\ (call.operation = "repair.apply" => answer.effects = 1 /\ answer.evidence # "none" /\ (~raced => R!AppliedInCore(answer)))
  <2>1. R!Plain(answer) /\ R!EffectsPlain(answer) /\ R!NestedPlain(answer)
    BY <1>0, <1>3 DEF RInv, RepairValid, RepairDetached, Checked
  <2>2. answer.disguised \subseteq R!Wire
    BY <1>0 DEF R!Fields
  <2>3. answer.disguised = {}
    BY <2>1, <2>2 DEF R!Wire, R!Plain, R!EvidencePlain, R!UsagePlain, R!VerdictPlain, R!DataEvidencePlain, R!EffectsPlain, R!NestedPlain
  <2> QED BY <2>3, <1>0, <1>3 DEF RInv, RepairValid, Checked
<1>4. ASSUME call.expert = "common-lisp", ~raced
      PROVE  {"generation", "candidate", "condition"} \subseteq answer.receipt
  <2>1. R!Contracted(answer) /\ R!HasPostcondition(call.expert)
    BY <1>0, <1>4 DEF RInv, RepairContracted, R!IsLisp, R!HasPostcondition
  <2>2. CASE call.operation = "repair.apply"
    BY <1>0, <2>1, <2>2 DEF R!Contracted, R!ApplyProven, R!Proves, R!Bound
  <2>3. CASE call.operation = "repair.verify"
    BY <1>0, <2>1, <2>3 DEF R!Contracted, R!VerifyProven
  <2> QED BY <1>0, <2>2, <2>3
<1>5. ~raced => R!ReceiptsHold
  BY <1>3, <1>4 DEF R!ReceiptsHold
<1> QED BY <1>1, <1>2, <1>3, <1>5

LEMMA RepairKept == MCSpec => [](part = "repair" => RInv)
<1> DEFINE Inv == part = "repair" => RInv
<1>1. MCInit => Inv
  BY RepairInit DEF MCInit
<1>2. Inv /\ [MCNext]_mcVars => Inv'
  <2> SUFFICES ASSUME Inv, [MCNext]_mcVars, part' = "repair"  PROVE RInv'
    OBVIOUS
  <2>1. RInv /\ [R!Next]_R!vars
    BY DEF MCNext, mcVars, repairVars, R!vars
  <2> QED BY <2>1, RepairStep
<1> QED BY <1>1, <1>2, PTL DEF MCSpec

\* However the receipts, the brain and the composer come together: a repair that the
\* composer is told is verified or applied rests on a receipt, which is of this candidate
\* and generation unless Core changed what the data shows of it between check and copy.
THEOREM RepairsAreProven == MCSpec => []RepairsProven
<1>1. (part = "repair" => RInv) => RepairsProven
  BY RepairProven DEF RepairsProven
<1> QED BY <1>1, RepairKept, PTL

-----------------------------------------------------------------------------
(* The catalog: generations only grow.                                     *)

CatalogSteps == {"generation", "match", "describe", "current", "accept", "same", "begin", "end", "return"}
Listings == [at : {"idle", "page", "current", "returned"}, expected : E!Pairs, total : 0..2, experts : E!Catalogs]
Picked == [selecting : E!Selection, selected : E!Selection, asked : Sources \cup {None}, began : E!Pairs, ended : E!Pairs]

\* The steps that are left are the last ones of a plan.
Ends(rest, plan) ==
    Len(rest) <= Len(plan) /\ \A i \in DOMAIN rest : rest[i] = plan[i + Len(plan) - Len(rest)]

StepsLeft == Len(steps)

\* A pair of generations that have been; p is not later than q.
Been(p) == p[1] \in 1..E!Generation /\ p[2] \in 0..runtime
NotLater(p, q) == p[1] <= q[1] /\ p[2] <= q[2]

\* A listing is a beginning of the catalog of its generation, all of it in the end.
Listed ==
    listing.at # "idle" =>
        /\ Been(listing.expected)
        /\ LET all == registries[listing.expected[1]].experts
           IN  /\ Len(listing.experts) <= Len(all)
               /\ \A i \in 1..Len(listing.experts) : listing.experts[i] = all[i]
               /\ listing.at # "page" => Len(listing.experts) = Len(all)

\* The expert was the match in its generation.
Matched(s) ==
    /\ Been(s.pair) /\ s.expert = registries[s.pair[1]].match /\ s.models = registries[s.pair[1]].models

Accepted == Matched(pick.selected) /\ ~pick.selected.models /\ pick.asked \in {None, pick.selected.expert}

Planned ==
    \/ steps = <<>>
    \/ Ends(steps, E!CatalogInvoke) /\ (StepsLeft <= 13 => Accepted)
    \/ Ends(steps, E!ChildInvoke) /\ (StepsLeft <= 8 => Accepted)

\* While an expert is being selected, what was seen is of the generation the selection
\* began with, or the generation has changed.
Selecting ==
    /\ StepsLeft \in {17, 16, 15, 12, 11, 10, 5, 4, 3} => Been(pick.selecting.pair)
    /\ StepsLeft \in {16, 15, 11, 10, 4, 3} /\ pick.selecting.pair[1] = E!Generation
           => pick.selecting.expert = E!Registry.match
    /\ StepsLeft \in {15, 10, 3} /\ pick.selecting.pair[1] = E!Generation => pick.selecting.models = E!Registry.models
    /\ StepsLeft \in {14, 9, 2} => Matched(pick.selecting)

\* The expert ran between its selection and the last one.
Ran ==
    /\ StepsLeft \in 1..7 => NotLater(pick.selected.pair, pick.began) /\ Been(pick.began)
    /\ StepsLeft \in 1..6 => NotLater(pick.began, pick.ended) /\ Been(pick.ended)
    /\ StepsLeft \in 1..5 => NotLater(pick.ended, pick.selecting.pair)
    /\ StepsLeft = 1 => pick.selecting = pick.selected

EInv ==
    /\ E!TypeOK /\ steps \in Seq(CatalogSteps)
    /\ Listed /\ Planned /\ Selecting /\ Ran

-----------------------------------------------------------------------------
LEMMA CatalogPlan ==
    /\ E!CatalogInvoke \in Seq(CatalogSteps) /\ Len(E!CatalogInvoke) = 18
    /\ E!CatalogInvoke[1] = "generation" /\ E!CatalogInvoke[2] = "match" /\ E!CatalogInvoke[3] = "describe" /\ E!CatalogInvoke[4] = "current"
    /\ E!CatalogInvoke[5] = "accept" /\ E!CatalogInvoke[6] = "generation" /\ E!CatalogInvoke[7] = "match" /\ E!CatalogInvoke[8] = "describe"
    /\ E!CatalogInvoke[9] = "current" /\ E!CatalogInvoke[10] = "same" /\ E!CatalogInvoke[11] = "begin" /\ E!CatalogInvoke[12] = "end"
    /\ E!CatalogInvoke[13] = "generation" /\ E!CatalogInvoke[14] = "match" /\ E!CatalogInvoke[15] = "describe" /\ E!CatalogInvoke[16] = "current"
    /\ E!CatalogInvoke[17] = "same" /\ E!CatalogInvoke[18] = "return"
  BY DEF E!CatalogInvoke, CatalogSteps

LEMMA ChildPlan ==
    /\ E!ChildInvoke \in Seq(CatalogSteps) /\ Len(E!ChildInvoke) = 13
    /\ E!ChildInvoke[1] = "generation" /\ E!ChildInvoke[2] = "match" /\ E!ChildInvoke[3] = "describe" /\ E!ChildInvoke[4] = "current"
    /\ E!ChildInvoke[5] = "accept" /\ E!ChildInvoke[6] = "begin" /\ E!ChildInvoke[7] = "end" /\ E!ChildInvoke[8] = "generation"
    /\ E!ChildInvoke[9] = "match" /\ E!ChildInvoke[10] = "describe" /\ E!ChildInvoke[11] = "current" /\ E!ChildInvoke[12] = "same"
    /\ E!ChildInvoke[13] = "return"
  BY DEF E!ChildInvoke, CatalogSteps

\* The step that comes next is known by how many are left.
LEMMA NextStep ==
    ASSUME NEW s, NEW rest \in Seq(CatalogSteps), rest # <<>>, rest[1] = s,
           Ends(rest, E!CatalogInvoke) \/ Ends(rest, E!ChildInvoke)
    PROVE  /\ Len(rest) \in 1..18
           /\ Ends(rest, E!ChildInvoke) => Len(rest) \in 1..13
           /\ s = "generation" => Len(rest) \in {18, 13, 6}
           /\ s = "match" => Len(rest) \in {17, 12, 5}
           /\ s = "describe" => Len(rest) \in {16, 11, 4}
           /\ s = "current" => Len(rest) \in {15, 10, 3}
           /\ s = "accept" => Len(rest) \in {14, 9}
           /\ s = "same" => Len(rest) \in {9, 2}
           /\ s = "begin" => Len(rest) = 8
           /\ s = "end" => Len(rest) = 7
           /\ s = "return" => Len(rest) = 1
           /\ s = "accept" /\ Ends(rest, E!CatalogInvoke) => Len(rest) = 14
           /\ s = "same" /\ Ends(rest, E!ChildInvoke) => Len(rest) = 2
<1>1. Len(rest) \in Nat \ {0} /\ 1 \in DOMAIN rest
  OBVIOUS
<1>2. ASSUME Ends(rest, E!CatalogInvoke)
      PROVE  /\ Len(rest) \in 1..18 /\ s = E!CatalogInvoke[19 - Len(rest)]
  <2>1. Len(E!CatalogInvoke) = 18
    BY CatalogPlan
  <2>2. Len(rest) <= 18 /\ s = E!CatalogInvoke[1 + 18 - Len(rest)]
    BY <1>1, <1>2, <2>1 DEF Ends
  <2>3. \A k \in Nat \ {0} : k <= 18 => k \in 1..18 /\ 1 + 18 - k = 19 - k
    OBVIOUS
  <2> QED BY <1>1, <2>2, <2>3
<1>3. ASSUME Ends(rest, E!ChildInvoke)
      PROVE  /\ Len(rest) \in 1..13 /\ s = E!ChildInvoke[14 - Len(rest)]
  <2>1. Len(E!ChildInvoke) = 13
    BY ChildPlan
  <2>2. Len(rest) <= 13 /\ s = E!ChildInvoke[1 + 13 - Len(rest)]
    BY <1>1, <1>3, <2>1 DEF Ends
  <2>3. \A k \in Nat \ {0} : k <= 13 => k \in 1..13 /\ 1 + 13 - k = 14 - k
    OBVIOUS
  <2> QED BY <1>1, <2>2, <2>3
<1>6. ASSUME NEW n \in 1..18, s = E!CatalogInvoke[19 - n]
      PROVE  /\ s = "generation" => n \in {18, 13, 6}
             /\ s = "match" => n \in {17, 12, 5}
             /\ s = "describe" => n \in {16, 11, 4}
             /\ s = "current" => n \in {15, 10, 3}
             /\ s = "accept" => n = 14
             /\ s = "same" => n \in {9, 2}
             /\ s = "begin" => n = 8
             /\ s = "end" => n = 7
             /\ s = "return" => n = 1
  <2>1. n \in {1, 2, 3, 4, 5, 6, 7, 8, 9, 10, 11, 12, 13, 14, 15, 16, 17, 18}
    OBVIOUS
  <2> QED BY CatalogPlan, <1>6, <2>1, SMTT(60)
<1>7. ASSUME NEW n \in 1..13, s = E!ChildInvoke[14 - n]
      PROVE  /\ s = "generation" => n \in {13, 6}
             /\ s = "match" => n \in {12, 5}
             /\ s = "describe" => n \in {11, 4}
             /\ s = "current" => n \in {10, 3}
             /\ s = "accept" => n = 9
             /\ s = "same" => n = 2
             /\ s = "begin" => n = 8
             /\ s = "end" => n = 7
             /\ s = "return" => n = 1
  <2>1. n \in {1, 2, 3, 4, 5, 6, 7, 8, 9, 10, 11, 12, 13}
    OBVIOUS
  <2> QED BY ChildPlan, <1>7, <2>1, SMTT(60)
<1> DEFINE n == Len(rest)
<1>4. Ends(rest, E!CatalogInvoke) =>
             /\ n \in 1..18
             /\ s = "generation" => n \in {18, 13, 6}
             /\ s = "match" => n \in {17, 12, 5}
             /\ s = "describe" => n \in {16, 11, 4}
             /\ s = "current" => n \in {15, 10, 3}
             /\ s = "accept" => n = 14
             /\ s = "same" => n \in {9, 2}
             /\ s = "begin" => n = 8
             /\ s = "end" => n = 7
             /\ s = "return" => n = 1
  BY <1>2, <1>6
<1>5. Ends(rest, E!ChildInvoke) =>
             /\ n \in 1..13
             /\ s = "generation" => n \in {13, 6}
             /\ s = "match" => n \in {12, 5}
             /\ s = "describe" => n \in {11, 4}
             /\ s = "current" => n \in {10, 3}
             /\ s = "accept" => n = 9
             /\ s = "same" => n = 2
             /\ s = "begin" => n = 8
             /\ s = "end" => n = 7
             /\ s = "return" => n = 1
  BY <1>3, <1>7
<1> HIDE DEF n
<1>8. CASE Ends(rest, E!CatalogInvoke)
  BY <1>4, <1>5, <1>8 DEF n
<1>9. CASE Ends(rest, E!ChildInvoke)
  BY <1>4, <1>5, <1>9 DEF n
<1> QED BY <1>8, <1>9

LEMMA TailEnds ==
    ASSUME NEW rest \in Seq(CatalogSteps), rest # <<>>, NEW plan \in Seq(CatalogSteps), Ends(rest, plan)
    PROVE  Tail(rest) \in Seq(CatalogSteps) /\ Len(Tail(rest)) = Len(rest) - 1 /\ Ends(Tail(rest), plan)
<1>1. Tail(rest) \in Seq(CatalogSteps) /\ Len(Tail(rest)) = Len(rest) - 1 /\ Len(rest) \in Nat \ {0} /\ Len(plan) \in Nat
  OBVIOUS
<1>2. \A i \in DOMAIN Tail(rest) : i \in Nat /\ i + 1 \in DOMAIN rest /\ Tail(rest)[i] = rest[i + 1]
  BY <1>1
<1>3. ASSUME NEW i \in DOMAIN Tail(rest)  PROVE Tail(rest)[i] = plan[i + Len(plan) - Len(Tail(rest))]
  <2>1. (i + 1) + Len(plan) - Len(rest) = i + Len(plan) - Len(Tail(rest))
    BY <1>1, <1>2
  <2> QED BY <2>1, <1>2 DEF Ends
<1> QED BY <1>1, <1>3 DEF Ends

LEMMA CatalogsAre ==
    \A s : s \in E!Catalogs <=> s \in Seq(Sources) /\ Len(s) \in 0..2 /\ \A i, j \in 1..Len(s) : s[i] = s[j] => i = j
<1> SUFFICES ASSUME NEW s
             PROVE  s \in E!Catalogs <=> s \in Seq(Sources) /\ Len(s) \in 0..2 /\ \A i, j \in 1..Len(s) : s[i] = s[j] => i = j
  OBVIOUS
<1>1. ASSUME s \in E!Catalogs  PROVE s \in Seq(Sources) /\ Len(s) \in 0..2 /\ \A i, j \in 1..Len(s) : s[i] = s[j] => i = j
  <2>1. PICK n \in 0..2 : s \in [1..n -> Sources]
    BY <1>1 DEF E!Catalogs
  <2>2. s \in Seq(Sources) /\ Len(s) = n
    BY <2>1
  <2> QED BY <2>2, <1>1 DEF E!Catalogs
<1>2. ASSUME s \in Seq(Sources), Len(s) \in 0..2, \A i, j \in 1..Len(s) : s[i] = s[j] => i = j  PROVE s \in E!Catalogs
  <2>1. s \in [1..Len(s) -> Sources] /\ DOMAIN s = 1..Len(s)
    BY <1>2
  <2> QED BY <2>1, <1>2 DEF E!Catalogs
<1> QED BY <1>1, <1>2

LEMMA CatalogTypes ==
    /\ E!Never \in E!Pairs /\ E!NoSelection \in E!Selection /\ E!NoPick \in Picked /\ E!NoListing \in Listings
    /\ E!NoListing.at = "idle"
<1>1. E!Never \in E!Pairs
  BY PluginsAssumption DEF E!Never, E!Pairs
<1>2. E!NoSelection \in E!Selection
  BY <1>1 DEF E!NoSelection, E!Selection
<1>3. <<>> \in E!Catalogs
  <2> DEFINE e == <<>>
  <2>1. e \in Seq(Sources) /\ Len(e) = 0
    OBVIOUS
  <2> HIDE DEF e
  <2>2. e \in Seq(Sources) /\ Len(e) \in 0..2 /\ \A i, j \in 1..Len(e) : e[i] = e[j] => i = j
    BY <2>1
  <2>3. e \in E!Catalogs
    BY <2>2, CatalogsAre
  <2> QED BY <2>3 DEF e
<1> QED BY <1>1, <1>2, <1>3 DEF E!NoPick, E!NoListing, Picked, Listings

LEMMA RegistriesAre ==
    \A r \in E!Registries : r.experts \in E!Catalogs /\ r.match \in Sources \cup {None} /\ r.models \in BOOLEAN
  BY DEF E!Registries

\* The registries and the runtime only grow.
Grown ==
    /\ registries' \in Seq(E!Registries) /\ E!Generation' \in 1..MaxRegistrations /\ E!Generation <= E!Generation'
    /\ \A i \in 1..E!Generation : registries'[i] = registries[i]
    /\ runtime' \in 0..MaxChanges /\ runtime <= runtime'

LEMMA WorldTypes ==
    ASSUME E!TypeOK
    PROVE  /\ registries \in Seq(E!Registries) /\ E!Generation \in 1..MaxRegistrations /\ E!Generation \in Nat
           /\ runtime \in 0..MaxChanges /\ runtime \in Nat /\ E!Registry \in E!Registries /\ E!Now \in E!Pairs
           /\ Been(E!Now) /\ E!Now[1] = E!Generation /\ E!Now[2] = runtime
           /\ pick \in Picked /\ listing \in Listings
<1>1. /\ registries \in Seq(E!Registries) /\ E!Generation \in 1..MaxRegistrations /\ E!Generation \in Nat
      /\ runtime \in 0..MaxChanges /\ runtime \in Nat /\ pick \in Picked /\ listing \in Listings
  BY PluginsAssumption DEF E!TypeOK, Picked, Listings
<1>2. E!Registry \in E!Registries
  BY <1>1 DEF E!Registry, E!Generation
<1>3. E!Now \in E!Pairs /\ E!Now[1] = E!Generation /\ E!Now[2] = runtime
  BY <1>1, PluginsAssumption DEF E!Now, E!Pairs
<1> QED BY <1>1, <1>2, <1>3, PluginsAssumption DEF Been

LEMMA SameWorld ==
    ASSUME E!TypeOK, UNCHANGED <<registries, runtime>>
    PROVE  Grown /\ E!Generation' = E!Generation /\ E!Registry' = E!Registry /\ E!Now' = E!Now
  BY WorldTypes DEF Grown, E!Generation, E!Registry, E!Now

LEMMA BeenStays ==
    ASSUME E!TypeOK, Grown, NEW p
    PROVE  Been(p) => Been(p)'
  BY WorldTypes, PluginsAssumption DEF Grown, Been

LEMMA MatchedStays ==
    ASSUME E!TypeOK, Grown, NEW s
    PROVE  Matched(s) => Matched(s)'
  BY BeenStays, WorldTypes DEF Matched, Been, Grown

\* What is registered later is not of a generation that has been.
LEMMA SelectionStays ==
    ASSUME E!TypeOK, Grown, NEW s, Been(s.pair), s.pair[1] = E!Generation'
    PROVE  s.pair[1] = E!Generation /\ E!Registry' = E!Registry
<1>1. s.pair[1] = E!Generation /\ E!Generation' = E!Generation
  BY WorldTypes DEF Been, Grown
<1>2. registries'[E!Generation] = registries[E!Generation]
  BY WorldTypes DEF Grown
<1> QED BY <1>1, <1>2 DEF E!Registry

LEMMA CatalogInit == E!Init => EInv
<1> SUFFICES ASSUME E!Init  PROVE EInv
  OBVIOUS
<1>1. PICK r \in E!Registries : registries = <<r>>
  BY DEF E!Init
<1>2. registries \in Seq(E!Registries) /\ E!Generation = 1
  BY <1>1 DEF E!Generation
<1>3. steps = <<>> /\ StepsLeft = 0 /\ steps \in Seq(CatalogSteps)
  BY DEF E!Init, StepsLeft
<1>4. E!TypeOK
  BY <1>2, <1>3, CatalogTypes, PluginsAssumption DEF E!Init, E!TypeOK, Listings, Picked, StepsLeft
<1> QED BY <1>3, <1>4, CatalogTypes DEF E!Init, EInv, Listed, Planned, Selecting, Ran

\* The world grows, and neither the listing nor the selection moves.
LEMMA WorldMoves ==
    ASSUME EInv, Grown, UNCHANGED <<listing, steps, pick>>, down' \in SUBSET Sources
    PROVE  EInv'
<1>1. E!TypeOK'
  BY DEF EInv, E!TypeOK, Grown
<1>2. Listed'
  <2> SUFFICES ASSUME listing.at # "idle"
               PROVE  /\ Been(listing.expected)'
                      /\ registries'[listing.expected[1]] = registries[listing.expected[1]]
    BY DEF EInv, Listed
  <2>1. Been(listing.expected)
    BY DEF EInv, Listed
  <2> QED BY <2>1, BeenStays DEF EInv, Grown, Been
<1>3. StepsLeft' = StepsLeft /\ E!TypeOK
  BY DEF StepsLeft, EInv
<1>4. Accepted => Accepted'
  BY <1>3, MatchedStays DEF Accepted
<1>5. Planned'
  BY <1>3, <1>4 DEF EInv, Planned, StepsLeft
<1>6. Selecting'
  BY <1>3, MatchedStays, BeenStays, SelectionStays DEF EInv, Selecting
<1>7. Ran'
  BY <1>3, BeenStays DEF EInv, Ran, NotLater
<1> QED BY <1>1, <1>2, <1>5, <1>6, <1>7 DEF EInv

\* A listing moves, and nothing else.
LEMMA ListingMoves ==
    ASSUME EInv, E!Lists(listing'), listing' \in Listings, Listed'
    PROVE  EInv'
<1>1. UNCHANGED <<registries, runtime, down, steps, pick>> /\ E!TypeOK
  BY DEF E!Lists, EInv
<1>2. E!TypeOK'
  BY <1>1 DEF E!TypeOK, Listings, E!Generation
<1>3. StepsLeft' = StepsLeft /\ E!Generation' = E!Generation /\ E!Registry' = E!Registry
  BY <1>1 DEF StepsLeft, E!Generation, E!Registry
<1>4. Planned' /\ Selecting' /\ Ran'
  BY <1>1, <1>3 DEF EInv, Planned, Selecting, Ran, Accepted, Matched, Been, NotLater
<1> QED BY <1>1, <1>2, <1>4 DEF EInv

\* A beginning of a sequence, and what comes next in it.
LEMMA PagesJoin ==
    ASSUME NEW all \in Seq(Sources), NEW got \in Seq(Sources), NEW last \in Len(got)..Len(all),
           \A i \in 1..Len(got) : got[i] = all[i]
    PROVE  LET page == SubSeq(all, Len(got) + 1, last)
           IN  /\ page \in Seq(Sources) /\ Len(page) = last - Len(got)
               /\ got \o page \in Seq(Sources) /\ Len(got \o page) = last
               /\ \A i \in 1..last : (got \o page)[i] = all[i]
<1> DEFINE k == Len(got)
           page == SubSeq(all, k + 1, last)
           whole == got \o page
<1>1. k \in Nat /\ Len(all) \in Nat /\ last \in Nat /\ k <= last /\ last <= Len(all)
  OBVIOUS
<1>2. page \in Seq(Sources) /\ Len(page) = last - k /\ \A i \in 1..(last - k) : page[i] = all[k + i]
  <2>1. /\ k + 1 \in Int /\ last \in Int /\ \A i \in (k + 1)..last : all[i] \in Sources
    BY <1>1
  <2>2. /\ page \in Seq(Sources) /\ Len(page) = IF k + 1 <= last THEN last - (k + 1) + 1 ELSE 0
        /\ \A i \in 1..(last - (k + 1) + 1) : page[i] = all[(k + 1) + i - 1]
    BY <2>1, SubSeqProperties
  <2> HIDE DEF page
  <2>3. last - (k + 1) + 1 = last - k /\ (~(k + 1 <= last) => last - k = 0)
    BY <1>1
  <2>4. \A i \in 1..(last - k) : (k + 1) + i - 1 = k + i
    BY <1>1
  <2> QED BY <2>2, <2>3, <2>4
<1> HIDE DEF page, k
<1>3. whole \in Seq(Sources) /\ Len(whole) = k + Len(page)
  BY <1>2, ConcatProperties DEF k
<1>4. \A i \in 1..(k + Len(page)) : whole[i] = IF i <= k THEN got[i] ELSE page[i - k]
  BY <1>2, ConcatProperties DEF k
<1> HIDE DEF whole
<1>5. k + Len(page) = last
  BY <1>1, <1>2
<1>6. ASSUME NEW i \in 1..last  PROVE whole[i] = all[i]
  <2>1. CASE i <= k
    <3>1. i \in 1..k /\ whole[i] = got[i]
      BY <1>1, <1>4, <1>5, <2>1
    <3> QED BY <3>1 DEF k
  <2>2. CASE ~(i <= k)
    <3>1. i - k \in 1..(last - k) /\ k + (i - k) = i /\ whole[i] = page[i - k]
      BY <1>1, <1>4, <1>5, <2>2
    <3> QED BY <3>1, <1>2
  <2> QED BY <2>1, <2>2
<1> QED BY <1>2, <1>3, <1>5, <1>6 DEF k, page, whole

LEMMA CatalogPage == EInv /\ E!Page => EInv'
<1> SUFFICES ASSUME EInv, E!Page  PROVE EInv'
  OBVIOUS
<1> DEFINE offset == Len(listing.experts)
           all == E!Registry.experts
           last == IF offset + PageLimit < Len(all) THEN offset + PageLimit ELSE Len(all)
           page == SubSeq(all, offset + 1, last)
           sound == /\ E!Generation = listing.expected[1]
                    /\ offset = 0 \/ listing.total = Len(all)
                    /\ page # <<>> \/ offset >= Len(all)
                    /\ E!InCatalog(page) \cap E!InCatalog(listing.experts) = {}
           more == offset + Len(page) < Len(all)
           next == [listing EXCEPT !.total = Len(all), !.experts = listing.experts \o page,
                                   !.at = IF more THEN "page" ELSE "current"]
<1>1. /\ listing.at = "page" /\ UNCHANGED <<registries, runtime, down, steps, pick>>
      /\ listing' = IF ~sound THEN E!NoListing ELSE next
  BY DEF E!Page, E!Lists
<1>2. E!TypeOK /\ Listed
  BY DEF EInv
<1>3. listing \in Listings /\ E!Registry \in E!Registries
  BY <1>2, WorldTypes
<1>4. /\ all \in Seq(Sources) /\ Len(all) \in 0..2 /\ \A i, j \in 1..Len(all) : all[i] = all[j] => i = j
      /\ listing.experts \in Seq(Sources) /\ offset \in 0..2
  BY <1>3, RegistriesAre, CatalogsAre DEF Listings
<1>5. CASE ~sound
  <2>1. listing' = E!NoListing
    BY <1>1, <1>5
  <2> QED BY <2>1, <1>1, CatalogTypes, ListingMoves DEF E!Lists, Listed
<1>6. CASE sound
  <2>0. listing' = next
    BY <1>1, <1>6
  <2>1. all = registries[listing.expected[1]].experts
    BY <1>6 DEF E!Registry
  <2>2. /\ Been(listing.expected) /\ offset <= Len(all)
        /\ \A i \in 1..offset : listing.experts[i] = all[i]
    BY <1>1, <1>2, <2>1 DEF Listed
  <2>3. last \in offset..Len(all) /\ offset \in Nat /\ Len(all) \in Nat
    BY <1>4, <2>2, PluginsAssumption
  <2> HIDE DEF last, all
  <2> DEFINE whole == listing.experts \o page
  <2>4. /\ Len(page) = last - offset
        /\ whole \in Seq(Sources) /\ Len(whole) = last /\ \A i \in 1..last : whole[i] = all[i]
    BY <1>4, <2>2, <2>3, PagesJoin, ZenonT(30)
  <2>5. whole \in Seq(Sources) /\ Len(whole) = last /\ \A i \in 1..last : whole[i] = all[i]
    BY <2>4
  <2> HIDE DEF whole, page, offset, sound
  <2>6. whole \in E!Catalogs
    <3>1. Len(whole) \in 0..2
      BY <1>4, <2>3, <2>5
    <3>2. \A i, j \in 1..Len(whole) : whole[i] = whole[j] => i = j
      <4>1. \A i \in 1..last : i \in 1..Len(all) /\ whole[i] = all[i]
        BY <2>3, <2>5
      <4> QED BY <4>1, <1>4, <2>5
    <3> QED BY <3>1, <3>2, <2>5, CatalogsAre
  <2>7. more <=> last < Len(all)
    BY <2>3, <2>4
  <2>8. /\ next \in Listings /\ next.experts = whole /\ next.expected = listing.expected
        /\ next.at = IF more THEN "page" ELSE "current"
    BY <1>3, <1>4, <2>6 DEF Listings, whole
  <2> HIDE DEF next, more
  <2>9. Listed'
    <3>1. Been(listing.expected)'
      BY <1>1, <2>0, <2>2, <2>8 DEF Been, E!Generation
    <3>2. registries'[listing'.expected[1]].experts = all
      BY <1>1, <2>0, <2>1, <2>8
    <3>3. listing'.experts = whole /\ (listing'.at # "page" => Len(whole) = Len(all))
      BY <2>0, <2>3, <2>5, <2>7, <2>8
    <3> QED BY <3>1, <3>2, <3>3, <2>3, <2>5 DEF Listed
  <2> QED BY <1>1, <2>0, <2>8, <2>9, ListingMoves DEF E!Lists
<1> QED BY <1>5, <1>6

LEMMA CatalogList == EInv /\ (E!List \/ E!ListCurrent) => EInv'
<1> SUFFICES ASSUME EInv, E!List \/ E!ListCurrent  PROVE EInv'
  OBVIOUS
<1>0. E!TypeOK /\ Listed /\ listing \in Listings /\ E!Now \in E!Pairs /\ Been(E!Now) /\ E!Registry \in E!Registries
  BY WorldTypes DEF EInv
<1>1. CASE E!List
  <2> DEFINE next == [E!NoListing EXCEPT !.at = "page", !.expected = E!Now]
  <2>1. listing' = next /\ E!Lists(listing') /\ UNCHANGED <<registries, runtime>>
    BY <1>1 DEF E!List, E!Lists
  <2>2. next \in Listings /\ next.expected = E!Now /\ next.experts = <<>> /\ next.at = "page"
    BY <1>0, CatalogTypes DEF E!NoListing, Listings
  <2>3. E!Now[1] = E!Generation /\ registries[E!Now[1]].experts \in E!Catalogs
    BY <1>0, WorldTypes, RegistriesAre DEF E!Registry
  <2> HIDE DEF next
  <2>4. Listed'
    <3>1. Been(listing.expected)'
      BY <1>0, <2>1, <2>2 DEF Been, E!Generation
    <3>2. Len(next.experts) = 0 /\ Len(registries[E!Now[1]].experts) \in 0..2
      BY <2>2, <2>3, CatalogsAre
    <3> QED BY <2>1, <2>2, <3>1, <3>2 DEF Listed
  <2> QED BY <2>1, <2>2, <2>4, ListingMoves
<1>2. CASE E!ListCurrent
  <2>1. listing.at = "current" /\ E!Lists(listing') /\ UNCHANGED <<registries, runtime>>
    BY <1>2 DEF E!ListCurrent, E!Lists
  <2>2. CASE listing' = E!NoListing
    BY <2>1, <2>2, CatalogTypes, ListingMoves DEF Listed
  <2>3. CASE listing' = [listing EXCEPT !.at = "returned"]
    <3>1. listing' \in Listings /\ listing'.expected = listing.expected /\ listing'.experts = listing.experts
      BY <1>0, <2>3 DEF Listings
    <3>2. Listed'
      BY <1>0, <2>1, <3>1 DEF Listed, Been, E!Generation
    <3> QED BY <2>1, <3>1, <3>2, ListingMoves
  <2> QED BY <1>2, <2>2, <2>3 DEF E!ListCurrent, E!Lists
<1> QED BY <1>1, <1>2

LEMMA CatalogRefused == EInv /\ E!Refuse => EInv'
<1> SUFFICES ASSUME EInv, E!Refuse  PROVE EInv'
  OBVIOUS
<1>1. steps' = <<>> /\ pick' = E!NoPick /\ UNCHANGED <<registries, runtime, down, listing>>
  BY DEF E!Refuse
<1>2. StepsLeft' = 0 /\ steps' \in Seq(CatalogSteps) /\ Len(steps') <= 18
  BY <1>1 DEF StepsLeft
<1>3. E!TypeOK'
  BY <1>1, <1>2, CatalogTypes DEF EInv, E!TypeOK, Picked, E!Generation
<1>4. Listed'
  BY <1>1 DEF EInv, Listed, Been, E!Generation
<1>5. Planned' /\ Selecting' /\ Ran'
  BY <1>1, <1>2 DEF Planned, Selecting, Ran
<1> QED BY <1>2, <1>3, <1>4, <1>5 DEF EInv

LEMMA CatalogLeft ==
    ASSUME EInv, NEW s, E!At(s)
    PROVE  /\ steps \in Seq(CatalogSteps) /\ steps # <<>> /\ StepsLeft \in 1..18
           /\ Ends(steps, E!CatalogInvoke) \/ Ends(steps, E!ChildInvoke)
           /\ s = "generation" => StepsLeft \in {18, 13, 6}
           /\ s = "match" => StepsLeft \in {17, 12, 5}
           /\ s = "describe" => StepsLeft \in {16, 11, 4}
           /\ s = "current" => StepsLeft \in {15, 10, 3}
           /\ s = "accept" => StepsLeft \in {14, 9}
           /\ s = "same" => StepsLeft \in {9, 2}
           /\ s = "begin" => StepsLeft = 8
           /\ s = "end" => StepsLeft = 7
           /\ s = "return" => StepsLeft = 1
<1>1. steps \in Seq(CatalogSteps) /\ steps # <<>> /\ steps[1] = s
      /\ (Ends(steps, E!CatalogInvoke) \/ Ends(steps, E!ChildInvoke))
  BY DEF EInv, E!At, Planned
<1> QED BY <1>1, NextStep DEF StepsLeft

\* Where the selected expert has been accepted: always, from the eighth step before the end.
LEMMA CatalogAccepted ==
    ASSUME EInv, NEW s, E!At(s)
    PROVE  /\ StepsLeft <= 8 => Accepted
           /\ s = "same" => Accepted
<1>1. /\ steps # <<>> /\ steps \in Seq(CatalogSteps) /\ steps[1] = s
      /\ Ends(steps, E!CatalogInvoke) \/ Ends(steps, E!ChildInvoke)
      /\ \/ Ends(steps, E!CatalogInvoke) /\ (StepsLeft <= 13 => Accepted)
         \/ Ends(steps, E!ChildInvoke) /\ (StepsLeft <= 8 => Accepted)
  BY DEF EInv, E!At, Planned
<1>2. StepsLeft \in 1..18 /\ (s = "same" => StepsLeft \in {9, 2})
  BY CatalogLeft
<1>3. Ends(steps, E!ChildInvoke) /\ s = "same" => StepsLeft = 2
  BY <1>1, NextStep DEF StepsLeft
<1> QED BY <1>1, <1>2, <1>3

\* A step of an invocation is taken.
LEMMA PickMoves ==
    ASSUME EInv, NEW s, E!At(s), E!Picks(pick'), pick' \in Picked, Selecting', Ran',
           s = "accept" => Accepted', Accepted => Accepted'
    PROVE  EInv'
<1>1. steps' = Tail(steps) /\ UNCHANGED <<registries, runtime, down, listing>> /\ steps # <<>> /\ steps[1] = s
  BY DEF E!Picks, E!At
<1>2. steps \in Seq(CatalogSteps) /\ E!TypeOK /\ Planned
  BY DEF EInv
<1>3. steps' \in Seq(CatalogSteps) /\ Len(steps') = Len(steps) - 1 /\ Len(steps) \in Nat
  BY <1>1, <1>2
<1>4. E!TypeOK'
  BY <1>1, <1>2, <1>3 DEF E!TypeOK, Picked, E!Generation
<1>5. Listed'
  BY <1>1 DEF EInv, Listed, Been, E!Generation
<1>6. Planned'
  <2>1. CASE Ends(steps, E!CatalogInvoke) /\ (StepsLeft <= 13 => Accepted)
    <3>1. Ends(steps', E!CatalogInvoke)
      BY <1>1, <1>2, <2>1, TailEnds, CatalogPlan
    <3>2. Len(steps) \in 1..18 /\ (s = "generation" => Len(steps) \in {18, 13, 6}) /\ (Len(steps) = 14 => s = "accept")
      <4>1. Len(steps) \in 1..18
        BY <1>1, <1>2, <2>1, NextStep
      <4>2. Len(steps) = 14 => steps[1] = E!CatalogInvoke[5]
        BY <4>1, <1>1, <1>2, <2>1, CatalogPlan, SMTT(30) DEF Ends
      <4> QED BY <1>1, <1>2, <2>1, <4>1, <4>2, NextStep, CatalogPlan
    <3>3. StepsLeft' <= 13 => Accepted'
      BY <1>3, <2>1, <3>2 DEF StepsLeft
    <3> QED BY <3>1, <3>3 DEF Planned
  <2>2. CASE Ends(steps, E!ChildInvoke) /\ (StepsLeft <= 8 => Accepted)
    <3>1. Ends(steps', E!ChildInvoke)
      BY <1>1, <1>2, <2>2, TailEnds, ChildPlan
    <3>2. Len(steps) = 9 => s = "accept"
      <4>1. Len(steps) = 9 => steps[1] = E!ChildInvoke[5]
        BY <1>3, <1>1, <1>2, <2>2, ChildPlan DEF Ends
      <4> QED BY <4>1, <1>1, ChildPlan
    <3>3. StepsLeft' <= 8 => Accepted'
      BY <1>3, <2>2, <3>2 DEF StepsLeft
    <3> QED BY <3>1, <3>3 DEF Planned
  <2> QED BY <1>1, <1>2, <2>1, <2>2 DEF Planned
<1> QED BY <1>3, <1>4, <1>5, <1>6 DEF EInv

\* A question of the selection is asked: who runs, and since when, stays.
LEMMA SelectionAsked ==
    ASSUME EInv, NEW s \in {"generation", "match", "describe", "current"}, E!At(s),
           NEW p \in E!Selection, E!Picks([pick EXCEPT !.selecting = p]),
           s = "generation" => Been(p.pair) /\ p.pair = E!Now,
           s # "generation" => p.pair = pick.selecting.pair,
           s = "match" => p.expert = E!Registry.match,
           s = "describe" => p.expert = pick.selecting.expert /\ p.models = E!Registry.models,
           s = "current" => p = pick.selecting /\ E!Now = p.pair
    PROVE  EInv'
<1>0. /\ E!TypeOK /\ Selecting /\ Ran /\ pick \in Picked /\ UNCHANGED <<registries, runtime, down, listing>>
      /\ steps' = Tail(steps) /\ pick' = [pick EXCEPT !.selecting = p] /\ E!Now[1] = E!Generation
      /\ E!Generation \in Nat /\ runtime \in Nat /\ E!Now[2] = runtime /\ Been(E!Now)
  BY WorldTypes DEF EInv, E!Picks
<1>1. pick' \in Picked /\ pick'.selecting = p /\ pick'.selected = pick.selected /\ pick'.asked = pick.asked
      /\ pick'.began = pick.began /\ pick'.ended = pick.ended
  BY <1>0 DEF Picked
<1>2. E!Generation' = E!Generation /\ E!Registry' = E!Registry /\ Grown /\ E!Picks(pick')
  BY <1>0, <1>1, SameWorld DEF E!Picks
<1>3. StepsLeft' = StepsLeft - 1 /\ StepsLeft \in 1..18 /\ steps # <<>>
  BY <1>0, CatalogLeft DEF StepsLeft
<1>4. /\ s = "generation" => StepsLeft' \in {17, 12, 5}
      /\ s = "match" => StepsLeft' \in {16, 11, 4}
      /\ s = "describe" => StepsLeft' \in {15, 10, 3}
      /\ s = "current" => StepsLeft' \in {14, 9, 2}
  BY <1>3, CatalogLeft
<1>5. /\ s = "match" => StepsLeft \in {17, 12, 5}
      /\ s = "describe" => StepsLeft \in {16, 11, 4}
      /\ s = "current" => StepsLeft \in {15, 10, 3}
      /\ s = "generation" => StepsLeft \in {18, 13, 6}
  BY CatalogLeft
<1>6. Accepted => Accepted'
  BY <1>0, <1>1, <1>2, MatchedStays DEF Accepted
<1>7. Selecting'
  <2>1. Been(p.pair)
    BY <1>0, <1>5 DEF Selecting
  <2>2. Been(p.pair)' /\ (Matched(p) => Matched(p)')
    BY <2>1, <1>0, <1>2, BeenStays, MatchedStays
  <2>3. CASE s = "generation"
    BY <2>2, <2>3, <1>1, <1>4 DEF Selecting
  <2>4. CASE s = "match"
    BY <2>2, <2>4, <1>1, <1>2, <1>4 DEF Selecting
  <2>5. CASE s = "describe"
    <3>1. p.pair[1] = E!Generation => p.expert = E!Registry.match
      BY <1>0, <1>5, <2>5 DEF Selecting
    <3> QED BY <3>1, <2>2, <2>5, <1>1, <1>2, <1>4 DEF Selecting
  <2>6. CASE s = "current"
    <3>1. p.pair[1] = E!Generation /\ p.expert = E!Registry.match /\ p.models = E!Registry.models
      BY <1>0, <1>5, <2>6 DEF Selecting
    <3>2. Matched(p)
      BY <3>1, <2>1 DEF Matched, E!Registry
    <3> QED BY <3>2, <2>2, <2>6, <1>1, <1>4 DEF Selecting
  <2> QED BY <2>3, <2>4, <2>5, <2>6
<1>8. Ran'
  <2>1. /\ StepsLeft' \in 1..7 => NotLater(pick.selected.pair, pick.began)' /\ Been(pick.began)'
        /\ StepsLeft' \in 1..6 => NotLater(pick.began, pick.ended)' /\ Been(pick.ended)'
    <3>1. (StepsLeft' \in 1..7 => StepsLeft \in 1..7) /\ (StepsLeft' \in 1..6 => StepsLeft \in 1..6)
      BY <1>3, <1>4, <1>5
    <3>2. (Been(pick.began) => Been(pick.began)') /\ (Been(pick.ended) => Been(pick.ended)')
      BY <1>0, <1>1, <1>2 DEF Been
    <3>3. pick'.selected.pair = pick.selected.pair
      BY <1>1
    <3> QED BY <3>1, <3>2, <3>3, <1>0, <1>1 DEF Ran, NotLater
  <2>2. StepsLeft' \in 1..5 => NotLater(pick.ended, pick.selecting.pair)'
    <3>1. CASE s = "generation"
      <4>1. StepsLeft' \in 1..5 => StepsLeft \in 1..6
        BY <1>3
      <4>2. StepsLeft' \in 1..5 => Been(pick.ended)
        BY <1>0, <4>1 DEF Ran
      <4>3. Been(pick.ended) => NotLater(pick.ended, E!Now)
        BY <1>0 DEF Been, NotLater
      <4>4. p.pair = E!Now /\ pick'.selecting.pair = E!Now /\ pick'.ended = pick.ended
        BY <3>1, <1>1
      <4>5. NotLater(pick.ended, E!Now) => NotLater(pick.ended, pick.selecting.pair)'
        BY <4>4 DEF NotLater
      <4> QED BY <4>2, <4>3, <4>5
    <3>2. CASE s # "generation"
      <4>1. StepsLeft' \in 1..5 => StepsLeft \in 1..5
        BY <1>3, <1>4, <1>5, <3>2
      <4> QED BY <4>1, <1>0, <1>1, <3>2 DEF Ran, NotLater
    <3> QED BY <3>1, <3>2
  <2>3. StepsLeft' # 1
    BY <1>4
  <2> QED BY <2>1, <2>2, <2>3 DEF Ran
<1>9. s # "accept"
  OBVIOUS
<1> QED BY <1>1, <1>2, <1>6, <1>7, <1>8, <1>9, PickMoves

\* The expert that was selected is the one that is invoked.
LEMMA CatalogAccepts == EInv /\ E!Accept => EInv'
<1> SUFFICES ASSUME EInv, E!Accept  PROVE EInv'
  OBVIOUS
<1>1. CASE E!Refuse
  BY <1>1, CatalogRefused
<1>2. CASE ~E!Refuse
  <2> DEFINE p == [pick EXCEPT !.selected = pick.selecting]
  <2>1. /\ E!At("accept") /\ ~pick.selecting.models /\ pick.asked \in {None, pick.selecting.expert} /\ E!Picks(p)
        /\ UNCHANGED <<registries, runtime>> /\ pick' = p
    BY <1>2 DEF E!Accept, E!Unless, E!Picks
  <2>2. E!TypeOK /\ Selecting /\ pick \in Picked
    BY WorldTypes DEF EInv
  <2>3. /\ p \in Picked /\ p.selecting = pick.selecting /\ p.selected = pick.selecting /\ p.asked = pick.asked
        /\ p.began = pick.began /\ p.ended = pick.ended
    BY <2>2 DEF Picked
  <2> HIDE DEF p
  <2>4. StepsLeft' \in {13, 8} /\ StepsLeft \in {14, 9}
    <3>1. StepsLeft \in {14, 9} /\ steps \in Seq(CatalogSteps) /\ steps # <<>> /\ steps' = Tail(steps)
      BY <2>1, CatalogLeft DEF E!Picks
    <3>2. StepsLeft' = StepsLeft - 1
      BY <3>1 DEF StepsLeft
    <3> QED BY <3>1, <3>2
  <2>5. Matched(pick.selecting)
    BY <2>2, <2>4 DEF Selecting
  <2>6. Accepted'
    BY <2>1, <2>3, <2>5 DEF Accepted, Matched, Been, E!Generation
  <2>7. Selecting' /\ Ran'
    BY <2>4 DEF Selecting, Ran
  <2>8. E!Picks(pick') /\ pick' \in Picked
    BY <2>1, <2>3
  <2> QED BY <2>1, <2>6, <2>7, <2>8, PickMoves
<1> QED BY <1>1, <1>2

LEMMA CatalogSame == EInv /\ E!Same => EInv'
<1> SUFFICES ASSUME EInv, E!Same  PROVE EInv'
  OBVIOUS
<1>1. CASE E!Refuse
  BY <1>1, CatalogRefused
<1>2. CASE ~E!Refuse
  <2>1. E!At("same") /\ pick.selecting = pick.selected /\ E!Picks(pick) /\ pick' = pick /\ UNCHANGED <<registries, runtime>>
    BY <1>2 DEF E!Same, E!Unless, E!Picks
  <2>2. E!TypeOK /\ Ran /\ pick \in Picked
    BY WorldTypes DEF EInv
  <2>4. StepsLeft' \in {8, 1} /\ (StepsLeft' = 1 => StepsLeft = 2)
    <3>1. StepsLeft \in {9, 2} /\ steps \in Seq(CatalogSteps) /\ steps # <<>> /\ steps' = Tail(steps)
      BY <2>1, CatalogLeft DEF E!Picks
    <3>2. StepsLeft' = StepsLeft - 1
      BY <3>1 DEF StepsLeft
    <3> QED BY <3>1, <3>2
  <2>6. Accepted => Accepted'
    BY <2>1 DEF Accepted, Matched, Been, E!Generation
  <2>7. Selecting'
    BY <2>4 DEF Selecting
  <2>8. Ran'
    <3>1. StepsLeft = 2 => /\ NotLater(pick.selected.pair, pick.began) /\ Been(pick.began)
                           /\ NotLater(pick.began, pick.ended) /\ Been(pick.ended)
                           /\ NotLater(pick.ended, pick.selecting.pair)
      BY <2>2 DEF Ran
    <3>2. (Been(pick.began) => Been(pick.began)') /\ (Been(pick.ended) => Been(pick.ended)')
      BY <2>1 DEF Been, E!Generation
    <3> QED BY <3>1, <3>2, <2>1, <2>4 DEF Ran, NotLater
  <2>9. "same" # "accept" /\ E!Picks(pick') /\ pick' \in Picked
    BY <2>1, <2>2
  <2> QED BY <2>1, <2>6, <2>7, <2>8, <2>9, PickMoves
<1> QED BY <1>1, <1>2

\* What has been when the expert is asked, and when it has answered.
LEMMA CatalogRuns == EInv /\ (E!Begin \/ E!End) => EInv'
<1> SUFFICES ASSUME EInv, E!Begin \/ E!End  PROVE EInv'
  OBVIOUS
<1>0. /\ E!TypeOK /\ Ran /\ pick \in Picked /\ E!Now \in E!Pairs /\ Been(E!Now) /\ E!Now[1] = E!Generation /\ E!Now[2] = runtime
      /\ E!Generation \in Nat /\ runtime \in Nat
  BY WorldTypes DEF EInv
<1>1. CASE E!Refuse
  BY <1>1, CatalogRefused
<1>2. CASE E!Begin
  <2> DEFINE p == [pick EXCEPT !.began = E!Now]
  <2>1. E!At("begin") /\ E!Picks(p) /\ pick' = p /\ UNCHANGED <<registries, runtime>>
    BY <1>2 DEF E!Begin, E!Picks
  <2>3. /\ p \in Picked /\ p.selecting = pick.selecting /\ p.selected = pick.selected /\ p.asked = pick.asked
        /\ p.began = E!Now
    BY <1>0 DEF Picked
  <2> HIDE DEF p
  <2>4. StepsLeft' = 7 /\ StepsLeft = 8
    <3>1. StepsLeft = 8 /\ steps \in Seq(CatalogSteps) /\ steps # <<>> /\ steps' = Tail(steps)
      BY <2>1, CatalogLeft DEF E!Picks
    <3>2. StepsLeft' = StepsLeft - 1
      BY <3>1 DEF StepsLeft
    <3> QED BY <3>1, <3>2
  <2>5. Accepted /\ Been(pick.selected.pair)
    BY <2>1, <2>4, CatalogAccepted DEF Accepted, Matched
  <2>6. Accepted'
    BY <2>1, <2>3, <2>5 DEF Accepted, Matched, Been, E!Generation
  <2>7. Selecting'
    BY <2>4 DEF Selecting
  <2>8. Ran'
    <3>1. NotLater(pick.selected.pair, E!Now)
      BY <1>0, <2>5 DEF Been, NotLater
    <3>2. Been(pick.began)' /\ NotLater(pick.selected.pair, pick.began)'
      BY <3>1, <1>0, <2>1, <2>3 DEF Been, NotLater, E!Generation
    <3> QED BY <3>2, <2>4 DEF Ran
  <2>9. "begin" # "accept" /\ E!Picks(pick') /\ pick' \in Picked
    BY <2>1, <2>3
  <2> QED BY <2>1, <2>6, <2>7, <2>8, <2>9, PickMoves
<1>3. CASE E!End /\ ~E!Refuse
  <2> DEFINE p == [pick EXCEPT !.ended = E!Now]
  <2>1. E!At("end") /\ E!Picks(p) /\ pick' = p /\ UNCHANGED <<registries, runtime>>
    BY <1>3 DEF E!End, E!Picks
  <2>3. /\ p \in Picked /\ p.selecting = pick.selecting /\ p.selected = pick.selected /\ p.asked = pick.asked
        /\ p.began = pick.began /\ p.ended = E!Now
    BY <1>0 DEF Picked
  <2> HIDE DEF p
  <2>4. StepsLeft' = 6 /\ StepsLeft = 7
    <3>1. StepsLeft = 7 /\ steps \in Seq(CatalogSteps) /\ steps # <<>> /\ steps' = Tail(steps)
      BY <2>1, CatalogLeft DEF E!Picks
    <3>2. StepsLeft' = StepsLeft - 1
      BY <3>1 DEF StepsLeft
    <3> QED BY <3>1, <3>2
  <2>5. Accepted /\ NotLater(pick.selected.pair, pick.began) /\ Been(pick.began)
    BY <1>0, <2>1, <2>4, CatalogAccepted DEF Ran
  <2>6. Accepted'
    BY <2>1, <2>3, <2>5 DEF Accepted, Matched, Been, E!Generation
  <2>7. Selecting'
    BY <2>4 DEF Selecting
  <2>8. Ran'
    <3>1. NotLater(pick.began, E!Now)
      BY <1>0, <2>5 DEF Been, NotLater
    <3>2. /\ Been(pick.began)' /\ NotLater(pick.selected.pair, pick.began)'
          /\ Been(pick.ended)' /\ NotLater(pick.began, pick.ended)'
      BY <3>1, <1>0, <2>1, <2>3, <2>5 DEF Been, NotLater, E!Generation
    <3> QED BY <3>2, <2>4 DEF Ran
  <2>9. "end" # "accept" /\ E!Picks(pick') /\ pick' \in Picked
    BY <2>1, <2>3
  <2> QED BY <2>1, <2>6, <2>7, <2>8, <2>9, PickMoves
<1> QED BY <1>1, <1>2, <1>3

LEMMA CatalogAsks == EInv /\ (E!GetGeneration \/ E!Match \/ E!Describe \/ E!AssertCurrent) => EInv'
<1> SUFFICES ASSUME EInv, E!GetGeneration \/ E!Match \/ E!Describe \/ E!AssertCurrent  PROVE EInv'
  OBVIOUS
<1>0. /\ E!TypeOK /\ pick \in Picked /\ E!Now \in E!Pairs /\ Been(E!Now) /\ E!Registry \in E!Registries
      /\ pick.selecting \in E!Selection
  BY WorldTypes DEF EInv, Picked
<1>1. CASE E!Refuse
  BY <1>1, CatalogRefused
<1>2. CASE E!GetGeneration
  <2> DEFINE p == [E!NoSelection EXCEPT !.pair = E!Now]
  <2>1. p \in E!Selection /\ p.pair = E!Now
    BY <1>0, CatalogTypes DEF E!Selection
  <2>2. E!At("generation") /\ E!Picks([pick EXCEPT !.selecting = p])
    BY <1>2 DEF E!GetGeneration
  <2> HIDE DEF p
  <2>3. p.pair = E!Now /\ Been(p.pair)
    BY <2>1, <1>0
  <2> DEFINE s == "generation"
  <2>4. /\ s \in {"generation", "match", "describe", "current"} /\ E!At(s) /\ s # "match" /\ s # "describe" /\ s # "current"
        /\ s = "generation"
    BY <2>2
  <2> HIDE DEF s
  <2> QED BY <2>1, <2>2, <2>3, <2>4, SelectionAsked
<1>3. CASE E!Match /\ ~E!Refuse
  <2> DEFINE p == [pick.selecting EXCEPT !.expert = E!Registry.match]
             s == "match"
  <2>1. p \in E!Selection /\ p.pair = pick.selecting.pair /\ p.expert = E!Registry.match
    BY <1>0, RegistriesAre DEF E!Selection
  <2>2. E!At(s) /\ E!Picks([pick EXCEPT !.selecting.expert = E!Registry.match])
    BY <1>3 DEF E!Match, E!Unless
  <2>3. [pick EXCEPT !.selecting.expert = E!Registry.match] = [pick EXCEPT !.selecting = p]
    BY <1>0 DEF Picked
  <2>4. /\ s \in {"generation", "match", "describe", "current"} /\ s # "generation" /\ s # "describe" /\ s # "current"
    OBVIOUS
  <2> HIDE DEF s, p
  <2>5. E!Picks([pick EXCEPT !.selecting = p])
    BY <2>2, <2>3
  <2> QED BY <2>1, <2>2, <2>5, <2>4, SelectionAsked
<1>4. CASE E!Describe /\ ~E!Refuse
  <2> DEFINE p == [pick.selecting EXCEPT !.models = E!Registry.models]
             s == "describe"
  <2>1. p \in E!Selection /\ p.pair = pick.selecting.pair /\ p.expert = pick.selecting.expert /\ p.models = E!Registry.models
    BY <1>0, RegistriesAre DEF E!Selection
  <2>2. E!At(s) /\ E!Picks([pick EXCEPT !.selecting.models = E!Registry.models])
    BY <1>4 DEF E!Describe, E!Unless
  <2>3. [pick EXCEPT !.selecting.models = E!Registry.models] = [pick EXCEPT !.selecting = p]
    BY <1>0 DEF Picked
  <2>4. /\ s \in {"generation", "match", "describe", "current"} /\ s # "generation" /\ s # "match" /\ s # "current"
    OBVIOUS
  <2> HIDE DEF s, p
  <2>5. E!Picks([pick EXCEPT !.selecting = p])
    BY <2>2, <2>3
  <2> QED BY <2>1, <2>2, <2>5, <2>4, SelectionAsked
<1>5. CASE E!AssertCurrent /\ ~E!Refuse
  <2> DEFINE p == pick.selecting
             s == "current"
  <2>1. p \in E!Selection /\ p.pair = pick.selecting.pair
    BY <1>0
  <2>2. E!At(s) /\ E!Picks(pick) /\ E!Now = p.pair
    BY <1>5 DEF E!AssertCurrent, E!Unless
  <2>3. pick = [pick EXCEPT !.selecting = p]
    BY <1>0 DEF Picked
  <2>4. /\ s \in {"generation", "match", "describe", "current"} /\ s # "generation" /\ s # "match" /\ s # "describe"
    OBVIOUS
  <2>6. p = pick.selecting
    OBVIOUS
  <2> HIDE DEF s, p
  <2>5. E!Picks([pick EXCEPT !.selecting = p])
    BY <2>2, <2>3
  <2> QED BY <2>1, <2>2, <2>5, <2>4, <2>6, SelectionAsked
<1>6. (E!Match \/ E!Describe \/ E!AssertCurrent) /\ E!Refuse => EInv'
  BY <1>1
<1> QED BY <1>1, <1>2, <1>3, <1>4, <1>5

LEMMA CatalogStarts == EInv /\ E!Invoke => EInv'
<1> SUFFICES ASSUME EInv, E!Invoke  PROVE EInv'
  OBVIOUS
<1>1. /\ listing' = E!NoListing /\ UNCHANGED <<registries, runtime, down>> /\ E!TypeOK
      /\ \/ steps' = E!CatalogInvoke /\ pick' = E!NoPick
         \/ \E e \in Sources : steps' = E!ChildInvoke /\ pick' = [E!NoPick EXCEPT !.asked = e]
  BY DEF E!Invoke, EInv
<1>2. pick' \in Picked
  BY <1>1, CatalogTypes DEF Picked
<1>3. /\ steps' \in Seq(CatalogSteps) /\ StepsLeft' \in {18, 13}
      /\ (Ends(steps', E!CatalogInvoke) /\ StepsLeft' = 18) \/ (Ends(steps', E!ChildInvoke) /\ StepsLeft' = 13)
  <2>1. Ends(E!CatalogInvoke, E!CatalogInvoke) /\ Ends(E!ChildInvoke, E!ChildInvoke)
    <3>1. \A i \in DOMAIN E!CatalogInvoke : i + Len(E!CatalogInvoke) - Len(E!CatalogInvoke) = i
      BY CatalogPlan
    <3>2. \A i \in DOMAIN E!ChildInvoke : i + Len(E!ChildInvoke) - Len(E!ChildInvoke) = i
      BY ChildPlan
    <3>3. Len(E!CatalogInvoke) = 18 /\ Len(E!ChildInvoke) = 13
      BY CatalogPlan, ChildPlan
    <3> QED BY <3>1, <3>2, <3>3 DEF Ends
  <2>2. steps' = E!CatalogInvoke \/ steps' = E!ChildInvoke
    BY <1>1
  <2> QED BY <2>1, <2>2, CatalogPlan, ChildPlan DEF StepsLeft
<1>4. E!TypeOK'
  <2>1. listing' \in Listings
    BY <1>1, CatalogTypes
  <2>2. Len(steps') <= 18
    <3>1. StepsLeft' <= 18
      BY <1>3
    <3> QED BY <3>1 DEF StepsLeft
  <2> QED BY <2>1, <2>2, <1>1, <1>2 DEF E!TypeOK, Picked, Listings, E!Generation
<1>5. Listed'
  BY <1>1, CatalogTypes DEF Listed
<1>6. Planned'
  BY <1>3 DEF Planned
<1>7. Selecting' /\ Ran'
  BY <1>3 DEF Selecting, Ran
<1> QED BY <1>3, <1>4, <1>5, <1>6, <1>7 DEF EInv

LEMMA CatalogWorld == EInv /\ (E!Register \/ E!Restart \/ E!Available) => EInv'
<1> SUFFICES ASSUME EInv, E!Register \/ E!Restart \/ E!Available  PROVE EInv'
  OBVIOUS
<1>0. E!TypeOK /\ UNCHANGED <<listing, steps, pick>> /\ down \in SUBSET Sources
  BY DEF EInv, E!TypeOK, E!Register, E!Restart, E!Available
<1>1. CASE E!Register
  <2>1. PICK r \in E!Registries : registries' = Append(registries, r) /\ E!Generation < MaxRegistrations
    BY <1>1 DEF E!Register
  <2>2. registries \in Seq(E!Registries) /\ E!Generation \in Nat \ {0} /\ UNCHANGED <<runtime, down>>
    BY <1>0, <1>1, WorldTypes DEF E!Register
  <2>3. /\ registries' \in Seq(E!Registries) /\ E!Generation' = E!Generation + 1
        /\ \A i \in 1..E!Generation : registries'[i] = registries[i]
    BY <2>1, <2>2 DEF E!Generation
  <2>5. E!Generation' \in 1..MaxRegistrations /\ E!Generation <= E!Generation'
    BY <2>1, <2>2, <2>3, PluginsAssumption
  <2>6. runtime' \in 0..MaxChanges /\ runtime <= runtime'
    BY <2>2, <1>0, WorldTypes, PluginsAssumption
  <2>4. Grown
    BY <2>3, <2>5, <2>6 DEF Grown
  <2> QED BY <1>0, <2>2, <2>4, WorldMoves
<1>2. CASE E!Restart
  <2>1. runtime' = runtime + 1 /\ runtime < MaxChanges /\ UNCHANGED <<registries, down>>
    BY <1>2 DEF E!Restart
  <2>2. E!Generation' = E!Generation
    BY <2>1 DEF E!Generation
  <2>3. Grown
    BY <2>1, <2>2, <1>0, WorldTypes, PluginsAssumption DEF Grown
  <2> QED BY <1>0, <2>1, <2>3, WorldMoves
<1>3. CASE E!Available
  <2>1. UNCHANGED <<registries, runtime>> /\ down' \in SUBSET Sources
    <3>1. \A e \in E!InCatalog(E!Registry.experts) : e \in Sources
      <4>1. E!Registry.experts \in Seq(Sources)
        BY <1>0, WorldTypes, RegistriesAre, CatalogsAre
      <4> QED BY <4>1 DEF E!InCatalog
    <3> QED BY <3>1, <1>0, <1>3 DEF E!Available
  <2>2. Grown
    BY <2>1, <1>0, SameWorld
  <2> QED BY <1>0, <2>1, <2>2, WorldMoves
<1> QED BY <1>1, <1>2, <1>3

LEMMA CatalogStep == EInv /\ [E!Next]_E!vars => EInv'
<1> SUFFICES ASSUME EInv, [E!Next]_E!vars  PROVE EInv'
  OBVIOUS
<1>1. CASE UNCHANGED E!vars
  <2>1. /\ UNCHANGED <<registries, runtime, down, listing, steps, pick>> /\ E!TypeOK /\ down \in SUBSET Sources
    BY <1>1 DEF E!vars, EInv, E!TypeOK
  <2>2. Grown /\ down' \in SUBSET Sources
    BY <2>1, SameWorld
  <2> QED BY <2>1, <2>2, WorldMoves
<1>2. CASE E!Return
  BY <1>2, CatalogRefused DEF E!Return
<1> QED BY <1>1, <1>2, CatalogWorld, CatalogList, CatalogPage, CatalogStarts, CatalogAsks, CatalogAccepts, CatalogSame, CatalogRuns
        DEF E!Next

\* Between the two selections nothing was registered and nothing restarted: they are of
\* the same generations, and what ran between them too.
LEMMA CatalogConsistent == EInv => E!DiscoveryConsistent
<1> SUFFICES ASSUME EInv  PROVE E!DiscoveryConsistent
  OBVIOUS
<1>0. E!TypeOK /\ Listed /\ Ran /\ pick \in Picked /\ listing \in Listings
  BY WorldTypes DEF EInv
<1>1. ASSUME listing.at = "returned"  PROVE listing.experts = registries[listing.expected[1]].experts
  <2> DEFINE all == registries[listing.expected[1]].experts
  <2>1. listing.expected[1] \in 1..E!Generation /\ Len(listing.experts) = Len(all)
        /\ \A i \in 1..Len(listing.experts) : listing.experts[i] = all[i]
    BY <1>0, <1>1 DEF Listed, Been
  <2>2. all \in Seq(Sources) /\ listing.experts \in Seq(Sources)
    BY <1>0, <2>1, WorldTypes, RegistriesAre, CatalogsAre DEF Listings, E!Generation
  <2> HIDE DEF all
  <2> DEFINE got == listing.experts
             n == Len(all)
  <2>4. got \in [1..n -> Sources] /\ all \in [1..n -> Sources] /\ \A i \in 1..n : got[i] = all[i]
    BY <2>1, <2>2
  <2> HIDE DEF n, got
  <2>6. \A A, D : \A f, g \in [A -> D] : (\A i \in A : f[i] = g[i]) => f = g
    OBVIOUS
  <2> DEFINE A == 1..n
  <2>7. got \in [A -> Sources] /\ all \in [A -> Sources] /\ \A i \in A : got[i] = all[i]
    BY <2>4
  <2> HIDE DEF A
  <2>5. got = all
    BY <2>7, <2>6
  <2>3. listing.experts = all
    BY <2>5 DEF got
  <2> QED BY <2>3 DEF all
<1>2. ASSUME E!At("return")
      PROVE  /\ pick.began = pick.ended /\ pick.began = pick.selected.pair
             /\ LET r == registries[pick.began[1]]
                IN  pick.selected.expert = r.match /\ ~r.models /\ pick.asked \in {None, r.match}
  <2>1. StepsLeft = 1
    BY <1>2, CatalogLeft
  <2>2. Accepted
    BY <1>2, <2>1, CatalogAccepted
  <2>3. /\ NotLater(pick.selected.pair, pick.began) /\ NotLater(pick.began, pick.ended)
        /\ NotLater(pick.ended, pick.selected.pair)
    BY <1>0, <2>1 DEF Ran
  <2>4. pick.selected.pair \in E!Pairs /\ pick.began \in E!Pairs /\ pick.ended \in E!Pairs
    BY <1>0 DEF Picked, E!Selection
  <2>5. \A p, q, r \in E!Pairs : NotLater(p, q) /\ NotLater(q, r) /\ NotLater(r, p) => p = q /\ q = r
    BY PluginsAssumption DEF E!Pairs, NotLater
  <2>6. pick.began = pick.ended /\ pick.began = pick.selected.pair
    BY <2>3, <2>4, <2>5
  <2> QED BY <2>2, <2>6 DEF Accepted, Matched
<1> QED BY <1>1, <1>2 DEF E!DiscoveryConsistent

LEMMA CatalogKept == MCSpec => [](part = "catalog" => EInv)
<1> DEFINE Inv == part = "catalog" => EInv
<1>1. MCInit => Inv
  BY CatalogInit DEF MCInit
<1>2. Inv /\ [MCNext]_mcVars => Inv'
  <2> SUFFICES ASSUME Inv, [MCNext]_mcVars, part' = "catalog"  PROVE EInv'
    OBVIOUS
  <2>1. EInv /\ [E!Next]_E!vars
    BY DEF MCNext, mcVars, catalogVars, E!vars
  <2> QED BY <2>1, CatalogStep
<1> QED BY <1>1, <1>2, PTL DEF MCSpec

\* For any experts and page limit, and however often the registry changes and the runtime
\* restarts between two questions: a listing is the catalog of one generation, and what is
\* returned of an invocation is of an expert that was the match, without models, from before
\* it ran until after it had answered.
THEOREM DiscoveryIsConsistent == MCSpec => []DiscoveryConsistent
<1>1. (part = "catalog" => EInv) => DiscoveryConsistent
  BY CatalogConsistent DEF DiscoveryConsistent
<1> QED BY <1>1, CatalogKept, PTL

-----------------------------------------------------------------------------
(* Style: the generation of a call.                                        *)

Links == {"idle", "nix", "bash", "delegate", "inspect", "policy", "rules", "resolve", "settle", "returned"}

\* Nobody was asked before the generation of the call.
Fenced ==
    /\ workspace \in S!Generations /\ chainFence \in S!Generations /\ chainFence <= workspace
    /\ asked \subseteq chainFence..workspace
    /\ checked => asked \subseteq {chainFence}

\* Whoever comes after the first link was asked, and what was read is bound to the call.
Linked ==
    /\ link \in {"bash", "inspect", "policy", "rules", "resolve", "settle", "returned"} => asked # {}
    /\ link \in {"resolve", "settle", "returned"} => \A r \in read : S!ScopeBound(r)

SInv == S!TypeOK /\ Fenced /\ Linked /\ S!StyleOfOneGeneration

LEMMA RulesTyped ==
    ASSUME NEW id \in Sources, NEW c \in Predicates, NEW s \in S!Scopes, NEW l \in S!Languages, NEW g \in S!Generations
    PROVE  S!RuleOf(id, c, s, l, g) \in S!Rule
<1>1. S!Bound(s, l, g).language \in S!Languages \cup {"any"} /\ S!Bound(s, l, g).generation \in 0..S!Always
  BY PluginsAssumption DEF S!Bound, S!Always, S!Generations
<1> QED BY <1>1 DEF S!RuleOf, S!Rule

LEMMA BooksAreRules ==
    ASSUME NEW g \in S!Generations, NEW b \in S!Books(g)
    PROVE  b \subseteq S!Rule
<1>1. PICK l \in S!Languages, c \in [Sources -> Predicates], s \in S!Scopes : b = {S!RuleOf(id, c[id], s, l, g) : id \in Sources}
  BY DEF S!Books
<1>2. ASSUME NEW id \in Sources  PROVE S!RuleOf(id, c[id], s, l, g) \in S!Rule
  BY RulesTyped
<1> QED BY <1>1, <1>2

LEMMA StyleInit == S!Init => SInv
<1> SUFFICES ASSUME S!Init  PROVE SInv
  OBVIOUS
<1>1. book \subseteq S!Rule
  BY BooksAreRules, PluginsAssumption DEF S!Init, S!Generations
<1>2. S!TypeOK
  <2>1. 0 \in S!Generations
    BY PluginsAssumption DEF S!Generations
  <2> QED BY <1>1, <2>1 DEF S!Init, S!TypeOK, S!NoResolution
<1>3. Fenced
  BY <1>2, PluginsAssumption DEF S!Init, Fenced, S!Generations
<1> QED BY <1>2, <1>3 DEF S!Init, SInv, Linked, S!StyleOfOneGeneration

LEMMA StyleRefused == SInv /\ S!Refuse => SInv'
<1> SUFFICES ASSUME SInv, S!Refuse  PROVE SInv'
  OBVIOUS
<1>1. S!TypeOK' /\ Fenced'
  BY DEF SInv, S!Refuse, S!TypeOK, Fenced, S!World, S!NoResolution
<1> QED BY <1>1 DEF SInv, S!Refuse, Linked, S!StyleOfOneGeneration

LEMMA StyleCompose == SInv /\ S!Compose => SInv'
<1> SUFFICES ASSUME SInv, S!Compose  PROVE SInv'
  OBVIOUS
<1>1. S!TypeOK'
  BY DEF SInv, S!Compose, S!TypeOK, S!NoResolution
<1>2. Fenced'
  BY PluginsAssumption DEF SInv, S!Compose, Fenced, S!Generations
<1> QED BY <1>1, <1>2 DEF SInv, S!Compose, Linked, S!StyleOfOneGeneration

LEMMA StyleCheck == SInv /\ S!Check => SInv'
<1> SUFFICES ASSUME SInv, S!Check, ~S!Refuse  PROVE SInv'
  BY StyleRefused
<1>0. link # "returned" /\ workspace = chainFence /\ checked' = TRUE
      /\ UNCHANGED <<workspace, stopped, claims, book, chainFence, link, language, read, submitted, resolved, asked>>
  BY DEF S!Check, S!Current, S!World
<1>1. S!TypeOK'
  BY <1>0 DEF SInv, S!TypeOK
<1>2. Fenced'
  BY <1>0, PluginsAssumption DEF SInv, Fenced, S!Generations
<1> QED BY <1>0, <1>1, <1>2 DEF SInv, Linked, S!StyleOfOneGeneration, S!ScopeBound

\* A question is asked of somebody outside.
LEMMA StyleAsks ==
    ASSUME SInv, NEW s \in {"bash", "inspect", "policy", "rules", "settle"}, S!Asks(s),
           language' \in S!Languages \cup {"any"}, UNCHANGED <<read, submitted, resolved>>,
           s = "settle" => link = "resolve" /\ language' = language
    PROVE  SInv'
<1>0. /\ asked' = asked \cup {workspace} /\ link' = s /\ checked' = FALSE
      /\ UNCHANGED <<workspace, stopped, claims, book, chainFence, read, submitted, resolved>>
  BY DEF S!Asks, S!Goes, S!World
<1>1. S!TypeOK'
  BY <1>0 DEF SInv, S!TypeOK
<1>2. Fenced'
  BY <1>0, PluginsAssumption DEF SInv, Fenced, S!Generations
<1> QED BY <1>0, <1>1, <1>2 DEF SInv, Linked, S!StyleOfOneGeneration, S!ScopeBound

LEMMA StyleReads == SInv /\ S!ReadRules => SInv'
<1> SUFFICES ASSUME SInv, S!ReadRules, ~S!Refuse  PROVE SInv'
  BY StyleRefused
<1>0. /\ asked' = asked \cup {workspace} /\ link' = "resolve" /\ checked' = FALSE /\ read' = book /\ submitted' = book
      /\ \A r \in book : S!ScopeBound(r)
      /\ UNCHANGED <<workspace, stopped, claims, book, chainFence, language, resolved>>
  BY DEF S!ReadRules, S!Asks, S!Goes, S!World
<1>1. S!TypeOK'
  BY <1>0 DEF SInv, S!TypeOK
<1>2. Fenced'
  BY <1>0, PluginsAssumption DEF SInv, Fenced, S!Generations
<1>3. Linked'
  BY <1>0 DEF Linked, S!ScopeBound
<1> QED BY <1>0, <1>1, <1>2, <1>3 DEF SInv, S!StyleOfOneGeneration

LEMMA StyleSettles == SInv /\ S!Settle => SInv'
<1> SUFFICES ASSUME SInv, S!Settle, ~S!Refuse  PROVE SInv'
  BY StyleRefused
<1>0. /\ link = "settle" /\ checked /\ link' = "returned" /\ checked' = FALSE
      /\ UNCHANGED <<workspace, stopped, claims, book, chainFence, language, read, submitted, asked>>
      /\ \E e \in S!Few(submitted \cup S!Forged) :
             /\ S!EffectiveValid(e)
             /\ \E ds \in S!Few(S!Decision) : S!DecisionsValid(ds, e) /\ resolved' = [effective |-> e, decisions |-> ds]
  BY DEF S!Settle, S!Goes, S!World
<1>1. PICK e \in S!Few(submitted \cup S!Forged), ds \in S!Few(S!Decision) :
          S!EffectiveValid(e) /\ S!DecisionsValid(ds, e) /\ resolved' = [effective |-> e, decisions |-> ds]
  BY <1>0
<1>2. e \subseteq submitted /\ ds \subseteq S!Decision /\ resolved'.effective = e /\ resolved'.decisions = ds
  BY <1>1 DEF S!EffectiveValid, S!Few
<1>3. S!TypeOK'
  BY <1>0, <1>2 DEF SInv, S!TypeOK
<1>4. Fenced'
  BY <1>0 DEF SInv, Fenced
<1>5. Linked' /\ asked' = {chainFence'} /\ \A r \in read : S!ScopeBound(r) /\ S!ScopeBound(r)'
  BY <1>0 DEF SInv, Linked, Fenced, S!ScopeBound
<1>6. /\ \A r \in e : \E d \in ds : d.check = r.check
      /\ \A d \in ds :
             /\ \A f \in ds : d.check = f.check => d = f
             /\ \E r \in e : r.id = d.winner /\ r.check = d.check
             /\ \A id \in d.shadowed : \E r \in submitted : r.id = id /\ r.check = d.check
  <2>1. ASSUME NEW r \in e  PROVE \E d \in ds : d.check = r.check
    BY <1>1 DEF S!DecisionsValid
  <2> QED BY <1>1, <2>1 DEF S!DecisionsValid
<1>7. S!StyleOfOneGeneration'
  BY <1>0, <1>2, <1>5, <1>6 DEF S!StyleOfOneGeneration
<1> QED BY <1>3, <1>4, <1>5, <1>7 DEF SInv

LEMMA StyleOutside == SInv /\ (S!Move \/ S!Change \/ S!Rewrite) => SInv'
<1> SUFFICES ASSUME SInv, S!Move \/ S!Change \/ S!Rewrite  PROVE SInv'
  OBVIOUS
<1>1. CASE S!Move
  <2>4. /\ workspace \in S!Generations /\ stopped \in BOOLEAN
        /\ \/ workspace < MaxGeneration /\ workspace' = workspace + 1
           \/ workspace' = workspace
        /\ stopped' = TRUE \/ stopped' = stopped
        /\ link # "returned" /\ UNCHANGED <<chainFence, claims, book, link, language, read, submitted, resolved, asked, checked>>
    BY <1>1 DEF S!Move, SInv, S!TypeOK
  <2>5. workspace' \in S!Generations /\ workspace <= workspace'
    BY <2>4, PluginsAssumption DEF S!Generations
  <2>0. /\ workspace' \in S!Generations /\ workspace <= workspace' /\ stopped' \in BOOLEAN /\ link # "returned"
        /\ UNCHANGED <<chainFence, claims, book, link, language, read, submitted, resolved, asked, checked>>
    BY <2>4, <2>5
  <2>1. S!TypeOK'
    BY <2>0 DEF SInv, S!TypeOK
  <2>2. Fenced'
    BY <2>0, PluginsAssumption DEF SInv, Fenced, S!Generations
  <2> QED BY <2>0, <2>1, <2>2 DEF SInv, Linked, S!StyleOfOneGeneration, S!ScopeBound
<1>2. CASE S!Change
  <2>0. /\ UNCHANGED <<workspace, stopped, chainFence, link, language, read, submitted, resolved, asked, checked>> /\ link # "returned"
        /\ claims' \subseteq S!Languages
    BY <1>2 DEF S!Change, SInv, S!TypeOK
  <2>1. book' \subseteq S!Rule
    <3>1. book' = book \/ book' \in S!Books(workspace) \/ book' \in S!Books(0)
      BY <1>2 DEF S!Change
    <3>2. workspace \in S!Generations /\ 0 \in S!Generations /\ book \subseteq S!Rule
      BY PluginsAssumption DEF SInv, S!TypeOK, S!Generations
    <3> QED BY <3>1, <3>2, BooksAreRules
  <2>2. S!TypeOK'
    BY <2>0, <2>1 DEF SInv, S!TypeOK
  <2>3. Fenced'
    BY <2>0 DEF SInv, Fenced
  <2> QED BY <2>0, <2>2, <2>3 DEF SInv, Linked, S!StyleOfOneGeneration, S!ScopeBound
<1>3. CASE S!Rewrite
  <2>0. /\ UNCHANGED <<workspace, stopped, chainFence, claims, book, link, language, read, resolved, asked, checked>>
        /\ link # "returned" /\ submitted' \subseteq submitted \cup S!Rewrites
    BY <1>3 DEF S!Rewrite
  <2>1. S!Rewrites \subseteq S!Rule
    BY RulesTyped DEF S!Rewrites
  <2>2. S!TypeOK'
    BY <2>0, <2>1 DEF SInv, S!TypeOK
  <2>3. Fenced'
    BY <2>0 DEF SInv, Fenced
  <2> QED BY <2>0, <2>2, <2>3 DEF SInv, Linked, S!StyleOfOneGeneration, S!ScopeBound
<1> QED BY <1>1, <1>2, <1>3

LEMMA StyleStep == SInv /\ [S!Next]_S!vars => SInv'
<1> SUFFICES ASSUME SInv, [S!Next]_S!vars  PROVE SInv'
  OBVIOUS
<1>0. language \in S!Languages \cup {"any"}
  BY DEF SInv, S!TypeOK
<1>1. CASE UNCHANGED S!vars
  BY <1>1 DEF S!vars, SInv, S!TypeOK, Fenced, Linked, S!StyleOfOneGeneration, S!ScopeBound
<1>2. CASE S!MatchNix
  <2>1. S!Asks("bash") /\ language' \in S!Languages \cup {"any"} /\ UNCHANGED <<read, submitted, resolved>>
    BY <1>2 DEF S!MatchNix, S!Languages
  <2> QED BY <2>1, StyleAsks
<1>3. CASE S!MatchBash /\ ~S!Refuse
  <2>1. S!Asks("inspect") /\ language' \in S!Languages \cup {"any"} /\ UNCHANGED <<read, submitted, resolved>>
    BY <1>3 DEF S!MatchBash, S!Languages
  <2> QED BY <2>1, StyleAsks
<1>4. CASE S!Inspect /\ ~S!Refuse
  <2>1. S!Asks("policy") /\ language' \in S!Languages \cup {"any"} /\ UNCHANGED <<read, submitted, resolved>>
    BY <1>0, <1>4 DEF S!Inspect
  <2> QED BY <2>1, StyleAsks
<1>5. CASE S!Policy /\ ~S!Refuse
  <2>1. S!Asks("rules") /\ language' \in S!Languages \cup {"any"} /\ UNCHANGED <<read, submitted, resolved>>
    BY <1>0, <1>5 DEF S!Policy
  <2> QED BY <2>1, StyleAsks
<1>6. CASE S!Resolve /\ ~S!Refuse
  <2>1. S!Asks("settle") /\ language' \in S!Languages \cup {"any"} /\ UNCHANGED <<read, submitted, resolved>>
        /\ link = "resolve" /\ language' = language
    BY <1>0, <1>6 DEF S!Resolve
  <2> QED BY <2>1, StyleAsks
<1> QED BY <1>1, <1>2, <1>3, <1>4, <1>5, <1>6, StyleRefused, StyleCompose, StyleCheck, StyleReads, StyleSettles, StyleOutside
        DEF S!Next

-----------------------------------------------------------------------------
(* Overlays: what the fold over the applicable ones comes to.              *)

\* Induction goes by the least number that would be an exception.
LEMMA LeastNumber == ASSUME NEW N \in SUBSET Nat, N # {} PROVE \E n \in N : \A m \in N : n <= m
<1>1. IsWellFoundedOn(OpToRel(<, Nat), Nat)
  BY NatLessThanWellFounded
<1>2. \E x \in N : \A y \in N : ~ (<<y, x>> \in OpToRel(<, Nat))
  BY <1>1, WFMin
<1>3. \A x, y \in Nat : x < y => <<x, y>> \in OpToRel(<, Nat)
  BY DEF OpToRel
<1>4. \E x \in N : \A y \in N : ~ (y < x)
  BY <1>2, <1>3, Zenon
<1> QED BY <1>4

LEMMA GreatestNumber ==
    ASSUME NEW N \in SUBSET Nat, N # {}, NEW b \in Nat, \A n \in N : n <= b
    PROVE  \E n \in N : \A m \in N : m <= n
<1> DEFINE D == {b - n : n \in N}
<1>1. D \in SUBSET Nat /\ D # {}
  <2>1. \A n \in N : b - n \in Nat
    OBVIOUS
  <2> QED BY <2>1, Zenon
<1>2. PICK r \in D : \A q \in D : r <= q
  BY <1>1, LeastNumber, Zenon
<1>3. PICK n \in N : r = b - n
  BY <1>2
<1>4. ASSUME NEW m \in N PROVE m <= n
  <2>1. r <= b - m
    BY <1>2
  <2> QED BY <2>1, <1>3
<1> QED BY <1>4

Given == overlays \in Seq(O!Overlays)

\* Where an overlay stands among all, by scope and then by ordinal.
Place(i) == overlays[i].scope * (Len(overlays) + 1) + i

LEMMA ScopeIs == ASSUME Given, NEW i \in DOMAIN overlays
                 PROVE  overlays[i].scope \in 0..5 /\ i \in 1..Len(overlays) /\ Len(overlays) \in Nat
<1>1. overlays[i] \in O!Overlays /\ i \in 1..Len(overlays) /\ Len(overlays) \in Nat
  BY DEF Given
<1> QED BY <1>1 DEF O!Overlays, O!Session

LEMMA Multiples == ASSUME NEW w \in Nat, NEW s \in 0..5, NEW t \in 0..5
                   PROVE  s * w \in Nat /\ (s < t => s * w + w <= t * w) /\ s * w <= 5 * w
<1>1. /\ 0 * w = 0 /\ 1 * w = w /\ 2 * w = w + w /\ 3 * w = w + w + w /\ 4 * w = w + w + w + w
      /\ 5 * w = w + w + w + w + w
  OBVIOUS
<1>2. s \in {0, 1, 2, 3, 4, 5} /\ t \in {0, 1, 2, 3, 4, 5}
  OBVIOUS
<1> QED BY <1>1, <1>2

LEMMA PlacesOrder ==
    ASSUME Given, NEW i \in DOMAIN overlays, NEW j \in DOMAIN overlays
    PROVE  /\ Place(i) \in Nat /\ Place(i) <= 5 * (Len(overlays) + 1) + Len(overlays)
           /\ O!Before(i, j) <=> Place(i) < Place(j)
           /\ Place(i) = Place(j) => i = j
<1> DEFINE w == Len(overlays) + 1
           s == overlays[i].scope
           t == overlays[j].scope
<1>1. s \in 0..5 /\ t \in 0..5 /\ w \in Nat /\ i \in Nat /\ j \in Nat /\ i < w /\ j < w /\ i <= Len(overlays) /\ Len(overlays) \in Nat
  BY ScopeIs
<1> DEFINE a == s * w
           c == t * w
<1>2. a \in Nat /\ c \in Nat /\ (s < t => a + w <= c) /\ (t < s => c + w <= a) /\ (s = t => a = c) /\ a <= 5 * w
  BY <1>1, Multiples
<1>3. Place(i) = a + i /\ Place(j) = c + j
  BY DEF Place
<1>4. O!Before(i, j) <=> s < t \/ (s = t /\ i < j)
  BY DEF O!Before
<1> HIDE DEF w, s, t, a, c
<1>5. Place(i) \in Nat /\ Place(i) <= 5 * w + Len(overlays)
  BY <1>1, <1>2, <1>3
<1>6. s < t => (O!Before(i, j) <=> Place(i) < Place(j)) /\ (Place(i) = Place(j) => i = j)
  BY <1>1, <1>2, <1>3, <1>4
<1>7. t < s => (O!Before(i, j) <=> Place(i) < Place(j)) /\ (Place(i) = Place(j) => i = j)
  BY <1>1, <1>2, <1>3, <1>4
<1>8. s = t => (O!Before(i, j) <=> Place(i) < Place(j)) /\ (Place(i) = Place(j) => i = j)
  BY <1>1, <1>2, <1>3, <1>4
<1>9. (O!Before(i, j) <=> Place(i) < Place(j)) /\ (Place(i) = Place(j) => i = j)
  BY <1>1, <1>6, <1>7, <1>8
<1> QED BY <1>5, <1>9 DEF w

\* Some overlay of those is the uppermost.
LEMMA UppermostIs ==
    ASSUME Given, NEW these \in SUBSET DOMAIN overlays, these # {}
    PROVE  /\ O!Uppermost(these) \in these
           /\ \A j \in these \ {O!Uppermost(these)} : O!Before(j, O!Uppermost(these))
<1> DEFINE N == {Place(i) : i \in these}
           b == 5 * (Len(overlays) + 1) + Len(overlays)
<1>1. N \in SUBSET Nat /\ N # {} /\ \A n \in N : n <= b
  BY PlacesOrder
<1>2. b \in Nat
  BY DEF Given
<1>3. PICK n \in N : \A m \in N : m <= n
  BY <1>1, <1>2, GreatestNumber, Zenon
<1>4. PICK i \in these : n = Place(i)
  BY <1>3
<1>5. ASSUME NEW j \in these \ {i} PROVE O!Before(j, i)
  <2>1. Place(j) <= Place(i) /\ Place(j) # Place(i) /\ Place(j) \in Nat /\ Place(i) \in Nat
    BY <1>3, <1>4, PlacesOrder
  <2> QED BY <2>1, PlacesOrder
<1>6. \E x \in these : \A j \in these \ {x} : O!Before(j, x)
  BY <1>5, Zenon
<1> QED BY <1>6, Zenon DEF O!Uppermost

\* and only one.
LEMMA OneUppermost ==
    ASSUME Given, NEW these \in SUBSET DOMAIN overlays, NEW i \in these, \A j \in these \ {i} : O!Before(j, i)
    PROVE  O!Uppermost(these) = i
<1> DEFINE u == O!Uppermost(these)
<1>1. u \in these /\ \A j \in these \ {u} : O!Before(j, u)
  BY UppermostIs, Zenon
<1> HIDE DEF u
<1>2. CASE u # i
  <2>1. O!Before(i, u) /\ O!Before(u, i)
    BY <1>1, <1>2
  <2>2. Place(i) < Place(u) /\ Place(u) < Place(i) /\ Place(i) \in Nat /\ Place(u) \in Nat
    BY <1>1, <2>1, PlacesOrder
  <2> QED BY <2>2
<1> QED BY <1>2 DEF u

\* What comes of laying those, key by key.
Hits(these, k) == {i \in these : k \in overlays[i].keys}
Covered(these) == [k \in Predicates |-> IF Hits(these, k) = {} THEN 0 ELSE O!Uppermost(Hits(these, k))]
LaidOn(i, values) == [k \in Predicates |-> IF k \in overlays[i].keys THEN i ELSE values[k]]
Nothing == [k \in Predicates |-> 0]
Layers(f) ==
    f = [these \in SUBSET O!Applicable |->
            IF these = {} THEN Nothing ELSE LaidOn(O!Uppermost(these), f[these \ {O!Uppermost(these)}])]

LEMMA FoldOfLayers == O!Laid = (CHOOSE f : Layers(f))[O!Applicable]
  BY DEF O!Laid, O!MapThenFoldSet, Layers, LaidOn, Nothing

LEMMA OneMore ==
    ASSUME Given, NEW these \in SUBSET DOMAIN overlays, these # {}
    PROVE  Covered(these) = LaidOn(O!Uppermost(these), Covered(these \ {O!Uppermost(these)}))
<1> DEFINE u == O!Uppermost(these)
           rest == these \ {u}
<1>1. u \in these /\ \A j \in these \ {u} : O!Before(j, u)
  BY UppermostIs, Zenon
<1> HIDE DEF u
<1>2. ASSUME NEW k \in Predicates, k \in overlays[u].keys  PROVE Hits(these, k) # {} /\ O!Uppermost(Hits(these, k)) = u
  <2>1. u \in Hits(these, k) /\ Hits(these, k) \in SUBSET DOMAIN overlays /\ Hits(these, k) \subseteq these
    BY <1>1, <1>2 DEF Hits
  <2>2. \A j \in Hits(these, k) \ {u} : O!Before(j, u)
    BY <1>1, <2>1
  <2> QED BY <2>1, <2>2, OneUppermost
<1>3. ASSUME NEW k \in Predicates, k \notin overlays[u].keys  PROVE Hits(these, k) = Hits(rest, k)
  BY <1>3 DEF Hits
<1>4. ASSUME NEW k \in Predicates  PROVE Covered(these)[k] = LaidOn(u, Covered(rest))[k]
  <2>1. CASE k \in overlays[u].keys
    BY <1>2, <2>1, Zenon DEF Covered, LaidOn
  <2>2. CASE k \notin overlays[u].keys
    BY <1>3, <2>2, Zenon DEF Covered, LaidOn
  <2> QED BY <2>1, <2>2
<1>5. Covered(these) = LaidOn(u, Covered(rest))
  <2>1. DOMAIN Covered(these) = Predicates /\ Covered(these) = [k \in Predicates |-> Covered(these)[k]]
    BY Zenon DEF Covered
  <2>2. LaidOn(u, Covered(rest)) = [k \in Predicates |-> LaidOn(u, Covered(rest))[k]]
    BY Zenon DEF LaidOn
  <2> HIDE DEF rest
  <2> QED BY <1>4, <2>1, <2>2, Zenon
<1> QED BY <1>5 DEF u

LEMMA LayersAre ==
    ASSUME Given, NEW f, Layers(f), NEW these \in SUBSET O!Applicable
    PROVE  f[these] = Covered(these)
<1> DEFINE Bad == {X \in SUBSET O!Applicable : X # {} /\ f[X] # Covered(X)}
           N == {Place(O!Uppermost(X)) : X \in Bad}
<1>1. \A X \in SUBSET O!Applicable : X \in SUBSET DOMAIN overlays
  BY DEF O!Applicable
<1>2. f[{}] = Nothing /\ Covered({}) = Nothing
  <2>1. f[{}] = Nothing
    BY DEF Layers
  <2>2. \A k \in Predicates : Hits({}, k) = {}
    BY DEF Hits
  <2> QED BY <2>1, <2>2 DEF Covered, Nothing
<1>3. ASSUME Bad # {} PROVE FALSE
  <2>1. N \in SUBSET Nat /\ N # {}
    <3>1. ASSUME NEW X \in Bad PROVE Place(O!Uppermost(X)) \in Nat
      <4>1. O!Uppermost(X) \in DOMAIN overlays
        BY <1>1, UppermostIs
      <4> QED BY <4>1, PlacesOrder
    <3> QED BY <1>3, <3>1
  <2>2. PICK n \in N : \A m \in N : n <= m
    BY <2>1, LeastNumber, Zenon
  <2>3. PICK X \in Bad : n = Place(O!Uppermost(X))
    BY <2>2
  <2> DEFINE u == O!Uppermost(X)
             rest == X \ {u}
  <2>4. X \in SUBSET DOMAIN overlays /\ X \in SUBSET O!Applicable /\ X # {} /\ f[X] # Covered(X)
    BY <1>1, <2>3
  <2>5. u \in X /\ \A j \in rest : O!Before(j, u)
    BY <2>4, UppermostIs, Zenon
  <2>6. f[rest] = Covered(rest)
    <3>1. CASE rest = {}
      BY <1>2, <3>1, Zenon
    <3>2. CASE rest # {}
      <4>1. rest \in SUBSET DOMAIN overlays /\ rest \in SUBSET O!Applicable
        BY <2>4
      <4>2. O!Uppermost(rest) \in rest /\ O!Before(O!Uppermost(rest), u)
        BY <3>2, <4>1, <2>5, UppermostIs, Zenon
      <4>3. Place(O!Uppermost(rest)) < Place(u) /\ Place(u) \in Nat /\ Place(O!Uppermost(rest)) \in Nat
        <5>1. O!Uppermost(rest) \in DOMAIN overlays /\ u \in DOMAIN overlays
          BY <2>4, <2>5, <4>1, <4>2, Zenon
        <5> HIDE DEF u, rest
        <5> QED BY <4>2, <5>1, PlacesOrder
      <4>4. Place(O!Uppermost(rest)) \notin N
        <5> HIDE DEF N
        <5> QED BY <2>2, <2>3, <4>3
      <4>5. rest \notin Bad
        BY <4>4, Zenon
      <4> QED BY <3>2, <4>1, <4>5, Zenon
    <3> QED BY <3>1, <3>2
  <2>7. f[X] = LaidOn(u, f[rest])
    BY <2>4 DEF Layers
  <2> QED BY <2>4, <2>6, <2>7, OneMore, Zenon
<1>4. CASE these = {}
  BY <1>2, <1>4
<1>5. CASE these # {}
  BY <1>3, <1>5
<1> QED BY <1>4, <1>5

LEMMA LaidIs == ASSUME Given PROVE O!Laid = Covered(O!Applicable)
<1> DEFINE g == [these \in SUBSET O!Applicable |-> Covered(these)]
<1>1. Layers(g)
  <2>1. ASSUME NEW these \in SUBSET O!Applicable, these # {}
        PROVE  g[these] = LaidOn(O!Uppermost(these), g[these \ {O!Uppermost(these)}])
    <3>1. these \in SUBSET DOMAIN overlays /\ these \ {O!Uppermost(these)} \in SUBSET O!Applicable
      BY DEF O!Applicable
    <3> QED BY <2>1, <3>1, OneMore
  <2>2. g[{}] = Nothing
    <3>1. \A k \in Predicates : Hits({}, k) = {}
      BY DEF Hits
    <3> QED BY <3>1 DEF Covered, Nothing
  <2>3. \A these \in SUBSET O!Applicable :
            g[these] = IF these = {} THEN Nothing ELSE LaidOn(O!Uppermost(these), g[these \ {O!Uppermost(these)}])
    BY <2>1, <2>2, Zenon
  <2>4. g = [these \in SUBSET O!Applicable |-> g[these]]
    OBVIOUS
  <2> HIDE DEF g
  <2> QED BY <2>3, <2>4, Zenon DEF Layers
<1> HIDE DEF g
<1>2. Layers(CHOOSE f : Layers(f))
  BY <1>1, Zenon
<1>3. (CHOOSE f : Layers(f))[O!Applicable] = Covered(O!Applicable)
  BY <1>2, LayersAre, Zenon
<1> QED BY <1>3, FoldOfLayers, Zenon

\* Nothing is resolved, or it was refused for an old overlay, or laid without one.
OldOnes == {i \in DOMAIN overlays : O!Here(overlays[i]) /\ O!Old(overlays[i])}
OInv ==
    /\ Given /\ Len(overlays) <= MaxOverlays /\ moved \in BOOLEAN
    /\ \/ style = O!Open
       \/ style = O!Stale /\ OldOnes # {}
       \/ style = O!Laid /\ OldOnes = {}

LEMMA LaidValues ==
    ASSUME Given
    PROVE  /\ O!Laid \in [Predicates -> 0..Len(overlays)]
           /\ \A k \in Predicates, i \in DOMAIN overlays :
                  O!Laid[k] = i <=> O!Applies(i, k) /\ \A j \in DOMAIN overlays \ {i} : O!Applies(j, k) => O!Over(i, j)
<1> DEFINE A == O!Applicable
<1>1. O!Laid = Covered(A)
  BY LaidIs
<1>2. DOMAIN overlays = 1..Len(overlays) /\ Len(overlays) \in Nat
  BY DEF Given
<1>3. ASSUME NEW k \in Predicates
      PROVE  Hits(A, k) = {j \in DOMAIN overlays : O!Applies(j, k)} /\ Hits(A, k) \in SUBSET DOMAIN overlays
  BY DEF Hits, O!Applicable, O!Applies
<1> HIDE DEF A
<1>4. ASSUME NEW k \in Predicates PROVE Covered(A)[k] \in 0..Len(overlays)
  <2>1. CASE Hits(A, k) = {}
    BY <1>2, <2>1 DEF Covered
  <2>2. CASE Hits(A, k) # {}
    <3>1. O!Uppermost(Hits(A, k)) \in DOMAIN overlays
      BY <1>3, <2>2, UppermostIs
    <3> QED BY <1>2, <2>2, <3>1 DEF Covered
  <2> QED BY <2>1, <2>2
<1>5. ASSUME NEW k \in Predicates, NEW i \in DOMAIN overlays
      PROVE  Covered(A)[k] = i <=> O!Applies(i, k) /\ \A j \in DOMAIN overlays \ {i} : O!Applies(j, k) => O!Over(i, j)
  <2>1. \A j \in DOMAIN overlays : O!Over(i, j) <=> O!Before(j, i)
    <3>1. ASSUME NEW j \in DOMAIN overlays PROVE O!Over(i, j) <=> O!Before(j, i)
      <4>1. overlays[i].scope \in 0..5 /\ overlays[j].scope \in 0..5 /\ i \in Nat /\ j \in Nat
        BY ScopeIs
      <4> QED BY <4>1 DEF O!Over, O!Before
    <3> QED BY <3>1
  <2>2. ASSUME Covered(A)[k] = i
        PROVE  O!Applies(i, k) /\ \A j \in DOMAIN overlays \ {i} : O!Applies(j, k) => O!Over(i, j)
    <3>1. i # 0
      BY <1>2
    <3>2. Hits(A, k) # {} /\ i = O!Uppermost(Hits(A, k))
      BY <2>2, <3>1, Zenon DEF Covered
    <3>3. i \in Hits(A, k) /\ \A j \in Hits(A, k) \ {i} : O!Before(j, i)
      BY <1>3, <3>2, UppermostIs, Zenon
    <3> QED BY <1>3, <2>1, <3>3
  <2>3. ASSUME O!Applies(i, k), \A j \in DOMAIN overlays \ {i} : O!Applies(j, k) => O!Over(i, j)
        PROVE  Covered(A)[k] = i
    <3>1. i \in Hits(A, k) /\ \A j \in Hits(A, k) \ {i} : O!Before(j, i)
      BY <1>3, <2>1, <2>3
    <3>2. O!Uppermost(Hits(A, k)) = i
      BY <1>3, <3>1, OneUppermost
    <3> QED BY <3>1, <3>2, Zenon DEF Covered
  <2> QED BY <2>2, <2>3
<1>6. O!Laid \in [Predicates -> 0..Len(overlays)]
  <2>1. Covered(A) = [k \in Predicates |-> Covered(A)[k]]
    BY Zenon DEF Covered
  <2> QED BY <1>1, <1>4, <2>1
<1> QED BY <1>1, <1>5, <1>6

LEMMA OverlaysInit == O!Init => OInv
<1> SUFFICES ASSUME O!Init PROVE OInv
  OBVIOUS
<1>1. overlays = <<>> /\ moved = FALSE /\ style = O!Open
  BY DEF O!Init
<1>2. Given /\ Len(overlays) <= MaxOverlays
  BY <1>1, PluginsAssumption DEF Given
<1> QED BY <1>1, <1>2 DEF OInv

\* What is laid depends on the overlays only.
LEMMA LaidNext == (Given => O!Laid = Covered(O!Applicable))'
<1>1. Given => O!Laid = Covered(O!Applicable)
  BY LaidIs
<1> QED BY <1>1, PTL

LEMMA LaidStays == ASSUME Given, UNCHANGED overlays PROVE O!Laid' = O!Laid
<1>1. Given' /\ O!Applicable' = O!Applicable /\ (\A i, j : O!Before(i, j)' = O!Before(i, j))
  BY DEF Given, O!Applicable, O!Here, O!Bound, O!Before
<1>2. \A these : O!Uppermost(these)' = O!Uppermost(these)
  BY Zenon DEF O!Uppermost, O!Before
<1>3. \A these, k : Hits(these, k)' = Hits(these, k)
  BY DEF Hits
<1>4. Covered(O!Applicable)' = Covered(O!Applicable)
  BY <1>1, <1>2, <1>3 DEF Covered
<1> QED BY <1>1, <1>4, LaidIs, LaidNext

LEMMA OverlaysNext == OInv /\ [O!Next]_(O!vars) => OInv'
<1> SUFFICES ASSUME OInv, [O!Next]_(O!vars)  PROVE OInv'
  OBVIOUS
<1>1. CASE O!Resolve
  <2>1. UNCHANGED <<overlays, moved>> /\ style' = IF \E i \in O!Applicable : O!Old(overlays[i]) THEN O!Stale ELSE O!Laid
    BY <1>1, Zenon DEF O!Resolve
  <2>2. (\E i \in O!Applicable : O!Old(overlays[i])) <=> OldOnes # {}
    BY DEF O!Applicable, OldOnes
  <2>3. Given' /\ OldOnes' = OldOnes /\ O!Stale' = O!Stale
    BY <2>1 DEF OInv, Given, OldOnes, O!Here, O!Old, O!Stale
  <2> QED BY <2>1, <2>2, <2>3, LaidStays DEF OInv
<1>2. CASE O!Move
  BY <1>2 DEF O!Move, OInv, Given, O!Open
<1>3. ASSUME NEW o \in O!Overlays, O!Give(o) PROVE OInv'
  BY <1>3, PluginsAssumption DEF O!Give, OInv, Given, O!Open
<1>4. CASE UNCHANGED O!vars
  <2>1. UNCHANGED <<overlays, moved, style>>
    BY <1>4 DEF O!vars
  <2>2. Given' /\ OldOnes' = OldOnes /\ O!Stale' = O!Stale /\ O!Open' = O!Open
    BY <2>1 DEF OInv, Given, OldOnes, O!Here, O!Old, O!Stale, O!Open
  <2> QED BY <2>1, <2>2, LaidStays DEF OInv
<1> QED BY <1>1, <1>2, <1>3, <1>4 DEF O!Next

LEMMA OverlaysSound == OInv => O!Precedence /\ O!TypeOK
<1> SUFFICES ASSUME OInv PROVE O!Precedence /\ O!TypeOK
  OBVIOUS
<1>1. Given /\ Len(overlays) \in Nat
  BY DEF OInv, Given
<1>2. PICK p \in Predicates : TRUE
  BY PluginsAssumption
<1>3. O!Laid[p] \in 0..Len(overlays) /\ O!Stale[p] = -1 /\ O!Open[p] = -2
  BY <1>1, <1>2, LaidValues DEF O!Stale, O!Open
<1>4. O!Laid # O!Stale /\ O!Open # O!Stale /\ O!Laid # O!Open
  BY <1>3
<1>5. O!Precedence
  <2>1. style = O!Stale => OldOnes # {}
    BY <1>4 DEF OInv
  <2>2. style \notin {O!Stale, O!Open} => style = O!Laid /\ OldOnes = {}
    BY DEF OInv
  <2> QED BY <1>1, <2>1, <2>2, LaidValues, Zenon DEF O!Precedence, OldOnes
<1>6. O!TypeOK
  <2>1. \A i \in DOMAIN overlays : overlays[i] \in O!Overlays
    BY <1>1 DEF Given
  <2>2. style \in [Predicates -> -2..MaxOverlays]
    <3>1. O!Open \in [Predicates -> -2..MaxOverlays] /\ O!Stale \in [Predicates -> -2..MaxOverlays]
      BY PluginsAssumption DEF O!Open, O!Stale
    <3>2. \A n \in 0..Len(overlays) : n \in -2..MaxOverlays
      BY <1>1, PluginsAssumption DEF OInv
    <3>3. O!Laid \in [Predicates -> -2..MaxOverlays]
      BY <1>1, <3>2, LaidValues
    <3> QED BY <3>1, <3>3 DEF OInv
  <2> QED BY <2>1, <2>2 DEF OInv, O!TypeOK
<1> QED BY <1>5, <1>6

-----------------------------------------------------------------------------
StylesInv == (part = "style" => SInv) /\ (part = "overlays" => OInv)

LEMMA StylesKept == MCSpec => []StylesInv
<1>1. MCInit => StylesInv
  BY StyleInit, OverlaysInit DEF MCInit, StylesInv
<1>2. StylesInv /\ [MCNext]_mcVars => StylesInv'
  <2> SUFFICES ASSUME StylesInv, [MCNext]_mcVars  PROVE StylesInv'
    OBVIOUS
  <2>1. part' = part
    BY DEF MCNext, mcVars
  <2>2. ASSUME part = "style"  PROVE SInv'
    <3>1. SInv /\ [S!Next]_S!vars
      BY <2>2 DEF StylesInv, MCNext, mcVars, styleVars, S!vars
    <3> QED BY <3>1, StyleStep
  <2>3. ASSUME part = "overlays"  PROVE OInv'
    <3>1. OInv /\ [O!Next]_(O!vars)
      BY <2>3 DEF StylesInv, MCNext, mcVars, overlaysVars, O!vars
    <3> QED BY <3>1, OverlaysNext
  <2> QED BY <2>1, <2>2, <2>3 DEF StylesInv
<1> QED BY <1>1, <1>2, PTL DEF MCSpec

\* For any rules, checks and generations: however the workspace moves and the brains change
\* between the links of the chain, a style that is returned was found, inspected, read and
\* resolved in one generation, and a check is decided by the one effective rule for it, over
\* rules for it; an effective rule that is as it was read is for this language and generation.
\* A rule that the resolver changed in place may be for others: it is compared with itself.
\* And for any number of overlays, of any scopes
\* and in any order: the one that resolve_style lets decide a key goes over all others that
\* apply to it, and an old one of the workspace stops it.
THEOREM StylesAreSound == MCSpec => []StyleSound
<1>1. StylesInv => StyleSound
  BY OverlaysSound DEF SInv, StylesInv, StyleSound
<1> QED BY <1>1, StylesKept, PTL

-----------------------------------------------------------------------------
(* Every part is of its types.                                             *)

PluginsInv ==
    /\ part \in Parts /\ HInv /\ StylesInv
    /\ part = "tasks" => TaskInv
    /\ part = "branches" => BInv
    /\ part = "worktree" => WInv
    /\ part = "verify" => VInv
    /\ part = "language" => LInv
    /\ part = "composition" => ComposerInv
    /\ part = "repair" => RInv
    /\ part = "catalog" => EInv

\* For any callers, tasks, branches, heads, experts, rules and bounds: every part of the
\* plugins keeps to its types, and so to its limits: the Prolog program to the tasks and the
\* evidence it may hold, a composition to its budget, resolve_style to the overlays it got.
THEOREM PluginsTyped == MCSpec => []MCTypeOK
<1>1. MCSpec => [](part \in Parts)
  <2>1. MCInit => part \in Parts
    BY DEF MCInit
  <2>2. part \in Parts /\ [MCNext]_mcVars => (part \in Parts)'
    BY DEF MCNext, mcVars
  <2> QED BY <2>1, <2>2, PTL DEF MCSpec
<1>2. PluginsInv => MCTypeOK
  BY TasksTyped, OverlaysSound
     DEF PluginsInv, HInv, StylesInv, BInv, WInv, VInv, LInv, ComposerInv, RInv, EInv, SInv, MCTypeOK
<1>3. MCSpec => []PluginsInv
  BY <1>1, HostTables, StylesKept, TasksKept, BranchesKept, WorktreeKept, VerifyKept, LanguageKept,
     CompositionKept, RepairKept, CatalogKept, PTL DEF PluginsInv
<1> QED BY <1>2, <1>3, PTL
=============================================================================
