------------------------------ MODULE ExpertHost ------------------------------
(***************************************************************************)
(* The expert host: a namespace is registered with the files of a brain    *)
(* and gets a capability for each of its predicates; a query runs under    *)
(* one.  Plugins start and stop on one thread, which registers and revokes *)
(* in several steps; queries run on threads of their own, take no lock,    *)
(* and look at the tables one after the other.  One namespace stands for   *)
(* all: they share nothing.                                                *)
(***************************************************************************)
EXTENDS Naturals, Sequences

CONSTANTS
    Sources,          \* the files of a brain
    Predicates,
    Callers,          \* queries that may run at once
    NoFiles,          \* no files
    MaxRegistrations  \* bound

VARIABLES
    requests,   \* requests[n]: what the n-th registration was asked for
    kb,         \* _knowledge_bases: the files, or NoFiles
    registry,   \* registries[host]: the registration whose capabilities it holds, or 0
    issued,     \* capabilities that were issued and not taken back
    registrar,  \* what the thread that registers is at
    query       \* what the queries are at

vars == <<requests, kb, registry, issued, registrar, query>>

\* A registration needs files.
Request == [files : Sources \ {NoFiles}, predicates : SUBSET Predicates]
Registrations == 1..MaxRegistrations
Capability == Registrations \X Predicates
NoCapability == <<0, CHOOSE p \in Predicates : TRUE>>
NoQuery == [at |-> "idle", capability |-> NoCapability, files |-> NoFiles]

TypeOK ==
    /\ requests \in Seq(Request) /\ Len(requests) <= MaxRegistrations
    /\ kb \in Sources \cup {NoFiles} /\ registry \in 0..MaxRegistrations
    /\ issued \subseteq Capability
    /\ registrar \in {"idle", "issue", "files", "registry", "popFiles", "popIssued"}
    /\ query \in [Callers -> [at : {"idle", "capability", "files", "backend", "fence", "answered"},
                              capability : Capability \cup {NoCapability}, files : Sources \cup {NoFiles}]]

Init ==
    /\ requests = <<>> /\ kb = NoFiles /\ registry = 0 /\ issued = {}
    /\ registrar = "idle" /\ query = [c \in Callers |-> NoQuery]

Latest == Len(requests)
Capabilities(n) == {n} \X requests[n].predicates

-----------------------------------------------------------------------------
(* The thread that starts and stops plugins.                               *)

\* preflight_registration of a name that is free.  One that is registered is left as it
\* is: the same request is done, another one refused.
Register(r) ==
    /\ registrar = "idle" /\ kb = NoFiles /\ Latest < MaxRegistrations
    /\ registrar' = "issue" /\ requests' = Append(requests, r)
    /\ UNCHANGED <<kb, registry, issued, query>>

\* issue, for every predicate.
Issue ==
    /\ registrar = "issue" /\ registrar' = "files"
    /\ issued' = issued \cup Capabilities(Latest)
    /\ UNCHANGED <<requests, kb, registry, query>>

SetFiles ==
    /\ registrar = "files" /\ registrar' = "registry" /\ kb' = requests[Latest].files
    /\ UNCHANGED <<requests, registry, issued, query>>

SetRegistry ==
    /\ registrar = "registry" /\ registrar' = "idle" /\ registry' = Latest
    /\ UNCHANGED <<requests, kb, issued, query>>

\* unregister, by itself or from clear_registrations when the plugin stops.
Unregister ==
    /\ registrar = "idle" /\ registry # 0 /\ registrar' = "popFiles" /\ registry' = 0
    /\ UNCHANGED <<requests, kb, issued, query>>

PopFiles ==
    /\ registrar = "popFiles" /\ registrar' = "popIssued" /\ kb' = NoFiles
    /\ UNCHANGED <<requests, registry, issued, query>>

PopIssued ==
    /\ registrar = "popIssued" /\ registrar' = "idle"
    /\ issued' = issued \ Capabilities(Latest)
    /\ UNCHANGED <<requests, kb, registry, query>>

-----------------------------------------------------------------------------
(* query and explain.                                                      *)

Moves(c, q) == query' = [query EXCEPT ![c] = q] /\ UNCHANGED <<requests, kb, registry, issued, registrar>>
Fails(c) == Moves(c, NoQuery)

Ask(c) ==
    /\ query[c].at \in {"idle", "answered"}
    /\ IF kb = NoFiles THEN Fails(c) ELSE Moves(c, [NoQuery EXCEPT !.at = "capability"])

\* The capability of the predicate; the arguments must be of its arity.
GetCapability(c, p) ==
    LET capability == <<registry, p>>
    IN  /\ query[c].at = "capability"
        /\ \/ registry # 0 /\ capability \in issued /\ capability \in Capabilities(registry)
              /\ Moves(c, [query[c] EXCEPT !.at = "files", !.capability = capability])
           \/ Fails(c)

GetFiles(c) ==
    /\ query[c].at = "files"
    /\ IF kb = NoFiles THEN Fails(c) ELSE Moves(c, [query[c] EXCEPT !.at = "backend", !.files = kb])

\* The backend runs Prolog on the files, and is bounded in time and output.
Backend(c) ==
    /\ query[c].at = "backend"
    /\ Moves(c, [query[c] EXCEPT !.at = "fence"]) \/ Fails(c)

\* Mutant: some capability of the predicate is registered, not the one that was used.
FencePresence(c) ==
    LET p == query[c].capability[2]
    IN  /\ query[c].at = "fence"
        /\ IF registry # 0 /\ <<registry, p>> \in issued \cap Capabilities(registry)
           THEN Moves(c, [query[c] EXCEPT !.at = "answered"]) ELSE Fails(c)

\* The capability is still the registered one.
Fence(c) ==
    LET used == query[c].capability
    IN  /\ query[c].at = "fence"
        /\ IF registry # 0 /\ used[1] = registry /\ used \in issued
           THEN Moves(c, [query[c] EXCEPT !.at = "answered"]) ELSE Fails(c)

Next ==
    \/ \E r \in Request : Register(r)
    \/ Issue \/ SetFiles \/ SetRegistry \/ Unregister \/ PopFiles \/ PopIssued
    \/ \E c \in Callers : \/ Ask(c) \/ GetFiles(c) \/ Backend(c) \/ Fence(c)
                          \/ \E p \in Predicates : GetCapability(c, p)

Spec == Init /\ [][Next]_vars

-----------------------------------------------------------------------------
(* Properties.                                                             *)

Answers(c) == query[c].at = "fence" /\ query'[c].at = "answered"

\* What is answered is of the registration in force.
OfAuthority(c) ==
    /\ registry # 0 /\ query[c].files = requests[registry].files
    /\ query[c].capability[2] \in requests[registry].predicates

AnswerOfAuthority == \A c \in Callers : Answers(c) => OfAuthority(c)

\* The revocation boundary: however a query falls between the steps of a stop and of a new
\* start, what it answers was computed on the files of the registration that is in force
\* when it answers, and that registration has the predicate.
AnswersOfAuthority == [][AnswerOfAuthority]_vars
=============================================================================
