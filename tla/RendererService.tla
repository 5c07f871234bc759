---------------------------- MODULE RendererService ----------------------------
(***************************************************************************)
(* What a renderer host promises its actor: children come and go, a        *)
(* request that was asked is executed at most once, by a child that lives, *)
(* and is answered with success only after it was executed.  Everything    *)
(* else about a request - that it fails, times out, or is executed after   *)
(* its caller gave up - is left open.                                      *)
(***************************************************************************)
EXTENDS Naturals, Sequences

CONSTANTS Children, Requests

VARIABLES
    live,      \* the children that run
    asked,     \* the requests made
    log,       \* the requests executed, in order
    answered   \* the requests whose caller was told "ok"

vars == <<live, asked, log, answered>>

Executed == {log[i] : i \in DOMAIN log}

Init == live = {} /\ asked = {} /\ log = <<>> /\ answered = {}

Spawn(k) == k \notin live /\ live' = live \cup {k} /\ UNCHANGED <<asked, log, answered>>

Die(k) == k \in live /\ live' = live \ {k} /\ UNCHANGED <<asked, log, answered>>

Ask(r) == r \notin asked /\ asked' = asked \cup {r} /\ UNCHANGED <<live, log, answered>>

Execute(r) ==
    /\ live # {} /\ r \in asked \ Executed
    /\ log' = Append(log, r) /\ UNCHANGED <<live, asked, answered>>

Answer(r) ==
    /\ r \in Executed \ answered
    /\ answered' = answered \cup {r} /\ UNCHANGED <<live, asked, log>>

Next ==
    \/ \E k \in Children : Spawn(k) \/ Die(k)
    \/ \E r \in Requests : Ask(r) \/ Execute(r) \/ Answer(r)

Spec == Init /\ [][Next]_vars
=============================================================================
