---------------------------- MODULE ExpertCatalog ----------------------------
(***************************************************************************)
(* Discovery over the registry of Zara Core, which others change meanwhile.*)
(* The adapter keeps nothing: it lists the experts page by page, and it    *)
(* picks the expert that matches a goal and has it invoked, on the word of *)
(* the registry's two generations before, between and after.               *)
(***************************************************************************)
EXTENDS Naturals, Sequences

CONSTANTS
    Experts,
    Nobody,        \* no expert
    PageLimit,     \* PAGE_LIMIT
    MaxGeneration, \* bound: registries
    MaxRuntime     \* bound: restarts of the runtime

VARIABLES
    registries,  \* every registry there was: the generation is their number
    runtime,     \* runtime generation
    down,        \* experts that are not available
    listing,     \* list() under way or returned
    todo,        \* the steps an invocation still has to take
    pick         \* what it holds

vars == <<registries, runtime, down, listing, todo, pick>>

Catalogs == {s \in UNION {[1..n -> Experts] : n \in 0..2} : \A i, j \in DOMAIN s : s[i] = s[j] => i = j}
InCatalog(c) == {c[i] : i \in DOMAIN c}

\* The order of the experts, the one that matches the goal, and whether it may use models.
Registries == {r \in [experts : Catalogs, match : Experts \cup {Nobody}, models : BOOLEAN] :
                   IF r.match = Nobody THEN ~r.models ELSE r.match \in InCatalog(r.experts)}

Generation == Len(registries)
Now == <<Generation, runtime>>
Registry == registries[Generation]
Pairs == (0..MaxGeneration) \X (0..MaxRuntime)
Never == <<0, 0>>

NoSelection == [expert |-> Nobody, pair |-> Never, models |-> FALSE]
NoPick == [selecting |-> NoSelection, selected |-> NoSelection, asked |-> Nobody, began |-> Never, ended |-> Never]
NoListing == [at |-> "idle", expected |-> Never, total |-> 0, experts |-> <<>>]

Selection == [expert : Experts \cup {Nobody}, pair : Pairs, models : BOOLEAN]

TypeOK ==
    /\ registries \in Seq(Registries) /\ Generation \in 1..MaxGeneration
    /\ runtime \in 0..MaxRuntime /\ down \subseteq Experts
    /\ listing \in [at : {"idle", "page", "current", "returned"}, expected : Pairs, total : 0..2, experts : Catalogs]
    /\ pick \in [selecting : Selection, selected : Selection, asked : Experts \cup {Nobody}, began : Pairs, ended : Pairs]
    /\ Len(todo) <= 18

Init ==
    /\ registries \in {<<r>> : r \in Registries} /\ runtime = 0 /\ down = {}
    /\ listing = NoListing /\ todo = <<>> /\ pick = NoPick

-----------------------------------------------------------------------------
(* The registry, seen from here.                                           *)

Register ==
    /\ Generation < MaxGeneration /\ \E r \in Registries \ {Registry} : registries' = Append(registries, r)
    /\ UNCHANGED <<runtime, down, listing, todo, pick>>

Restart ==
    /\ runtime < MaxRuntime /\ runtime' = runtime + 1
    /\ UNCHANGED <<registries, down, listing, todo, pick>>

\* Availability is not a matter of generations.
Available ==
    /\ \E e \in InCatalog(Registry.experts) : down' = IF e \in down THEN down \ {e} ELSE down \cup {e}
    /\ UNCHANGED <<registries, runtime, listing, todo, pick>>

-----------------------------------------------------------------------------
(* list                                                                    *)

Lists(l) == listing' = l /\ UNCHANGED <<registries, runtime, down, todo, pick>>

List ==
    /\ todo = <<>> /\ listing.at \in {"idle", "returned"}
    /\ Lists([NoListing EXCEPT !.at = "page", !.expected = Now])

\* A page is of the generation the listing began with, its total is that of the first, it
\* is not empty before the end, and it repeats nobody.
Page ==
    LET offset == Len(listing.experts)
        all == Registry.experts
        page == SubSeq(all, offset + 1, IF offset + PageLimit < Len(all) THEN offset + PageLimit ELSE Len(all))
        sound == /\ Generation = listing.expected[1]
                 /\ offset = 0 \/ listing.total = Len(all)
                 /\ page # <<>> \/ offset >= Len(all)
                 /\ InCatalog(page) \cap InCatalog(listing.experts) = {}
    IN  /\ listing.at = "page"
        /\ Lists(IF ~sound THEN NoListing
                 ELSE [listing EXCEPT !.total = Len(all), !.experts = @ \o page,
                                      !.at = IF offset + Len(page) < Len(all) THEN "page" ELSE "current"])

ListCurrent ==
    /\ listing.at = "current"
    /\ Lists(IF Now = listing.expected THEN [listing EXCEPT !.at = "returned"] ELSE NoListing)

-----------------------------------------------------------------------------
(* Picking an expert.                                                      *)

\* Mutant: the selection is not looked up again after the expert has run.
CatalogInvokeOnce ==
    <<"generation", "match", "describe", "current", "accept", "generation", "match", "describe", "current",
      "same", "begin", "end", "return">>

\* CoreCatalogCompositionAdapter.invoke, each row a match and what is done with it.
CatalogInvoke ==
    <<"generation", "match", "describe", "current", "accept",
      "generation", "match", "describe", "current", "same", "begin", "end",
      "generation", "match", "describe", "current", "same", "return">>

\* CoreCatalogSelectedChildInvoker, for a delegation to one expert.
ChildInvoke ==
    <<"generation", "match", "describe", "current", "accept", "begin", "end",
      "generation", "match", "describe", "current", "same", "return">>

At(step) == todo # <<>> /\ todo[1] = step
Picks(p) == todo' = Tail(todo) /\ pick' = p /\ UNCHANGED <<registries, runtime, down, listing>>
Refuse == todo' = <<>> /\ pick' = NoPick /\ UNCHANGED <<registries, runtime, down, listing>>
Unless(holds, p) == IF holds THEN Picks(p) ELSE Refuse

Invoke ==
    /\ todo = <<>> /\ listing.at \in {"idle", "returned"} /\ listing' = NoListing
    /\ UNCHANGED <<registries, runtime, down>>
    /\ \/ todo' = CatalogInvoke /\ pick' = NoPick
       \/ \E e \in Experts : todo' = ChildInvoke /\ pick' = [NoPick EXCEPT !.asked = e]

\* _generation_pair
GetGeneration ==
    At("generation") /\ Picks([pick EXCEPT !.selecting = [NoSelection EXCEPT !.pair = Now]])

Match ==
    At("match") /\ Unless(Registry.match # Nobody, [pick EXCEPT !.selecting.expert = Registry.match])

\* The expert is still there, and selectable.
Describe ==
    LET e == pick.selecting.expert
    IN  /\ At("describe")
        /\ Unless(e \in InCatalog(Registry.experts) \ down, [pick EXCEPT !.selecting.models = Registry.models])

\* _assert_current
AssertCurrent == At("current") /\ Unless(Now = pick.selecting.pair, pick)

\* No expert that may use models, and the one that was delegated to.
Accept ==
    At("accept") /\ Unless(~pick.selecting.models /\ pick.asked \in {Nobody, pick.selecting.expert},
                           [pick EXCEPT !.selected = pick.selecting])

Same == At("same") /\ Unless(pick.selecting = pick.selected, pick)

Begin == At("begin") /\ Picks([pick EXCEPT !.began = Now])
End == At("end") /\ (Picks([pick EXCEPT !.ended = Now]) \/ Refuse)

\* The result is returned; the caller may see it for as long as it likes.
Return == At("return") /\ Refuse

Next ==
    \/ Register \/ Restart \/ Available \/ List \/ Page \/ ListCurrent
    \/ Invoke \/ GetGeneration \/ Match \/ Describe \/ AssertCurrent \/ Accept \/ Same \/ Begin \/ End \/ Return

Spec == Init /\ [][Next]_vars

-----------------------------------------------------------------------------
(* Properties.                                                             *)

\* However the registry changes between the pages and the questions, a listing is the
\* whole catalog of one generation, and what is returned of an invocation came from an
\* expert that was the match, and without models, all the time it ran.
DiscoveryConsistent ==
    /\ listing.at = "returned" => listing.experts = registries[listing.expected[1]].experts
    /\ At("return") =>
           /\ pick.began = pick.ended /\ pick.began = pick.selected.pair
           /\ LET r == registries[pick.began[1]]
              IN  pick.selected.expert = r.match /\ ~r.models /\ pick.asked \in {Nobody, r.match}
=============================================================================
