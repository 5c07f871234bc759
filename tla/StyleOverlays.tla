---------------------------- MODULE StyleOverlays ----------------------------
(***************************************************************************)
(* resolve_style: overlays of six scopes, each with values for some keys,  *)
(* are laid over each other; the scope decides, then the order in which    *)
(* they were given.  Those of another language or workspace do not apply;  *)
(* one that is of an older generation of this workspace stops it all.      *)
(***************************************************************************)
EXTENDS Integers, Sequences, Folds

CONSTANTS
    Keys,        \* what is styled
    NoLanguage,  \* an overlay for every language
    MaxOverlays  \* bound

VARIABLES
    overlays,  \* as they are given
    moved,     \* the workspace has moved on since some of them were read
    style      \* style[k]: the overlay that decides k, 0 if there is none; or Stale, or Open

vars == <<overlays, moved, style>>

UserLanguage == 2
ProjectGlobal == 3
ProjectLanguage == 4
Session == 5

\* Of its workspace: here, here before it moved, or elsewhere; language "own" is the one
\* that is resolved for.
Overlays ==
    {o \in [scope : 0..Session, language : {NoLanguage, "own", "other"}, of : {"now", "before", "elsewhere"}, keys : SUBSET Keys] :
        /\ o.scope \in {UserLanguage, ProjectLanguage} => o.language # NoLanguage
        /\ o.scope < ProjectGlobal => o.of = "now"
        /\ o.keys # {}}

Stale == [k \in Keys |-> -1]
Open == [k \in Keys |-> -2]

TypeOK ==
    /\ Len(overlays) <= MaxOverlays /\ \A i \in DOMAIN overlays : overlays[i] \in Overlays
    /\ moved \in BOOLEAN /\ style \in [Keys -> -2..MaxOverlays]

Init == overlays = <<>> /\ moved = FALSE /\ style = Open

-----------------------------------------------------------------------------
Bound(o) == o.scope >= ProjectGlobal
Here(o) == o.language \in {NoLanguage, "own"} /\ (Bound(o) => o.of # "elsewhere")
Old(o) == Bound(o) /\ o.of = "before" /\ moved

Applicable == {i \in DOMAIN overlays : Here(overlays[i])}

Before(i, j) == overlays[i].scope < overlays[j].scope \/ (overlays[i].scope = overlays[j].scope /\ i < j)

\* The one that sorted(applicable) puts last, by scope and then by ordinal.
Uppermost(these) == CHOOSE i \in these : \A j \in these \ {i} : Before(j, i)

\* In that order the values of each go over those before.
Laid ==
    LET Lay(i, values) == [k \in Keys |-> IF k \in overlays[i].keys THEN i ELSE values[k]]
        Itself(i) == i
    IN  MapThenFoldSet(Lay, [k \in Keys |-> 0], Itself, Uppermost, Applicable)

Resolve ==
    /\ style' = IF \E i \in Applicable : Old(overlays[i]) THEN Stale ELSE Laid
    /\ UNCHANGED <<overlays, moved>>

Give(o) ==
    /\ Len(overlays) < MaxOverlays /\ overlays' = Append(overlays, o)
    /\ style' = Open /\ UNCHANGED moved

Move == ~moved /\ moved' = TRUE /\ style' = Open /\ UNCHANGED overlays

Next == Resolve \/ Move \/ \E o \in Overlays : Give(o)

Spec == Init /\ [][Next]_vars

-----------------------------------------------------------------------------
(* Properties.                                                             *)

Applies(i, k) == Here(overlays[i]) /\ k \in overlays[i].keys
Over(i, j) == overlays[i].scope > overlays[j].scope \/ (overlays[i].scope = overlays[j].scope /\ i > j)

\* What was resolved is what precedence means: an overlay decides a key exactly if it
\* applies to it and goes over every other one that does; and an old overlay of this
\* workspace is never passed over in silence.
Precedence ==
    LET old == {i \in DOMAIN overlays : Here(overlays[i]) /\ Old(overlays[i])}
    IN  /\ style = Stale => old # {}
        /\ style \notin {Stale, Open} =>
               /\ old = {}
               /\ \A k \in Keys, i \in DOMAIN overlays :
                      style[k] = i <=> Applies(i, k) /\ \A j \in DOMAIN overlays \ {i} : Applies(j, k) => Over(i, j)
=============================================================================
