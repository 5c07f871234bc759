--------------------------- MODULE MCAvatarClients ---------------------------
(***************************************************************************)
(* Clients that speak and animate, and clients that manage the library.    *)
(* Which it is, is seen by the library: the first have nothing to load.    *)
(***************************************************************************)
EXTENDS MCAvatarActor, TLC

\* Bounds of a library behaviour; those of speech are MaxInputs and QueueSize.
CONSTANTS LibraryInputs, LibraryQueue

\* What deletes that failed between the two files leave.
Leftovers == [a \in Avatars |-> [model |-> "none", record |-> "whole"]]

MCInit ==
    /\ Init
    /\ \/ library = Leftovers
       \/ \A a \in Avatars : \E f \in {"none", "whole"} : library[a] = [model |-> f, record |-> f]

MCSpec == MCInit /\ [][Next]_vars

\* No behaviour has commands of both menus in its queue.
OneMenu ==
    LET menu == IF library = Leftovers THEN SpeechCommands ELSE LibraryCommands
    IN  /\ \A k \in DOMAIN queue : queue[k].kind = "command" => queue[k].cmd \in menu
        /\ library # Leftovers => /\ inputs <= LibraryInputs /\ Len(queue) <= LibraryQueue
                                  /\ st.faces \subseteq {Neutral}

\* No avatar differs from another.
AvatarSymmetry == Permutations(Avatars)
=============================================================================
