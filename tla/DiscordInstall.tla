---------------------------- MODULE DiscordInstall ----------------------------
(***************************************************************************)
(* The installer of the Discord plugin: a new library directory and a new  *)
(* wrapper file replace the old pair, by renames, with a transaction       *)
(* marker that says what to restore.  A process may die at any step, also  *)
(* halfway through the removal or the copy of a directory; the next        *)
(* install recovers first.  Installs run one at a time.                    *)
(***************************************************************************)
EXTENDS Naturals, Sequences

CONSTANT MaxInstalls  \* bound: installs begun; the n-th installs version n

VARIABLES
    disk,    \* what is at each path
    marker,  \* .install-transaction.json
    todo,    \* the file operations of the current phase
    phase,   \* what the install is doing
    version  \* the version being installed, or last installed

vars == <<disk, marker, todo, phase, version>>

None == 0
Broken == MaxInstalls + 1   \* a directory copied or removed halfway
Versions == 1..MaxInstalls

Directories == {"library", "libraryBackup", "staging"}
Paths == Directories \cup {"wrapper", "wrapperBackup", "wrapperStaging"}
NoMarker == [present |-> FALSE, library |-> FALSE, wrapper |-> FALSE]

Remove(p) == [op |-> "remove", from |-> p, to |-> p]
Move(p, q) == [op |-> "move", from |-> p, to |-> q]
Copy(p) == [op |-> "copy", from |-> p, to |-> p]
Mark == [op |-> "mark", from |-> "library", to |-> "wrapper"]
Unmark == [op |-> "unmark", from |-> "library", to |-> "wrapper"]

TypeOK ==
    /\ disk \in [Paths -> {None, Broken} \cup Versions]
    /\ marker \in [present : BOOLEAN, library : BOOLEAN, wrapper : BOOLEAN]
    /\ todo \in Seq([op : {"remove", "move", "copy", "mark", "unmark"},
                     from : Paths, to : Paths])
    /\ phase \in {"idle", "prepare", "recover", "mark", "publish", "rollback", "clean", "drop"}
    /\ version \in 0..MaxInstalls

Init ==
    /\ disk = [p \in Paths |-> None] /\ marker = NoMarker
    /\ todo = <<>> /\ phase = "idle" /\ version = 0

Exists(p) == disk[p] # None

\* _restore_component
Restore(live, backup, existed) ==
    IF ~existed THEN <<Remove(live), Remove(backup)>>
    ELSE IF Exists(backup) THEN <<Remove(live), Move(backup, live)>>
    ELSE <<>>

\* A backup without a marker is the live component, or of no more use.
Legacy(live, backup) ==
    IF ~Exists(backup) THEN <<>>
    ELSE IF Exists(live) THEN <<Remove(backup)>>
    ELSE <<Move(backup, live)>>

\* _recover_interrupted_publish
Recovery ==
    IF marker.present
    THEN Restore("library", "libraryBackup", marker.library)
         \o Restore("wrapper", "wrapperBackup", marker.wrapper)
         \o <<Remove("libraryBackup"), Remove("wrapperBackup"), Unmark>>
    ELSE Legacy("library", "libraryBackup") \o Legacy("wrapper", "wrapperBackup")

Publication ==
    (IF Exists("library") THEN <<Move("library", "libraryBackup")>> ELSE <<>>)
    \o <<Move("staging", "library")>>
    \o (IF Exists("wrapper") THEN <<Move("wrapper", "wrapperBackup")>> ELSE <<>>)
    \o <<Move("wrapperStaging", "wrapper")>>

Rollback ==
    Restore("library", "libraryBackup", marker.library)
    \o Restore("wrapper", "wrapperBackup", marker.wrapper)
    \o <<Remove("staging"), Remove("wrapperStaging"),
         Remove("libraryBackup"), Remove("wrapperBackup"), Unmark>>

\* Mutant: the backups are removed before the marker.
CleanFirst == <<Remove("libraryBackup"), Remove("wrapperBackup"), Unmark>>

Cleaning == <<Unmark, Remove("libraryBackup"), Remove("wrapperBackup")>>
Dropping == <<Remove("staging"), Remove("wrapperStaging")>>

Enter(p, ops) == phase' = p /\ todo' = ops

Install ==
    /\ phase = "idle" /\ version < MaxInstalls /\ version' = version + 1
    /\ Enter("prepare", Dropping \o <<Copy("staging"), Copy("wrapperStaging")>>)
    /\ UNCHANGED <<disk, marker>>

\* What an operation leaves on the disk.
Done(o) ==
    CASE o.op = "remove" -> [disk EXCEPT ![o.from] = None]
      [] o.op = "copy"   -> [disk EXCEPT ![o.from] = version]
      [] o.op = "move"   -> [disk EXCEPT ![o.to] = disk[o.from], ![o.from] = None]
      [] OTHER           -> disk

\* A rename needs its source, and does not replace a directory.
Possible(o) == o.op = "move" => Exists(o.from) /\ (o.to \in Directories => ~Exists(o.to))

Operate ==
    /\ todo # <<>>
    /\ LET o == Head(todo)
       IN  /\ Possible(o) /\ disk' = Done(o)
           /\ marker' = CASE o.op = "mark"   -> [present |-> TRUE, library |-> Exists("library"),
                                                 wrapper |-> Exists("wrapper")]
                          [] o.op = "unmark" -> NoMarker
                          [] OTHER           -> marker
    /\ todo' = Tail(todo) /\ UNCHANGED <<phase, version>>

\* A phase that is over leads to the next.
Proceed ==
    /\ phase # "idle" /\ todo = <<>> /\ UNCHANGED <<disk, marker, version>>
    /\ \/ phase = "prepare" /\ Enter("recover", Recovery)
       \/ phase = "recover" /\ Enter("mark", <<Mark>>)
       \/ phase = "mark" /\ Enter("publish", Publication)
       \/ phase = "publish" /\ Enter("clean", Cleaning)
       \/ phase = "rollback" /\ Enter("drop", Dropping)
       \/ phase \in {"clean", "drop"} /\ Enter("idle", <<>>)

\* A directory of which a removal or a copy did some.
Half ==
    LET o == Head(todo)
    IN  IF o.from \in Directories /\ (o.op = "copy" \/ (o.op = "remove" /\ Exists(o.from)))
        THEN {disk, [disk EXCEPT ![o.from] = Broken]} ELSE {disk}

\* An operation raises, perhaps halfway: a publication is rolled back, any other
\* phase gives up; what was prepared is dropped.
Fail ==
    /\ todo # <<>> /\ disk' \in Half
    /\ IF phase = "publish" THEN Enter("rollback", Rollback)
       ELSE IF phase = "drop" THEN Enter("idle", <<>>)
       ELSE Enter("drop", Dropping)
    /\ UNCHANGED <<marker, version>>

Die ==
    /\ phase # "idle" /\ Enter("idle", <<>>)
    /\ disk' \in (IF todo = <<>> THEN {disk} ELSE Half)
    /\ UNCHANGED <<marker, version>>

Next == Install \/ Operate \/ Proceed \/ Fail \/ Die

Spec == Init /\ [][Next]_vars

-----------------------------------------------------------------------------
(* Properties.                                                             *)

\* The component a recovery would leave, now.
Recovered(live, backup, existed) ==
    IF marker.present
    THEN IF ~existed THEN None ELSE IF Exists(backup) THEN disk[backup] ELSE disk[live]
    ELSE IF Exists(live) THEN disk[live] ELSE disk[backup]

\* Whenever the installer dies or fails, in an install, a rollback or a
\* recovery, library and wrapper are restored whole and of one version.
PairCoherent ==
    LET library == Recovered("library", "libraryBackup", marker.library)
        wrapper == Recovered("wrapper", "wrapperBackup", marker.wrapper)
    IN  library = wrapper /\ library # Broken
=============================================================================
