---------------------------- MODULE ModerationAudit ----------------------------
(***************************************************************************)
(* The audit log of moderation: entries are appended to a file, and a file *)
(* that is full is rotated by renames.  Any file operation may fail or be  *)
(* the last before a crash; the next record starts over.                   *)
(***************************************************************************)
EXTENDS Naturals, Sequences, FiniteSets

CONSTANTS
    MaxFiles,   \* the log and its rotated files
    PerFile,    \* entries that fit max_bytes
    MaxEntries  \* bound: entries written

VARIABLES
    files,  \* files[0] is the log, files[k] the log rotated k times; <<>> if there is none
    step,   \* the next step of record
    index,  \* the file to shift next
    last    \* entries written, which are numbered

vars == <<files, step, index, last>>

TypeOK ==
    /\ files \in [0..MaxFiles - 1 -> Seq(1..MaxEntries)]
    /\ \A k \in 0..MaxFiles - 1 : Len(files[k]) <= PerFile
    /\ step \in {"idle", "unlink", "shift", "write"} /\ index \in 0..MaxFiles - 1
    /\ last \in 0..MaxEntries

Init == files = [k \in 0..MaxFiles - 1 |-> <<>>] /\ step = "idle" /\ index = 0 /\ last = 0

\* record
Record ==
    /\ step = "idle" /\ last < MaxEntries
    /\ step' = IF Len(files[0]) = PerFile THEN "unlink" ELSE "write"
    /\ UNCHANGED <<files, index, last>>

\* _rotate: the oldest file goes first.
Unlink ==
    /\ step = "unlink"
    /\ files' = [files EXCEPT ![MaxFiles - 1] = <<>>]
    /\ IF MaxFiles > 1 THEN step' = "shift" /\ index' = MaxFiles - 2
       ELSE step' = "write" /\ index' = 0
    /\ UNCHANGED last

\* File k takes the place of file k + 1, if it is there.
Moved(k) == IF files[k] = <<>> THEN files ELSE [files EXCEPT ![k + 1] = files[k], ![k] = <<>>]

\* The rotated files move up, the oldest first and the log last.
Shift ==
    /\ step = "shift" /\ files' = Moved(index) /\ UNCHANGED last
    /\ IF index = 0 THEN step' = "write" /\ index' = 0 ELSE step' = step /\ index' = index - 1

\* Mutant: the log is opened anew.
WriteAnew ==
    /\ step = "write" /\ step' = "idle" /\ last' = last + 1
    /\ files' = [files EXCEPT ![0] = <<last + 1>>] /\ UNCHANGED index

\* The entry is appended and synced, or not there: the part of a line that a failing write
\* may leave, and the entry that is then put behind it on that line, are left out.
Write ==
    /\ step = "write" /\ step' = "idle" /\ last' = last + 1
    /\ files' = [files EXCEPT ![0] = Append(@, last + 1)] /\ UNCHANGED index

\* The step raises, or the process dies before it.
Fail == step # "idle" /\ step' = "idle" /\ UNCHANGED <<files, index, last>>

Next == Record \/ Unlink \/ Shift \/ Write \/ Fail

Spec == Init /\ [][Next]_vars

-----------------------------------------------------------------------------
(* Properties.                                                             *)

Kept == UNION {{files[k][i] : i \in DOMAIN files[k]} : k \in 0..MaxFiles - 1}
Least(a, b) == IF a < b THEN a ELSE b

\* However often rotations fail between their renames, the log keeps its newest entries
\* without a gap, at least one file of them.
NewestKept ==
    LET n == Cardinality(Kept)
    IN  Kept = (last - n + 1)..last /\ n >= Least(last, PerFile)
=============================================================================
