------------------------------ MODULE TimerDomain ------------------------------
(***************************************************************************)
(* The timers, alarms and reminders of the zara-timers plugin.  Timers     *)
(* count down on the monotonic clock while the process lives and on the    *)
(* wall clock across restarts; alarms and reminders follow the wall clock. *)
(* Every change is written to one state file by an atomic replace, which   *)
(* may fail; the process may end between any two operations, and events    *)
(* nobody drained end with it.                                             *)
(*                                                                         *)
(* Names, timezones and the format of identifiers are left out; an item is *)
(* known by the number its identifier carries.                             *)
(***************************************************************************)
EXTENDS Integers, FiniteSets

CONSTANTS
    MissedPolicy,  \* "fire_once" or "skip"
    Durations,     \* durations timers are created with
    Delays,        \* how far ahead alarms and reminders are set
    Cadences,      \* repetition periods of reminders
    None,          \* a key the item record does not have
    MaxItems,      \* bound: identifiers handed out
    MaxTime,       \* bound: the clocks
    MaxFaults      \* bound: failed saves and set clocks

ASSUME TimerAssumption ==
    /\ MissedPolicy \in {"fire_once", "skip"}
    /\ Durations \subseteq Nat \ {0} /\ Delays \subseteq Nat
    /\ Cadences \subseteq Nat \ {0}
    /\ None \notin Int
    /\ MaxItems \in Nat /\ MaxTime \in Nat /\ MaxFaults \in Nat

VARIABLES
    up,        \* the plugin's process runs
    mono,      \* time.monotonic()
    wall,      \* the wall clock
    items,     \* _items: number -> item
    seq,       \* _sequence
    events,    \* _events, not drained
    file,      \* the state file
    faults,    \* failed saves and set clocks so far
    owed,      \* history: what each timer still has to run
    fires,     \* history: how often each timer and alarm fired
    buried,    \* history: items whose cancellation is in the file
    unsaved,   \* history: the file lacks something the memory holds
    doubt      \* history: the clock was set, or unsaved changes were lost

history == <<owed, fires, buried, doubt>>
vars == <<up, mono, wall, items, seq, events, file, faults, history, unsaved>>

Ids == 1..MaxItems
TimerStatus == {"running", "paused", "fired", "cancelled"}
DateStatus == {"scheduled", "fired", "cancelled"}

Item == [kind : {"timer"}, status : TimerStatus, left : Nat,
         started : Nat \cup {None}, saved : Nat]
        \cup [kind : {"alarm"}, status : DateStatus, due : Nat]
        \cup [kind : {"reminder"}, status : DateStatus, due : Nat,
              every : Nat \ {0}]

Kinds == {"timer", "alarm", "reminder"}

NonNegative(n) == IF n < 0 THEN 0 ELSE n

Running(it) == it.kind = "timer" /\ it.status = "running"

\* Mutant: the time left is not clipped at zero.
LeftUnclipped(it) == IF it.status = "paused" THEN it.left
                     ELSE it.left - NonNegative(mono - it.started)

\* _remaining: needs the monotonic start unless the timer is paused.
Left(it) == IF it.status = "paused" THEN it.left
            ELSE NonNegative(it.left - NonNegative(mono - it.started))

\* get, list, and the answer of every other operation, need the time left; a
\* timer that is not paused and has no monotonic start raises a KeyError there.
Readable(it) == it.kind = "timer" => it.status = "paused" \/ it.started # None

\* Mutant: the monotonic start stays when the time left is brought up to date.
RefreshedTwice(its) ==
    [i \in DOMAIN its |->
        IF Running(its[i]) THEN [its[i] EXCEPT !.left = Left(its[i]), !.saved = wall]
        ELSE its[i]]

\* _persist first brings every running timer up to date, in memory too.
Refreshed(its) ==
    [i \in DOMAIN its |->
        IF Running(its[i])
        THEN [its[i] EXCEPT !.left = Left(its[i]), !.started = mono, !.saved = wall]
        ELSE its[i]]

\* The monotonic start is never written.
Written(its) ==
    [i \in DOMAIN its |->
        IF its[i].kind = "timer" THEN [its[i] EXCEPT !.started = None] ELSE its[i]]

\* _load: a running timer pays for the time the process was down.
Loaded(its) ==
    [i \in DOMAIN its |->
        IF Running(its[i])
        THEN [its[i] EXCEPT !.left = NonNegative(@ - NonNegative(wall - its[i].saved)),
                            !.started = mono, !.saved = wall]
        ELSE its[i]]

Fault == faults < MaxFaults /\ faults' = faults + 1

\* The items become its, the last number s; the write may fail, and then the
\* caller gets the error but the memory keeps the change.
Persist(its, s) ==
    /\ items' = Refreshed(its) /\ seq' = s
    /\ \/ /\ file' = [seq |-> s, items |-> Written(Refreshed(its))]
          /\ unsaved' = FALSE
          /\ buried' = buried \cup {i \in DOMAIN its : its[i].status = "cancelled"}
          /\ UNCHANGED faults
       \/ Fault /\ unsaved' = TRUE /\ UNCHANGED <<file, buried>>

clocks == <<up, mono, wall>>

Init ==
    /\ up = TRUE /\ mono = 0 /\ wall = 0
    /\ items = <<>> /\ seq = 0 /\ events = {}
    /\ file = [seq |-> 0, items |-> <<>>]
    /\ owed = [i \in Ids |-> 0] /\ fires = [i \in Ids |-> 0]
    /\ faults = 0 /\ buried = {} /\ unsaved = FALSE /\ doubt = FALSE

-----------------------------------------------------------------------------
(* Operations.                                                             *)

\* A number is used up also when the item is refused after it was drawn.
Create(it) ==
    /\ up /\ seq < MaxItems
    /\ \/ Persist([i \in DOMAIN items \cup {seq + 1} |->
                      IF i = seq + 1 THEN it ELSE items[i]], seq + 1)
       \/ seq' = seq + 1 /\ unsaved' = TRUE /\ UNCHANGED <<items, file, buried, faults>>
    /\ UNCHANGED <<clocks, events, fires, doubt>>

CreateTimer(d) ==
    /\ Create([kind |-> "timer", status |-> "running", left |-> d,
               started |-> mono, saved |-> wall])
    /\ owed' = [owed EXCEPT ![seq + 1] = d]

CreateAlarm(delay) ==
    /\ Create([kind |-> "alarm", status |-> "scheduled", due |-> wall + delay])
    /\ UNCHANGED owed

CreateReminder(delay, every) ==
    /\ Create([kind |-> "reminder", status |-> "scheduled", due |-> wall + delay,
               every |-> every])
    /\ UNCHANGED owed

\* Change an item's record and save.
Change(i, it) ==
    /\ Persist([items EXCEPT ![i] = it], seq)
    /\ UNCHANGED <<clocks, owed, fires, doubt>>

Pause(i) ==
    /\ up /\ Running(items[i])
    /\ Change(i, [items[i] EXCEPT !.left = Left(items[i]), !.status = "paused",
                                  !.started = None])
    /\ UNCHANGED events

Resume(i) ==
    /\ up /\ items[i].kind = "timer" /\ items[i].status = "paused"
    /\ Change(i, [items[i] EXCEPT !.status = "running", !.started = mono,
                                  !.saved = wall])
    /\ UNCHANGED events

Cancel(i) ==
    /\ up /\ items[i].status # "cancelled"
    /\ Change(i, [items[i] EXCEPT !.status = "cancelled"])
    /\ events' = events \cup {[type |-> "cancelled", id |-> i]}

\* Mutant: a cancelled item still comes due.
DueCancelled(it) ==
    /\ it.status \in {"running", "scheduled", "cancelled"}
    /\ IF it.kind = "timer" THEN it.started # None /\ Left(it) = 0 ELSE it.due <= wall

Due(it) ==
    /\ it.status \in {"running", "scheduled"}
    /\ IF it.kind = "timer" THEN Left(it) = 0 ELSE it.due <= wall

\* Mutant: a reminder moves by one period, however late it is.
NextOccurrenceOnce(it) == it.due + it.every

\* A reminder moves to its first occurrence in the future.
NextOccurrence(it) ==
    it.due + it.every * ((wall - it.due) \div it.every + 1)

Passed(it) == IF it.kind = "reminder" THEN [it EXCEPT !.due = NextOccurrence(it)]
              ELSE [it EXCEPT !.status = "fired"]

\* Mutant: what fired is not saved.
PollDueUnsaved ==
    /\ up
    /\ LET due == {i \in DOMAIN items : Due(items[i])}
       IN  /\ items' = [i \in DOMAIN items |-> IF i \in due THEN Passed(items[i]) ELSE items[i]]
           /\ events' = events \cup [type : {"fired"}, id : due]
           /\ fires' = [i \in Ids |-> IF i \in due /\ items[i].kind # "reminder"
                                    THEN fires[i] + 1 ELSE fires[i]]
    /\ UNCHANGED <<clocks, owed, doubt, seq, file, buried, unsaved, faults>>

\* Skipped alarms and reminders move on without an event, and a poll without
\* an event saves nothing.
PollDue ==
    /\ up
    /\ LET due    == {i \in DOMAIN items : Due(items[i])}
           firing == {i \in due : MissedPolicy = "fire_once" \/ items[i].kind = "timer"}
           its    == [i \in DOMAIN items |-> IF i \in due THEN Passed(items[i]) ELSE items[i]]
       IN  /\ events' = events \cup [type : {"fired"}, id : firing]
           /\ fires' = [i \in Ids |-> IF i \in firing /\ items[i].kind # "reminder"
                                    THEN fires[i] + 1 ELSE fires[i]]
           /\ IF firing # {} THEN Persist(its, seq)
              ELSE /\ items' = its /\ unsaved' = (unsaved \/ due # {})
                   /\ UNCHANGED <<seq, file, buried, faults>>
    /\ UNCHANGED <<clocks, owed, doubt>>

DrainEvents ==
    /\ up /\ events' = {}
    /\ UNCHANGED <<clocks, items, seq, file, faults, history, unsaved>>

-----------------------------------------------------------------------------
(* The world.                                                              *)

\* The items as the user knows them, also while the process is down.
Known == IF up THEN items ELSE file.items

Tick ==
    /\ mono < MaxTime /\ wall < MaxTime
    /\ mono' = mono + 1 /\ wall' = wall + 1
    /\ owed' = [i \in Ids |-> IF i \in DOMAIN Known /\ Running(Known[i])
                              THEN NonNegative(owed[i] - 1) ELSE owed[i]]
    /\ UNCHANGED <<up, items, seq, events, file, faults, fires, buried, unsaved, doubt>>

\* Somebody sets the wall clock, forwards or back.
SetClock ==
    /\ Fault /\ doubt' = TRUE
    /\ wall' \in 0..MaxTime
    /\ UNCHANGED <<up, mono, items, seq, events, file, owed, fires, buried, unsaved>>

\* The process ends, by stop() or by a crash; nothing is saved then.
End ==
    /\ up /\ up' = FALSE /\ items' = <<>> /\ seq' = 0 /\ events' = {}
    /\ doubt' = (doubt \/ unsaved) /\ unsaved' = FALSE
    /\ UNCHANGED <<mono, wall, file, faults, owed, fires, buried>>

Start ==
    /\ ~up /\ up' = TRUE
    /\ items' = Loaded(file.items) /\ seq' = file.seq
    /\ UNCHANGED <<mono, wall, events, file, faults, history, unsaved>>

Operation ==
    \/ \E d \in Durations : CreateTimer(d)
    \/ \E delay \in Delays : CreateAlarm(delay) \/ \E c \in Cadences : CreateReminder(delay, c)
    \/ \E i \in DOMAIN items : Pause(i) \/ Resume(i) \/ Cancel(i)
    \/ PollDue \/ DrainEvents

Next == Operation \/ Tick \/ SetClock \/ End \/ Start

Spec == Init /\ [][Next]_vars

-----------------------------------------------------------------------------
(* Properties.                                                             *)

\* Every variable keeps its type.
TypeOK ==
    /\ up \in BOOLEAN /\ mono \in Nat /\ wall \in Nat /\ seq \in Nat
    /\ DOMAIN items \subseteq Ids /\ \A i \in DOMAIN items : items[i] \in Item
    /\ file.seq \in Nat /\ DOMAIN file.items \subseteq Ids
    /\ \A i \in DOMAIN file.items : file.items[i] \in Item
    /\ \A e \in events : e.type \in {"fired", "cancelled"} /\ e.id \in Ids
    /\ owed \in [Ids -> Nat] /\ fires \in [Ids -> Nat]
    /\ faults \in Nat /\ buried \subseteq Ids /\ unsaved \in BOOLEAN /\ doubt \in BOOLEAN

\* No time is lost or counted twice: whatever sequence of saves, pauses,
\* restarts and downtime a timer went through, it has exactly the time left
\* that it has not run (unless the clock was set or a failed save was lost).
TimeConserved ==
    up /\ ~doubt => \A i \in DOMAIN items :
        items[i].kind = "timer" /\ items[i].status \in {"running", "paused"}
            => Left(items[i]) = owed[i]

\* Timers and alarms fire once, also when the process ends right after the
\* poll and the next one loads the file.
FiresOnce ==
    ~doubt => \A i \in Ids : fires[i] <= 1

\* A cancellation that reached the file holds for good: no later poll, in this
\* process or a restarted one, fires the item.
CancelIsFinal ==
    [][\A e \in events' \ events : e.type = "fired" => e.id \notin buried]_vars

\* After a poll nothing is overdue: every reminder's next occurrence lies in
\* the future, however many it missed.
PollLeavesNothingDue == [][PollDue => \A i \in DOMAIN items : ~Due(items[i])']_vars

\* "Stable IDs support reliable lookup and cancellation": get, list and cancel
\* of an item that exists answer.
LookupAnswers == \A i \in DOMAIN items : Readable(items[i])
=============================================================================
