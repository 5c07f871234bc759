---------------------------- MODULE TimerDomainProofs ----------------------------
(***************************************************************************)
(* The timers, for any policy, durations, delays, cadences and bounds: no  *)
(* time is lost, nothing fires twice, a cancellation that was saved is     *)
(* final, and a poll leaves nothing due.                                   *)
(*                                                                         *)
(* The argument is about two copies of the items, that of the process and  *)
(* that in the file.  Unless something is unsaved the two have the same    *)
(* items of the same status, and either of them tells what a timer still   *)
(* has to run: the one by the monotonic clock, the other by the wall clock.*)
(***************************************************************************)
EXTENDS TimerDomain, TLAPS

TimerItems == [kind : {"timer"}, status : TimerStatus, left : Nat, started : Nat \cup {None}, saved : Nat]
AlarmItems == [kind : {"alarm"}, status : DateStatus, due : Nat]
ReminderItems == [kind : {"reminder"}, status : DateStatus, due : Nat, every : Nat \ {0}]

\* Whether an item may still fire, or run.
Pending(it) == it.status \in {"running", "paused", "scheduled"}
Counts(it) == it.kind = "timer" /\ it.status \in {"running", "paused"}

\* A running timer knows since when.
Clocked(it) == Running(it) => it.started \in 0..mono

\* What a timer of the file still has to run.
LeftInFile(it) == IF it.status = "paused" THEN it.left ELSE NonNegative(it.left - NonNegative(wall - it.saved))

InMemory == up => DOMAIN items \subseteq 1..seq /\ \A i \in DOMAIN items : Clocked(items[i])

Down == ~up => DOMAIN items = {} /\ ~unsaved

InFile == DOMAIN file.items \subseteq 1..file.seq

\* Nothing is unsaved: the file has every item, and its status.
Saved ==
    up /\ ~unsaved =>
        /\ seq = file.seq /\ DOMAIN items = DOMAIN file.items
        /\ \A i \in DOMAIN items : items[i].kind = file.items[i].kind /\ items[i].status = file.items[i].status

Buried ==
    \A i \in buried : /\ i \in DOMAIN file.items /\ file.items[i].status = "cancelled"
                      /\ up => i \in DOMAIN items /\ items[i].status = "cancelled"

Owed ==
    /\ TimeConserved
    /\ ~unsaved /\ ~doubt => \A i \in DOMAIN file.items :
           /\ Running(file.items[i]) => file.items[i].saved <= wall
           /\ Counts(file.items[i]) => LeftInFile(file.items[i]) = owed[i]

Fired ==
    /\ FiresOnce
    /\ up /\ ~doubt => \A i \in Ids :
           (i \in DOMAIN items /\ Pending(items[i])) \/ i > seq => fires[i] = 0
    /\ ~unsaved /\ ~doubt => \A i \in Ids :
           (i \in DOMAIN file.items /\ Pending(file.items[i])) \/ i > file.seq => fires[i] = 0

TInv == TypeOK /\ InMemory /\ Down /\ InFile /\ Saved /\ Buried /\ Owed /\ Fired

-----------------------------------------------------------------------------
(* What is done with one item.                                             *)

LEMMA ItemsAre ==
    ASSUME NEW it
    PROVE  /\ it \in Item <=> it \in TimerItems \/ it \in AlarmItems \/ it \in ReminderItems
           /\ it \in Item => it.kind \in Kinds
           /\ it \in Item /\ it.kind = "timer" => it \in TimerItems
           /\ it \in Item /\ it.kind = "alarm" => it \in AlarmItems
           /\ it \in Item /\ it.kind = "reminder" => it \in ReminderItems
  BY DEF Item, TimerItems, AlarmItems, ReminderItems, Kinds

LEMMA LeftIsNat ==
    ASSUME mono \in Nat, NEW it \in Item, it.kind = "timer", Counts(it), Clocked(it)
    PROVE  Left(it) \in Nat
<1>1. it \in TimerItems
  BY ItemsAre
<1>2. CASE it.status = "paused"
  BY <1>1, <1>2 DEF TimerItems, Left
<1>3. CASE it.status = "running"
  <2>1. it.started \in 0..mono /\ it.left \in Nat
    BY <1>1, <1>3 DEF TimerItems, Clocked, Running
  <2> QED BY <2>1, <1>3 DEF Left, NonNegative
<1> QED BY <1>2, <1>3 DEF Counts

\* What _persist makes of an item, in memory.
RefreshedItem(it) ==
    IF Running(it) THEN [it EXCEPT !.left = Left(it), !.started = mono, !.saved = wall] ELSE it

\* What it writes of it.
WrittenItem(it) == IF it.kind = "timer" THEN [it EXCEPT !.started = None] ELSE it

LEMMA RefreshedKeeps ==
    ASSUME mono \in Nat, wall \in Nat, NEW it \in Item, Clocked(it)
    PROVE  /\ RefreshedItem(it) \in Item /\ Clocked(RefreshedItem(it))
           /\ RefreshedItem(it).kind = it.kind /\ RefreshedItem(it).status = it.status
           /\ Counts(it) => Left(RefreshedItem(it)) = Left(it)
           /\ Counts(it) => RefreshedItem(it).left = Left(it)
           /\ Running(it) => RefreshedItem(it).saved = wall
           /\ ~Running(it) => RefreshedItem(it) = it
<1> DEFINE new == [it EXCEPT !.left = Left(it), !.started = mono, !.saved = wall]
<1>1. CASE ~Running(it)
  BY <1>1 DEF RefreshedItem, Counts, Running, Left
<1>2. CASE Running(it)
  <2>1. it \in TimerItems /\ it.kind = "timer" /\ it.status = "running" /\ Counts(it)
    BY <1>2, ItemsAre DEF Running, Counts
  <2>2. Left(it) \in Nat
    BY <2>1, LeftIsNat
  <2>3. /\ new \in TimerItems /\ new.kind = "timer" /\ new.status = "running" /\ new.left = Left(it)
        /\ new.started = mono /\ new.saved = wall
    BY <2>1, <2>2 DEF TimerItems
  <2>4. RefreshedItem(it) = new
    BY <1>2 DEF RefreshedItem
  <2> HIDE DEF new
  <2>5. Left(new) = NonNegative(Left(it) - NonNegative(mono - mono))
    BY <2>3 DEF Left
  <2>6. \A n \in Nat : NonNegative(n - NonNegative(mono - mono)) = n
    BY DEF NonNegative
  <2>7. Clocked(new)
    BY <2>3 DEF Clocked
  <2> QED BY <1>2, <2>1, <2>2, <2>3, <2>4, <2>5, <2>6, <2>7, ItemsAre
<1> QED BY <1>1, <1>2

LEMMA WrittenKeeps ==
    ASSUME NEW it \in Item
    PROVE  /\ WrittenItem(it) \in Item
           /\ WrittenItem(it).kind = it.kind /\ WrittenItem(it).status = it.status
           /\ it.kind = "timer" => WrittenItem(it).left = it.left /\ WrittenItem(it).saved = it.saved
<1>1. CASE it.kind = "timer"
  <2>1. it \in TimerItems
    BY <1>1, ItemsAre
  <2>2. [it EXCEPT !.started = None] \in TimerItems
    BY <2>1 DEF TimerItems
  <2> QED BY <1>1, <2>1, <2>2, ItemsAre DEF WrittenItem, TimerItems
<1>2. CASE it.kind # "timer"
  BY <1>2 DEF WrittenItem
<1> QED BY <1>1, <1>2

\* A timer that has just been saved has in the file what it has in memory.
LEMMA WrittenCounts ==
    ASSUME mono \in Nat, wall \in Nat, NEW it \in Item, Clocked(it), Counts(it)
    PROVE  /\ LeftInFile(WrittenItem(RefreshedItem(it))) = Left(it)
           /\ Running(it) => WrittenItem(RefreshedItem(it)).saved <= wall
<1> DEFINE r == RefreshedItem(it)
           w == WrittenItem(r)
<1>1. /\ r \in Item /\ r.kind = "timer" /\ r.status = it.status /\ r.left = Left(it)
      /\ Running(it) => r.saved = wall
  BY RefreshedKeeps DEF Counts
<1> HIDE DEF r
<1>2. /\ w.status = it.status /\ w.left = Left(it) /\ (Running(it) => w.saved = wall)
  BY <1>1, WrittenKeeps
<1> HIDE DEF w
<1>3. Left(it) \in Nat
  BY LeftIsNat DEF Counts
<1>4. CASE it.status = "paused"
  BY <1>2, <1>4 DEF LeftInFile, Running, w, r
<1>5. CASE it.status = "running"
  <2>1. Running(it) /\ w.saved = wall /\ w.status = "running" /\ w.left = Left(it)
    BY <1>2, <1>5 DEF Running, Counts
  <2>2. LeftInFile(w) = NonNegative(Left(it) - NonNegative(wall - wall))
    BY <2>1 DEF LeftInFile
  <2>3. \A n \in Nat : NonNegative(n - NonNegative(wall - wall)) = n
    BY DEF NonNegative
  <2>4. LeftInFile(w) = Left(it) /\ w.saved <= wall
    BY <1>3, <2>1, <2>2, <2>3
  <2> QED BY <2>4 DEF w, r
<1> QED BY <1>4, <1>5 DEF Counts

-----------------------------------------------------------------------------
(* What is done with all of them.                                          *)

LEMMA RefreshedAre ==
    ASSUME NEW its
    PROVE  /\ DOMAIN Refreshed(its) = DOMAIN its
           /\ \A i \in DOMAIN its : Refreshed(its)[i] = RefreshedItem(its[i])
           /\ DOMAIN Written(its) = DOMAIN its
           /\ \A i \in DOMAIN its : Written(its)[i] = WrittenItem(its[i])
  BY DEF Refreshed, RefreshedItem, Written, WrittenItem

\* The events, and what is counted, keep their types.
Told ==
    /\ \A e \in events : e.type \in {"fired", "cancelled"} /\ e.id \in Ids
    /\ owed \in [Ids -> Nat] /\ fires \in [Ids -> Nat]

\* Items that are in order are in order when they were saved, or their saving has failed.
LEMMA PersistKeeps ==
    ASSUME TInv, up, NEW its, NEW s \in Nat, Persist(its, s), UNCHANGED clocks, UNCHANGED doubt, Told',
           DOMAIN its \subseteq Ids, DOMAIN its \subseteq 1..s,
           \A i \in DOMAIN its : its[i] \in Item /\ Clocked(its[i]),
           \A i \in buried : i \in DOMAIN its /\ its[i].status = "cancelled",
           ~doubt => \A i \in DOMAIN its : Counts(its[i]) => Left(its[i]) = owed'[i],
           ~doubt => \A i \in Ids : fires'[i] <= 1,
           ~doubt => \A i \in Ids : (i \in DOMAIN its /\ Pending(its[i])) \/ i > s => fires'[i] = 0
    PROVE  TInv'
<1> DEFINE new == Refreshed(its)
           out == Written(new)
<1>1. /\ up' = up /\ mono' = mono /\ wall' = wall /\ doubt' = doubt /\ items' = new /\ seq' = s
      /\ mono \in Nat /\ wall \in Nat /\ faults \in Nat /\ buried \in SUBSET Ids /\ doubt \in BOOLEAN /\ TypeOK
  BY DEF clocks, Persist, TInv, TypeOK
<1>2. DOMAIN new = DOMAIN its /\ DOMAIN out = DOMAIN its
  BY RefreshedAre
<1>3. ASSUME NEW i \in DOMAIN its
      PROVE  /\ new[i] \in Item /\ Clocked(new[i]) /\ new[i].kind = its[i].kind /\ new[i].status = its[i].status
             /\ Counts(its[i]) => Left(new[i]) = Left(its[i])
             /\ out[i] \in Item /\ out[i].kind = its[i].kind /\ out[i].status = its[i].status
             /\ Counts(its[i]) => LeftInFile(out[i]) = Left(its[i])
             /\ Running(its[i]) => out[i].saved <= wall
  <2>1. new[i] = RefreshedItem(its[i]) /\ out[i] = WrittenItem(new[i])
    BY <1>2, RefreshedAre
  <2>2. its[i] \in Item /\ Clocked(its[i])
    OBVIOUS
  <2>3. /\ new[i] \in Item /\ Clocked(new[i]) /\ new[i].kind = its[i].kind /\ new[i].status = its[i].status
        /\ Counts(its[i]) => Left(new[i]) = Left(its[i])
    BY <1>1, <2>1, <2>2, RefreshedKeeps
  <2>4. out[i] \in Item /\ out[i].kind = new[i].kind /\ out[i].status = new[i].status
    BY <2>1, <2>3, WrittenKeeps
  <2>5. /\ Counts(its[i]) => LeftInFile(out[i]) = Left(its[i])
        /\ Running(its[i]) => out[i].saved <= wall
    <3>1. Running(its[i]) => Counts(its[i])
      BY DEF Running, Counts
    <3> QED BY <1>1, <2>1, <2>2, <3>1, WrittenCounts
  <2> QED BY <2>3, <2>4, <2>5
<1>4. \/ /\ file'.seq = s /\ file'.items = out /\ unsaved' = FALSE /\ faults' = faults
         /\ buried' = buried \cup {i \in DOMAIN its : its[i].status = "cancelled"}
      \/ unsaved' = TRUE /\ UNCHANGED <<file, buried>> /\ faults' = faults + 1
  BY DEF Persist, Fault
<1> HIDE DEF new, out
<1>5. TypeOK'
  <2>1. DOMAIN items' \subseteq Ids /\ \A i \in DOMAIN items' : items'[i] \in Item
    BY <1>1, <1>2, <1>3
  <2>2. file'.seq \in Nat /\ DOMAIN file'.items \subseteq Ids /\ \A i \in DOMAIN file'.items : file'.items[i] \in Item
    BY <1>1, <1>2, <1>3, <1>4 DEF TypeOK
  <2>3. faults' \in Nat /\ unsaved' \in BOOLEAN
    <3>1. unsaved' \in BOOLEAN
      BY <1>4, Zenon
    <3>2. faults' = faults \/ faults' = faults + 1
      BY <1>4, Zenon
    <3> QED BY <1>1, <3>1, <3>2
  <2>4. buried' \subseteq Ids
    <3>1. {i \in DOMAIN its : its[i].status = "cancelled"} \subseteq Ids
      OBVIOUS
    <3> QED BY <1>1, <1>4, <3>1
  <2> QED BY <1>1, <2>1, <2>2, <2>3, <2>4 DEF TypeOK, Told
<1>6. InMemory' /\ Down'
  BY <1>1, <1>2, <1>3 DEF InMemory, Down, Clocked
<1>7. InFile' /\ Saved'
  <2>1. CASE unsaved' = TRUE /\ UNCHANGED <<file, buried>>
    BY <2>1 DEF TInv, InFile, Saved
  <2>2. CASE file'.seq = s /\ file'.items = out
    BY <1>1, <1>2, <1>3, <2>2 DEF InFile, Saved
  <2> QED BY <1>4, <2>1, <2>2
<1>8. Buried'
  <2>1. CASE unsaved' = TRUE /\ UNCHANGED <<file, buried>>
    BY <1>1, <1>2, <1>3, <2>1 DEF TInv, Buried
  <2>2. CASE /\ file'.items = out /\ buried' = buried \cup {i \in DOMAIN its : its[i].status = "cancelled"}
    BY <1>1, <1>2, <1>3, <2>2 DEF Buried
  <2> QED BY <1>4, <2>1, <2>2
<1>9. Owed'
  <2>1. TimeConserved'
    <3> SUFFICES ASSUME ~doubt, NEW i \in DOMAIN its, new[i].kind = "timer", new[i].status \in {"running", "paused"}
                 PROVE  Left(items[i])' = owed'[i]
      BY <1>1, <1>2 DEF TimeConserved
    <3>1. Counts(its[i])
      BY <1>3 DEF Counts
    <3>2. Left(new[i]) = owed'[i]
      BY <1>3, <3>1
    <3> QED BY <1>1, <3>2 DEF Left
  <2>2. (~unsaved /\ ~doubt => \A i \in DOMAIN file.items :
            /\ Running(file.items[i]) => file.items[i].saved <= wall
            /\ Counts(file.items[i]) => LeftInFile(file.items[i]) = owed[i])'
    <3> SUFFICES ASSUME ~unsaved', ~doubt, NEW i \in DOMAIN its
                 PROVE  /\ Running(out[i]) => out[i].saved <= wall
                        /\ Counts(out[i]) => LeftInFile(out[i]) = owed'[i]
      BY <1>1, <1>2, <1>4 DEF LeftInFile
    <3>1. (Running(out[i]) <=> Running(its[i])) /\ (Counts(out[i]) <=> Counts(its[i]))
      BY <1>3 DEF Running, Counts
    <3> QED BY <1>3, <3>1
  <2> QED BY <2>1, <2>2 DEF Owed
<1>10. Fired'
  <2>1. FiresOnce'
    BY <1>1 DEF FiresOnce
  <2>2. ~doubt => \A i \in Ids : (i \in DOMAIN new /\ Pending(new[i])) \/ i > s => fires'[i] = 0
    BY <1>2, <1>3 DEF Pending
  <2>3. ~doubt /\ ~unsaved' => \A i \in Ids : (i \in DOMAIN out /\ Pending(out[i])) \/ i > s => fires'[i] = 0
    BY <1>2, <1>3 DEF Pending
  <2> QED BY <1>1, <1>4, <2>1, <2>2, <2>3 DEF Fired
<1> QED BY <1>5, <1>6, <1>7, <1>8, <1>9, <1>10 DEF TInv

-----------------------------------------------------------------------------
(* One lemma for each operation.                                           *)

LEMMA TimersInit == Init => TInv
<1> SUFFICES ASSUME Init  PROVE TInv
  OBVIOUS
<1>1. DOMAIN items = {} /\ DOMAIN file.items = {} /\ file.seq = 0
  BY DEF Init
<1>2. TypeOK
  BY <1>1 DEF Init, TypeOK
<1>3. InMemory /\ Down /\ InFile /\ Saved /\ Buried
  BY <1>1 DEF Init, InMemory, Down, InFile, Saved, Buried
<1>4. Owed /\ Fired
  BY <1>1 DEF Init, Owed, TimeConserved, Fired, FiresOnce
<1> QED BY <1>2, <1>3, <1>4 DEF TInv

\* An item is new: its number has not been used.
LEMMA CreateKeeps ==
    ASSUME TInv, NEW it \in Item, Clocked(it), Create(it), owed' \in [Ids -> Nat],
           \A i \in Ids : i # seq + 1 => owed'[i] = owed[i],
           Counts(it) => Left(it) = owed'[seq + 1]
    PROVE  TInv'
<1> DEFINE n == seq + 1
           its == [i \in DOMAIN items \cup {n} |-> IF i = n THEN it ELSE items[i]]
<1>0. /\ up /\ up' = up /\ mono' = mono /\ wall' = wall /\ doubt' = doubt /\ events' = events /\ fires' = fires
      /\ seq \in Nat /\ seq < MaxItems /\ DOMAIN items \subseteq 1..seq /\ TypeOK
  BY DEF Create, clocks, TInv, TypeOK, InMemory
<1>1. /\ up /\ up' = up /\ mono' = mono /\ wall' = wall /\ doubt' = doubt /\ events' = events /\ fires' = fires
      /\ seq \in Nat /\ n \in Ids /\ n \in 1..n /\ DOMAIN items \subseteq 1..seq /\ TypeOK
  BY <1>0, TimerAssumption DEF Ids
<1>2. \A i \in DOMAIN items : i # n /\ i \in 1..n /\ i \in Ids /\ owed'[i] = owed[i] /\ items[i] \in Item /\ Clocked(items[i])
  BY <1>1 DEF TypeOK, TInv, InMemory
<1>3. Told'
  BY <1>1 DEF TypeOK, Told
<1>4. /\ DOMAIN its = DOMAIN items \cup {n} /\ its[n] = it /\ \A i \in DOMAIN items : its[i] = items[i]
  BY <1>2
<1>5. \A i \in buried : i \in DOMAIN items /\ items[i].status = "cancelled"
  BY <1>1 DEF TInv, Buried
<1>6. ~doubt => \A i \in DOMAIN items : Counts(items[i]) => Left(items[i]) = owed'[i]
  BY <1>1, <1>2 DEF TInv, Owed, TimeConserved, Counts
<1>7. ~doubt => \A i \in Ids : fires[i] <= 1 /\ ((i \in DOMAIN items /\ Pending(items[i])) \/ i > seq => fires[i] = 0)
  BY <1>1 DEF TInv, Fired, FiresOnce
<1>8. n > seq /\ \A i \in Ids : i > n => i > seq
  BY <1>1 DEF Ids
<1>9. \/ Persist(its, n)
      \/ seq' = n /\ unsaved' = TRUE /\ UNCHANGED <<items, file, buried, faults>>
  BY DEF Create
<1> HIDE DEF its, n
<1>10. CASE Persist(its, n)
  <2>1. n \in Nat /\ DOMAIN its \subseteq Ids /\ DOMAIN its \subseteq 1..n
    BY <1>1, <1>2, <1>4 DEF Ids
  <2>2. \A i \in DOMAIN its : its[i] \in Item /\ Clocked(its[i])
    BY <1>2, <1>4
  <2>3. \A i \in buried : i \in DOMAIN its /\ its[i].status = "cancelled"
    BY <1>4, <1>5
  <2>4. ~doubt => \A i \in DOMAIN its : Counts(its[i]) => Left(its[i]) = owed'[i]
    BY <1>4, <1>6 DEF n
  <2>5. ~doubt => \A i \in Ids : fires'[i] <= 1
    BY <1>1, <1>7
  <2>6. ~doubt => \A i \in Ids : (i \in DOMAIN its /\ Pending(its[i])) \/ i > n => fires'[i] = 0
    BY <1>1, <1>4, <1>7, <1>8
  <2>7. UNCHANGED clocks /\ UNCHANGED doubt /\ up
    BY <1>1 DEF clocks
  <2> QED BY <1>3, <1>10, <2>1, <2>2, <2>3, <2>4, <2>5, <2>6, <2>7, PersistKeeps
<1>11. CASE seq' = n /\ unsaved' = TRUE /\ UNCHANGED <<items, file, buried, faults>>
  <2>1. TypeOK'
    BY <1>1, <1>3, <1>11 DEF TypeOK, Told, Ids
  <2>2. InMemory' /\ Down' /\ InFile' /\ Saved' /\ Buried'
    BY <1>1, <1>2, <1>11 DEF TInv, InMemory, Down, InFile, Saved, Buried, Clocked
  <2>3. TimeConserved'
    BY <1>1, <1>6, <1>11 DEF TimeConserved, Counts, Left
  <2>4. FiresOnce' /\ Owed'
    BY <1>1, <1>7, <1>11, <2>3 DEF FiresOnce, Owed
  <2>5. Fired'
    BY <1>1, <1>7, <1>8, <1>11, <2>4 DEF Fired
  <2> QED BY <2>1, <2>2, <2>4, <2>5 DEF TInv
<1> QED BY <1>9, <1>10, <1>11

LEMMA CreateTimerKeeps == ASSUME TInv, NEW d \in Durations, CreateTimer(d)  PROVE TInv'
<1> DEFINE it == [kind |-> "timer", status |-> "running", left |-> d, started |-> mono, saved |-> wall]
<1>1. Create(it) /\ owed' = [owed EXCEPT ![seq + 1] = d]
  BY DEF CreateTimer
<1>2. mono \in Nat /\ wall \in Nat /\ seq \in Nat /\ owed \in [Ids -> Nat] /\ d \in Nat /\ seq < MaxItems
  BY <1>1, TimerAssumption DEF TInv, TypeOK, Create
<1>3. seq + 1 \in Ids
  BY <1>2, TimerAssumption DEF Ids
<1>4. it \in Item /\ Clocked(it)
  <2>1. it \in TimerItems
    BY <1>2 DEF TimerItems, TimerStatus
  <2> QED BY <1>2, <2>1, ItemsAre DEF Clocked
<1>5. Left(it) = d
  <2>1. Left(it) = NonNegative(d - NonNegative(mono - mono))
    BY DEF Left
  <2> QED BY <1>2, <2>1 DEF NonNegative
<1> HIDE DEF it
<1> QED BY <1>1, <1>2, <1>3, <1>4, <1>5, CreateKeeps

LEMMA CreateDatedKeeps ==
    ASSUME TInv, NEW delay \in Delays, CreateAlarm(delay) \/ \E c \in Cadences : CreateReminder(delay, c)
    PROVE  TInv'
<1>1. wall \in Nat /\ owed \in [Ids -> Nat] /\ wall + delay \in Nat
  BY TimerAssumption DEF TInv, TypeOK
<1>2. ASSUME NEW it \in AlarmItems \cup ReminderItems, Create(it), owed' = owed  PROVE TInv'
  <2>1. it \in Item /\ it.kind # "timer"
    BY ItemsAre DEF AlarmItems, ReminderItems
  <2>2. Clocked(it) /\ ~Counts(it)
    BY <2>1 DEF Clocked, Running, Counts
  <2> QED BY <1>1, <1>2, <2>1, <2>2, CreateKeeps
<1>3. CASE CreateAlarm(delay)
  <2> DEFINE it == [kind |-> "alarm", status |-> "scheduled", due |-> wall + delay]
  <2>1. it \in AlarmItems /\ Create(it) /\ owed' = owed
    BY <1>1, <1>3 DEF CreateAlarm, AlarmItems, DateStatus
  <2> HIDE DEF it
  <2> QED BY <1>2, <2>1
<1>4. ASSUME NEW c \in Cadences, CreateReminder(delay, c)  PROVE TInv'
  <2> DEFINE it == [kind |-> "reminder", status |-> "scheduled", due |-> wall + delay, every |-> c]
  <2>1. it \in ReminderItems /\ Create(it) /\ owed' = owed
    BY <1>1, <1>4, TimerAssumption DEF CreateReminder, ReminderItems, DateStatus
  <2> HIDE DEF it
  <2> QED BY <1>2, <2>1
<1> QED BY <1>3, <1>4

\* A record changes, of an item that was not cancelled.
LEMMA ChangeKeeps ==
    ASSUME TInv, up, NEW i \in DOMAIN items, NEW it \in Item, Clocked(it), Change(i, it),
           \A e \in events' : e.type \in {"fired", "cancelled"} /\ e.id \in Ids,
           items[i].status # "cancelled",
           Counts(it) => Counts(items[i]) /\ Left(it) = Left(items[i]),
           Pending(it) => Pending(items[i])
    PROVE  TInv'
<1> DEFINE its == [items EXCEPT ![i] = it]
<1>1. /\ TypeOK /\ InMemory /\ Buried /\ Owed /\ Fired /\ seq \in Nat
      /\ UNCHANGED clocks /\ UNCHANGED doubt /\ owed' = owed /\ fires' = fires /\ Persist(its, seq)
  BY DEF TInv, TypeOK, Change
<1>2. DOMAIN its = DOMAIN items /\ its[i] = it /\ \A j \in DOMAIN items : j # i => its[j] = items[j]
  OBVIOUS
<1> HIDE DEF its
<1>3. Told'
  BY <1>1 DEF TypeOK, Told
<1>4. DOMAIN its \subseteq Ids /\ DOMAIN its \subseteq 1..seq
  BY <1>1, <1>2 DEF TypeOK, InMemory
<1>5. \A j \in DOMAIN its : its[j] \in Item /\ Clocked(its[j])
  BY <1>1, <1>2 DEF TypeOK, InMemory
<1>6. \A j \in buried : j \in DOMAIN its /\ its[j].status = "cancelled"
  BY <1>1, <1>2 DEF Buried
<1>7. ~doubt => \A j \in DOMAIN its : Counts(its[j]) => Left(its[j]) = owed'[j]
  BY <1>1, <1>2 DEF Owed, TimeConserved, Counts
<1>8. ~doubt => \A j \in Ids : fires'[j] <= 1
  BY <1>1 DEF Fired, FiresOnce
<1>9. ~doubt => \A j \in Ids : (j \in DOMAIN its /\ Pending(its[j])) \/ j > seq => fires'[j] = 0
  BY <1>1, <1>2 DEF Fired
<1> QED BY <1>1, <1>3, <1>4, <1>5, <1>6, <1>7, <1>8, <1>9, PersistKeeps

LEMMA PauseKeeps == ASSUME TInv, NEW i \in DOMAIN items, Pause(i)  PROVE TInv'
<1> DEFINE it == [items[i] EXCEPT !.left = Left(items[i]), !.status = "paused", !.started = None]
<1>1. /\ up /\ Running(items[i]) /\ Change(i, it) /\ events' = events
      /\ items[i] \in Item /\ Clocked(items[i]) /\ mono \in Nat
      /\ \A e \in events : e.type \in {"fired", "cancelled"} /\ e.id \in Ids
  BY DEF Pause, TInv, TypeOK, InMemory
<1>2. items[i] \in TimerItems /\ items[i].status = "running" /\ Counts(items[i]) /\ items[i].kind = "timer"
  BY <1>1, ItemsAre DEF Running, Counts
<1>3. Left(items[i]) \in Nat
  BY <1>1, <1>2, LeftIsNat
<1>4. it \in TimerItems /\ it.status = "paused" /\ it.left = Left(items[i])
  BY <1>2, <1>3 DEF TimerItems, TimerStatus
<1> HIDE DEF it
<1>5. it \in Item /\ Clocked(it) /\ Left(it) = Left(items[i])
  BY <1>4, ItemsAre DEF Clocked, Running, Left
<1> QED BY <1>1, <1>2, <1>5, ChangeKeeps DEF Pending

LEMMA ResumeKeeps == ASSUME TInv, NEW i \in DOMAIN items, Resume(i)  PROVE TInv'
<1> DEFINE it == [items[i] EXCEPT !.status = "running", !.started = mono, !.saved = wall]
<1>1. /\ up /\ items[i].kind = "timer" /\ items[i].status = "paused" /\ Change(i, it) /\ events' = events
      /\ items[i] \in Item /\ mono \in Nat /\ wall \in Nat
      /\ \A e \in events : e.type \in {"fired", "cancelled"} /\ e.id \in Ids
  BY DEF Resume, TInv, TypeOK
<1>2. items[i] \in TimerItems /\ Counts(items[i]) /\ Left(items[i]) = items[i].left /\ items[i].left \in Nat
  BY <1>1, ItemsAre DEF Counts, Left, TimerItems
<1>3. it \in TimerItems /\ it.status = "running" /\ it.left = items[i].left /\ it.started = mono
  BY <1>1, <1>2 DEF TimerItems, TimerStatus
<1> HIDE DEF it
<1>4. it \in Item /\ Clocked(it)
  BY <1>1, <1>3, ItemsAre DEF Clocked
<1>5. Left(it) = Left(items[i])
  <2>1. Left(it) = NonNegative(items[i].left - NonNegative(mono - mono))
    BY <1>3 DEF Left
  <2> QED BY <1>1, <1>2, <2>1 DEF NonNegative
<1> QED BY <1>1, <1>2, <1>4, <1>5, ChangeKeeps DEF Pending

LEMMA CancelKeeps == ASSUME TInv, NEW i \in DOMAIN items, Cancel(i)  PROVE TInv'
<1> DEFINE it == [items[i] EXCEPT !.status = "cancelled"]
<1>1. /\ up /\ items[i].status # "cancelled" /\ Change(i, it) /\ items[i] \in Item /\ i \in Ids
      /\ events' = events \cup {[type |-> "cancelled", id |-> i]}
      /\ \A e \in events : e.type \in {"fired", "cancelled"} /\ e.id \in Ids
  BY DEF Cancel, TInv, TypeOK
<1>2. it \in Item /\ it.status = "cancelled"
  <2>1. CASE items[i] \in TimerItems
    <3>1. it \in TimerItems /\ it.status = "cancelled"
      BY <2>1 DEF TimerItems, TimerStatus
    <3> QED BY <3>1, ItemsAre
  <2>2. CASE items[i] \in AlarmItems
    <3>1. it \in AlarmItems /\ it.status = "cancelled"
      BY <2>2 DEF AlarmItems, DateStatus
    <3> QED BY <3>1, ItemsAre
  <2>3. CASE items[i] \in ReminderItems
    <3>1. it \in ReminderItems /\ it.status = "cancelled"
      BY <2>3 DEF ReminderItems, DateStatus
    <3> QED BY <3>1, ItemsAre
  <2> QED BY <1>1, <2>1, <2>2, <2>3, ItemsAre
<1> HIDE DEF it
<1>3. Clocked(it) /\ ~Counts(it) /\ ~Pending(it)
  BY <1>2 DEF Clocked, Running, Counts, Pending
<1>4. \A e \in events' : e.type \in {"fired", "cancelled"} /\ e.id \in Ids
  BY <1>1
<1> QED BY <1>1, <1>2, <1>3, <1>4, ChangeKeeps

-----------------------------------------------------------------------------
(* Polling.                                                                *)

\* The first multiple that is greater.
LEMMA NextMultiple ==
    ASSUME NEW late \in Nat, NEW every \in Nat \ {0}
    PROVE  /\ every * (late \div every + 1) \in Nat
           /\ every * (late \div every + 1) > late
<1>0. late % every \in 0..(every - 1)
  OBVIOUS
<1>a. late = every * (late \div every) + (late % every)
  OBVIOUS
<1>b. late \div every \in Nat
  OBVIOUS
<1>1. late \div every \in Nat /\ late = every * (late \div every) + (late % every) /\ late % every < every
  BY <1>0, <1>a, <1>b
<1> DEFINE q == late \div every
<1>2. q \in Nat /\ late < every * q + every
  BY <1>1
<1> HIDE DEF q
<1>3. every * (q + 1) = every * q + every
  BY <1>2
<1>4. every * q \in Nat
  BY <1>2
<1> QED BY <1>2, <1>3, <1>4 DEF q

LEMMA NextIsLater ==
    ASSUME wall \in Nat, NEW it \in ReminderItems, it.due <= wall
    PROVE  NextOccurrence(it) \in Nat /\ NextOccurrence(it) > wall
<1> DEFINE jump == it.every * ((wall - it.due) \div it.every + 1)
<1>1. it.due \in Nat /\ it.every \in Nat \ {0} /\ wall - it.due \in Nat
  BY DEF ReminderItems
<1>2. jump \in Nat /\ jump > wall - it.due
  BY <1>1, NextMultiple
<1>3. NextOccurrence(it) = it.due + jump
  BY DEF NextOccurrence
<1> HIDE DEF jump
<1> QED BY <1>1, <1>2, <1>3

\* What came due is over, or comes again, and not now.
LEMMA PassedIs ==
    ASSUME wall \in Nat, NEW it \in Item, Due(it)
    PROVE  /\ Passed(it) \in Item /\ Clocked(Passed(it)) /\ Passed(it).kind = it.kind
           /\ ~Counts(Passed(it)) /\ ~Due(Passed(it)) /\ Passed(it).status # "running"
           /\ Pending(Passed(it)) => it.kind = "reminder"
           /\ it.status # "cancelled" /\ Pending(it)
<1> DEFINE p == Passed(it)
<1>1. it.status \in {"running", "scheduled"} /\ (it.kind # "timer" => it.due <= wall)
  BY DEF Due
<1>2. CASE it \in TimerItems
  <2>1. p = [it EXCEPT !.status = "fired"]
    BY <1>2 DEF Passed, TimerItems
  <2>2. p \in TimerItems /\ p.status = "fired"
    BY <1>2, <2>1 DEF TimerItems, TimerStatus
  <2> HIDE DEF p
  <2>3. p \in Item /\ p.kind = it.kind
    BY <1>2, <2>2, ItemsAre DEF TimerItems
  <2> QED BY <1>1, <2>2, <2>3 DEF p, Clocked, Running, Counts, Due, Pending
<1>3. CASE it \in AlarmItems
  <2>1. p = [it EXCEPT !.status = "fired"]
    BY <1>3 DEF Passed, AlarmItems
  <2>2. p \in AlarmItems /\ p.status = "fired"
    BY <1>3, <2>1 DEF AlarmItems, DateStatus
  <2> HIDE DEF p
  <2>3. p \in Item /\ p.kind = it.kind
    BY <1>3, <2>2, ItemsAre DEF AlarmItems
  <2> QED BY <1>1, <2>2, <2>3 DEF p, Clocked, Running, Counts, Due, Pending
<1>4. CASE it \in ReminderItems
  <2>1. p = [it EXCEPT !.due = NextOccurrence(it)] /\ it.kind = "reminder" /\ it.due <= wall
    BY <1>1, <1>4 DEF Passed, ReminderItems
  <2>2. NextOccurrence(it) \in Nat /\ NextOccurrence(it) > wall
    BY <1>4, <2>1, NextIsLater
  <2>3. p \in ReminderItems /\ p.status = it.status /\ p.due = NextOccurrence(it) /\ p.kind = "reminder"
    BY <1>4, <2>1, <2>2 DEF ReminderItems
  <2> HIDE DEF p
  <2>4. p \in Item /\ ~(p.due <= wall) /\ p.status \in DateStatus /\ "running" \notin DateStatus
    BY <2>2, <2>3, ItemsAre DEF ReminderItems, DateStatus
  <2> QED BY <1>1, <2>1, <2>3, <2>4 DEF p, Clocked, Running, Counts, Due, Pending
<1> QED BY <1>2, <1>3, <1>4, ItemsAre

Overdue == {i \in DOMAIN items : Due(items[i])}
Firing == {i \in Overdue : MissedPolicy = "fire_once" \/ items[i].kind = "timer"}
Polled == [i \in DOMAIN items |-> IF i \in Overdue THEN Passed(items[i]) ELSE items[i]]

LEMMA PollIs ==
    ASSUME PollDue
    PROVE  /\ up /\ UNCHANGED clocks /\ UNCHANGED owed /\ UNCHANGED doubt
           /\ events' = events \cup [type : {"fired"}, id : Firing]
           /\ fires' = [i \in Ids |-> IF i \in Firing /\ items[i].kind # "reminder" THEN fires[i] + 1 ELSE fires[i]]
           /\ \/ Persist(Polled, seq)
              \/ Firing = {} /\ items' = Polled /\ unsaved' = (unsaved \/ Overdue # {})
                 /\ UNCHANGED <<seq, file, buried, faults>>
  BY DEF PollDue, Overdue, Firing, Polled

LEMMA PolledAre ==
    ASSUME TInv, up
    PROVE  /\ DOMAIN Polled = DOMAIN items
           /\ \A i \in DOMAIN items :
                  /\ Polled[i] \in Item /\ Clocked(Polled[i]) /\ ~Due(Polled[i]) /\ Polled[i].kind = items[i].kind
                  /\ Counts(Polled[i]) => i \notin Overdue /\ Polled[i] = items[i]
                  /\ Pending(Polled[i]) => Pending(items[i]) /\ (i \in Overdue => items[i].kind = "reminder")
                  /\ i \notin Overdue => Polled[i] = items[i]
                  /\ i \in Overdue => items[i].status # "cancelled" /\ Pending(items[i])
<1>1. wall \in Nat /\ \A i \in DOMAIN items : items[i] \in Item /\ Clocked(items[i])
  BY DEF TInv, TypeOK, InMemory
<1>2. DOMAIN Polled = DOMAIN items
  BY DEF Polled
<1>3. ASSUME NEW i \in DOMAIN items, i \in Overdue  PROVE Polled[i] = Passed(items[i]) /\ Due(items[i])
  BY <1>3 DEF Polled, Overdue
<1>4. ASSUME NEW i \in DOMAIN items, i \notin Overdue  PROVE Polled[i] = items[i] /\ ~Due(items[i])
  BY <1>4 DEF Polled, Overdue
<1>5. ASSUME NEW i \in DOMAIN items
      PROVE  /\ Polled[i] \in Item /\ Clocked(Polled[i]) /\ ~Due(Polled[i]) /\ Polled[i].kind = items[i].kind
             /\ Counts(Polled[i]) => i \notin Overdue /\ Polled[i] = items[i]
             /\ Pending(Polled[i]) => Pending(items[i]) /\ (i \in Overdue => items[i].kind = "reminder")
             /\ i \notin Overdue => Polled[i] = items[i]
             /\ i \in Overdue => items[i].status # "cancelled" /\ Pending(items[i])
  <2>1. CASE i \in Overdue
    <3>1. Polled[i] = Passed(items[i]) /\ Due(items[i]) /\ items[i] \in Item
      BY <1>1, <1>3, <2>1
    <3> QED BY <1>1, <2>1, <3>1, PassedIs
  <2>2. CASE i \notin Overdue
    BY <1>1, <1>4, <2>2
  <2> QED BY <2>1, <2>2
<1> QED BY <1>2, <1>5

LEMMA PollKeeps == TInv /\ PollDue => TInv'
<1> SUFFICES ASSUME TInv, PollDue  PROVE TInv'
  OBVIOUS
<1>1. /\ TypeOK /\ up /\ UNCHANGED clocks /\ UNCHANGED doubt /\ owed' = owed /\ seq \in Nat
      /\ DOMAIN items \subseteq Ids /\ DOMAIN items \subseteq 1..seq
      /\ \A i \in DOMAIN items : Clocked(items[i])
      /\ fires \in [Ids -> Nat] /\ fires' \in [Ids -> Nat]
  BY PollIs DEF TInv, TypeOK, InMemory
<1>2. Told'
  BY <1>1, PollIs DEF TypeOK, Told, Firing, Overdue
<1>3. DOMAIN Polled \subseteq Ids /\ DOMAIN Polled \subseteq 1..seq
  BY <1>1, PolledAre
<1>4. \A i \in DOMAIN Polled : Polled[i] \in Item /\ Clocked(Polled[i])
  BY <1>1, PolledAre
<1>5. \A i \in buried : i \in DOMAIN Polled /\ Polled[i].status = "cancelled"
  <2>1. \A i \in buried : i \in DOMAIN items /\ items[i].status = "cancelled"
    BY <1>1 DEF TInv, Buried
  <2> QED BY <1>1, <2>1, PolledAre
<1>6. ~doubt => \A i \in DOMAIN Polled : Counts(Polled[i]) => Left(Polled[i]) = owed'[i]
  <2>1. ~doubt => \A i \in DOMAIN items : Counts(items[i]) => Left(items[i]) = owed[i]
    BY <1>1 DEF TInv, Owed, TimeConserved, Counts
  <2> QED BY <1>1, <2>1, PolledAre
<1>7. /\ ~doubt => \A i \in Ids : fires'[i] <= 1
      /\ ~doubt => \A i \in Ids : (i \in DOMAIN Polled /\ Pending(Polled[i])) \/ i > seq => fires'[i] = 0
  <2> SUFFICES ASSUME ~doubt, NEW i \in Ids
               PROVE  /\ fires'[i] <= 1
                      /\ (i \in DOMAIN Polled /\ Pending(Polled[i])) \/ i > seq => fires'[i] = 0
    OBVIOUS
  <2>1. /\ fires[i] \in Nat /\ fires[i] <= 1
        /\ (i \in DOMAIN items /\ Pending(items[i])) \/ i > seq => fires[i] = 0
    BY <1>1 DEF TInv, Fired, FiresOnce
  <2>2. CASE i \in Firing /\ items[i].kind # "reminder"
    <3>1. i \in Overdue /\ i \in DOMAIN items
      BY <2>2 DEF Firing, Overdue
    <3>2. Pending(items[i]) /\ ~Pending(Polled[i]) /\ i \in 1..seq
      BY <1>1, <2>2, <3>1, PolledAre
    <3>3. fires'[i] = fires[i] + 1
      BY <2>2, PollIs
    <3> QED BY <1>1, <2>1, <3>1, <3>2, <3>3
  <2>3. CASE ~(i \in Firing /\ items[i].kind # "reminder")
    <3>1. fires'[i] = fires[i]
      BY <2>3, PollIs
    <3> QED BY <1>1, <2>1, <3>1, PolledAre
  <2> QED BY <2>2, <2>3
<1>8. CASE Persist(Polled, seq)
  BY <1>1, <1>2, <1>3, <1>4, <1>5, <1>6, <1>7, <1>8, PersistKeeps
<1>9. CASE /\ Firing = {} /\ items' = Polled /\ unsaved' = (unsaved \/ Overdue # {})
           /\ UNCHANGED <<seq, file, buried, faults>>
  <2>0. /\ up' = up /\ mono' = mono /\ wall' = wall /\ doubt' = doubt /\ unsaved \in BOOLEAN /\ unsaved' \in BOOLEAN
        /\ UNCHANGED <<seq, file, buried, faults>> /\ items' = Polled
        /\ DOMAIN Polled = DOMAIN items
        /\ (~unsaved' => ~unsaved /\ Overdue = {})
    BY <1>1, <1>9, PolledAre DEF clocks, TypeOK
  <2>1. TypeOK'
    BY <1>1, <1>2, <1>3, <1>4, <2>0 DEF TypeOK, Told
  <2>2. InMemory' /\ Down' /\ InFile' /\ Buried'
    BY <1>1, <1>3, <1>4, <1>5, <2>0 DEF TInv, InMemory, Down, InFile, Buried, Clocked
  <2>3. ~unsaved' => \A i \in DOMAIN items : Polled[i] = items[i]
    BY <1>1, <2>0, PolledAre
  <2>4. Saved'
    BY <1>1, <2>0, <2>3 DEF TInv, Saved
  <2>5. fires' = fires
    BY <1>1, <1>9, PollIs
  <2>6. TimeConserved'
    BY <1>1, <1>6, <2>0 DEF TimeConserved, Counts, Left
  <2>7. Owed'
    BY <1>1, <2>0, <2>6 DEF TInv, Owed, LeftInFile
  <2>8. Fired'
    BY <1>1, <1>7, <2>0, <2>5 DEF TInv, Fired, FiresOnce
  <2> QED BY <2>1, <2>2, <2>4, <2>7, <2>8 DEF TInv
<1> QED BY <1>8, <1>9, PollIs

-----------------------------------------------------------------------------
(* The world, and the end of the process.                                  *)

\* What _load makes of an item.
LoadedItem(it) ==
    IF Running(it)
    THEN [it EXCEPT !.left = NonNegative(@ - NonNegative(wall - it.saved)), !.started = mono, !.saved = wall]
    ELSE it

LEMMA LoadedKeeps ==
    ASSUME mono \in Nat, wall \in Nat, NEW it \in Item
    PROVE  /\ LoadedItem(it) \in Item /\ Clocked(LoadedItem(it))
           /\ LoadedItem(it).kind = it.kind /\ LoadedItem(it).status = it.status
           /\ Counts(it) => Left(LoadedItem(it)) = LeftInFile(it)
<1> DEFINE left == NonNegative(it.left - NonNegative(wall - it.saved))
           new == [it EXCEPT !.left = left, !.started = mono, !.saved = wall]
<1>1. CASE ~Running(it)
  <2>1. LoadedItem(it) = it /\ Clocked(it)
    BY <1>1 DEF LoadedItem, Clocked
  <2>2. Counts(it) => it.status = "paused"
    BY <1>1 DEF Counts, Running
  <2> QED BY <2>1, <2>2 DEF Left, LeftInFile
<1>2. CASE Running(it)
  <2>1. it \in TimerItems /\ it.kind = "timer" /\ it.status = "running"
    BY <1>2, ItemsAre DEF Running
  <2>2. left \in Nat
    BY <2>1 DEF TimerItems, NonNegative
  <2>3. left = LeftInFile(it)
    BY <2>1 DEF LeftInFile
  <2> HIDE DEF left
  <2>4. /\ new \in TimerItems /\ new.kind = "timer" /\ new.status = "running" /\ new.left = left /\ new.started = mono
    BY <2>1, <2>2 DEF TimerItems
  <2>5. LoadedItem(it) = new
    BY <1>2 DEF LoadedItem, left
  <2> HIDE DEF new
  <2>6. Left(new) = NonNegative(left - NonNegative(mono - mono))
    BY <2>4 DEF Left
  <2>7. Left(new) = left
    BY <2>2, <2>6 DEF NonNegative
  <2>8. Clocked(new) /\ new \in Item
    BY <2>4, ItemsAre DEF Clocked
  <2> QED BY <2>1, <2>3, <2>4, <2>5, <2>7, <2>8
<1> QED BY <1>1, <1>2

LEMMA StartKeeps == TInv /\ Start => TInv'
<1> SUFFICES ASSUME TInv, Start  PROVE TInv'
  OBVIOUS
<1> DEFINE its == Loaded(file.items)
<1>1. /\ ~up /\ up' = TRUE /\ items' = its /\ seq' = file.seq
      /\ UNCHANGED <<mono, wall, events, file, faults, owed, fires, buried, doubt, unsaved>>
      /\ TypeOK /\ mono \in Nat /\ wall \in Nat /\ ~unsaved
  BY DEF Start, history, TInv, TypeOK, Down
<1>2. DOMAIN its = DOMAIN file.items /\ \A i \in DOMAIN file.items : its[i] = LoadedItem(file.items[i])
  BY DEF Loaded, LoadedItem
<1>3. ASSUME NEW i \in DOMAIN file.items
      PROVE  /\ its[i] \in Item /\ Clocked(its[i])
             /\ its[i].kind = file.items[i].kind /\ its[i].status = file.items[i].status
             /\ Counts(file.items[i]) => Left(its[i]) = LeftInFile(file.items[i])
  <2>1. file.items[i] \in Item
    BY <1>1 DEF TypeOK
  <2> QED BY <1>1, <1>2, <2>1, LoadedKeeps
<1> HIDE DEF its
<1>4. TypeOK'
  BY <1>1, <1>2, <1>3 DEF TypeOK
<1>5. InMemory' /\ Down' /\ InFile' /\ Saved' /\ Buried'
  BY <1>1, <1>2, <1>3 DEF TInv, InMemory, Down, InFile, Saved, Buried, Clocked
<1>6. TimeConserved'
  <2> SUFFICES ASSUME ~doubt, NEW i \in DOMAIN its, its[i].kind = "timer", its[i].status \in {"running", "paused"}
               PROVE  Left(items[i])' = owed[i]
    BY <1>1, <1>2 DEF TimeConserved
  <2>1. Counts(file.items[i]) /\ i \in DOMAIN file.items
    BY <1>2, <1>3 DEF Counts
  <2>2. Left(its[i]) = owed[i]
    BY <1>1, <1>3, <2>1 DEF TInv, Owed
  <2> QED BY <1>1, <2>2 DEF Left
<1>7. Owed'
  BY <1>1, <1>6 DEF TInv, Owed, LeftInFile
<1>8. Fired'
  BY <1>1, <1>2, <1>3 DEF TInv, Fired, FiresOnce, Pending
<1> QED BY <1>4, <1>5, <1>7, <1>8 DEF TInv

LEMMA EndKeeps == TInv /\ End => TInv'
<1> SUFFICES ASSUME TInv, End  PROVE TInv'
  OBVIOUS
<1>1. /\ up /\ up' = FALSE /\ items' = <<>> /\ seq' = 0 /\ events' = {} /\ unsaved' = FALSE
      /\ doubt' \in BOOLEAN /\ (~doubt' => ~doubt /\ ~unsaved)
      /\ UNCHANGED <<mono, wall, file, faults, owed, fires, buried>> /\ TypeOK
  BY DEF End, TInv, TypeOK
<1>2. DOMAIN items' = {}
  BY <1>1
<1>3. TypeOK'
  BY <1>1, <1>2 DEF TypeOK
<1>4. InMemory' /\ Down' /\ InFile' /\ Saved' /\ Buried'
  BY <1>1, <1>2 DEF TInv, InMemory, Down, InFile, Saved, Buried
<1>5. Owed' /\ Fired'
  BY <1>1 DEF TInv, Owed, TimeConserved, LeftInFile, Fired, FiresOnce
<1> QED BY <1>3, <1>4, <1>5 DEF TInv

LEMMA SetClockKeeps == TInv /\ SetClock => TInv'
<1> SUFFICES ASSUME TInv, SetClock  PROVE TInv'
  OBVIOUS
<1>1. /\ wall' \in 0..MaxTime /\ faults' = faults + 1 /\ doubt' = TRUE
      /\ UNCHANGED <<up, mono, items, seq, events, file, owed, fires, buried, unsaved>>
  BY DEF SetClock, Fault
<1>2. TypeOK'
  BY <1>1, TimerAssumption DEF TInv, TypeOK
<1>3. InMemory' /\ Down' /\ InFile' /\ Saved' /\ Buried'
  BY <1>1 DEF TInv, InMemory, Down, InFile, Saved, Buried, Clocked
<1>4. Owed' /\ Fired'
  BY <1>1 DEF Owed, TimeConserved, Fired, FiresOnce
<1> QED BY <1>2, <1>3, <1>4 DEF TInv

\* Time passes: a running timer has less to run, by either clock.
LEMMA TickRuns ==
    ASSUME NEW n \in Nat, NEW from \in Nat, NEW now \in Nat, from <= now
    PROVE  NonNegative(n - NonNegative((now + 1) - from)) = NonNegative(NonNegative(n - NonNegative(now - from)) - 1)
  BY DEF NonNegative

LEMMA TickKeeps == TInv /\ Tick => TInv'
<1> SUFFICES ASSUME TInv, Tick  PROVE TInv'
  OBVIOUS
<1>1. /\ mono' = mono + 1 /\ wall' = wall + 1 /\ mono \in Nat /\ wall \in Nat /\ TypeOK
      /\ owed' = [i \in Ids |-> IF i \in DOMAIN Known /\ Running(Known[i]) THEN NonNegative(owed[i] - 1) ELSE owed[i]]
      /\ UNCHANGED <<up, items, seq, events, file, faults, fires, buried, unsaved, doubt>>
      /\ DOMAIN items \subseteq Ids /\ DOMAIN file.items \subseteq Ids
  BY DEF Tick, TInv, TypeOK
<1>2. owed \in [Ids -> Nat] /\ owed' \in [Ids -> Nat]
  BY <1>1 DEF TypeOK, NonNegative
<1>3. TypeOK'
  BY <1>1, <1>2 DEF TypeOK
<1>4. InMemory'
  <2>1. \A it : Clocked(it) => (Running(it) => it.started \in 0..mono')
    BY <1>1 DEF Clocked
  <2> QED BY <1>1, <2>1 DEF TInv, InMemory, Clocked
<1>5. Down' /\ InFile' /\ Saved' /\ Buried'
  BY <1>1 DEF TInv, Down, InFile, Saved, Buried
<1>6. TimeConserved'
  <2> SUFFICES ASSUME up, ~doubt, NEW i \in DOMAIN items, items[i].kind = "timer", items[i].status \in {"running", "paused"}
               PROVE  Left(items[i])' = owed'[i]
    BY <1>1 DEF TimeConserved
  <2>1. items[i] \in TimerItems /\ i \in Ids /\ Left(items[i]) = owed[i] /\ Clocked(items[i]) /\ Known = items
    BY <1>1, ItemsAre DEF TInv, TypeOK, Owed, TimeConserved, InMemory, Known
  <2>2. CASE items[i].status = "paused"
    BY <1>1, <2>1, <2>2 DEF Left, Running
  <2>3. CASE items[i].status = "running"
    <3>1. Running(items[i]) /\ items[i].started \in 0..mono /\ items[i].left \in Nat
      BY <2>1, <2>3 DEF Running, Clocked, TimerItems
    <3>2. owed'[i] = NonNegative(owed[i] - 1)
      BY <1>1, <2>1, <3>1
    <3>3. Left(items[i]) = NonNegative(items[i].left - NonNegative(mono - items[i].started))
      BY <2>3 DEF Left
    <3>4. Left(items[i])' = NonNegative(items[i].left - NonNegative((mono + 1) - items[i].started))
      BY <1>1, <2>3 DEF Left
    <3>5. items[i].started \in Nat /\ items[i].started <= mono
      BY <1>1, <3>1
    <3>6. NonNegative(items[i].left - NonNegative((mono + 1) - items[i].started))
            = NonNegative(NonNegative(items[i].left - NonNegative(mono - items[i].started)) - 1)
      BY <1>1, <3>1, <3>5, TickRuns
    <3> QED BY <2>1, <3>2, <3>3, <3>4, <3>6
  <2> QED BY <1>1, <2>2, <2>3
<1>7. Owed'
  <2> SUFFICES ASSUME ~unsaved, ~doubt, NEW i \in DOMAIN file.items
               PROVE  /\ Running(file.items[i]) => file.items[i].saved <= wall + 1
                      /\ Counts(file.items[i]) => LeftInFile(file.items[i])' = owed'[i]
    BY <1>1, <1>6 DEF Owed
  <2> DEFINE it == file.items[i]
  <2>1. /\ it \in Item /\ i \in Ids /\ (Running(it) => it.saved <= wall) /\ (Counts(it) => LeftInFile(it) = owed[i])
    BY <1>1 DEF TInv, TypeOK, Owed
  <2>2. i \in DOMAIN Known /\ Known[i].kind = it.kind /\ Known[i].status = it.status
    BY <1>1 DEF TInv, Saved, Known
  <2>3. it' = it
    BY <1>1
  <2> HIDE DEF it
  <2>4. CASE Running(it)
    <3>1. it \in TimerItems /\ it.status = "running" /\ Counts(it)
      BY <2>1, <2>4, ItemsAre DEF Running, Counts
    <3>2. it.left \in Nat /\ it.saved \in Nat /\ it.saved <= wall
      BY <2>1, <2>4, <3>1 DEF TimerItems
    <3>3. owed'[i] = NonNegative(owed[i] - 1)
      BY <1>1, <2>1, <2>2, <2>4 DEF Running
    <3>4. LeftInFile(it) = NonNegative(it.left - NonNegative(wall - it.saved))
      BY <3>1 DEF LeftInFile
    <3>5. LeftInFile(it)' = NonNegative(it.left - NonNegative((wall + 1) - it.saved))
      BY <1>1, <2>3, <3>1 DEF LeftInFile
    <3>6. NonNegative(it.left - NonNegative((wall + 1) - it.saved))
            = NonNegative(NonNegative(it.left - NonNegative(wall - it.saved)) - 1)
      BY <1>1, <3>2, TickRuns
    <3>7. LeftInFile(it)' = owed'[i]
      BY <2>1, <3>1, <3>3, <3>4, <3>5, <3>6
    <3>8. it.saved <= wall + 1
      BY <1>1, <3>2
    <3> QED BY <3>7, <3>8 DEF it
  <2>5. CASE ~Running(it)
    <3>1. owed'[i] = owed[i]
      BY <1>1, <2>1, <2>2, <2>5 DEF Running
    <3>2. Counts(it) => it.status = "paused"
      BY <2>5 DEF Counts, Running
    <3>3. Counts(it) => LeftInFile(it)' = LeftInFile(it)
      BY <2>3, <3>2 DEF LeftInFile
    <3> QED BY <2>1, <2>5, <3>1, <3>3 DEF it
  <2> QED BY <2>4, <2>5
<1>8. Fired'
  BY <1>1 DEF TInv, Fired, FiresOnce
<1> QED BY <1>3, <1>4, <1>5, <1>7, <1>8 DEF TInv

-----------------------------------------------------------------------------
LEMMA TimersStep == TInv /\ [Next]_vars => TInv'
<1> SUFFICES ASSUME TInv, [Next]_vars  PROVE TInv'
  OBVIOUS
<1>1. CASE UNCHANGED <<items, seq, file, faults, up, mono, wall, owed, fires, buried, doubt, unsaved>> /\ events' \in {events, {}}
  BY <1>1 DEF TInv, TypeOK, InMemory, Clocked, Down, InFile, Saved, Buried, Owed, TimeConserved, Left, LeftInFile, Fired, FiresOnce
<1>2. CASE DrainEvents
  BY <1>1, <1>2 DEF DrainEvents, clocks, history
<1>3. CASE UNCHANGED vars
  BY <1>1, <1>3 DEF vars, history
<1>4. CASE Operation /\ ~DrainEvents
  BY <1>4, CreateTimerKeeps, CreateDatedKeeps, PauseKeeps, ResumeKeeps, CancelKeeps, PollKeeps DEF Operation
<1> QED BY <1>2, <1>3, <1>4, TickKeeps, SetClockKeeps, EndKeeps, StartKeeps DEF Next

\* For any policy, durations, delays, cadences and bounds: the state of the plugin and its
\* file keep their types, whatever fails to be saved and whenever the process ends.
THEOREM TimersTyped == Spec => []TypeOK
<1>1. TInv => TypeOK
  BY DEF TInv
<1> QED BY <1>1, TimersInit, TimersStep, PTL DEF Spec

\* Through any sequence of saves, pauses, restarts and downtime a timer has exactly the time
\* left that it has not run, by both clocks of TimerStore.
THEOREM TimeIsConserved == Spec => []TimeConserved
<1>1. TInv => TimeConserved
  BY DEF TInv, Owed
<1> QED BY <1>1, TimersInit, TimersStep, PTL DEF Spec

\* poll_due fires a timer or an alarm once, also across restarts.
THEOREM TimersFireOnce == Spec => []FiresOnce
<1>1. TInv => FiresOnce
  BY DEF TInv, Fired
<1> QED BY <1>1, TimersInit, TimersStep, PTL DEF Spec

\* Only poll_due fires, and what is cancelled in the file is cancelled in memory.
THEOREM CancelsAreFinal == Spec => CancelIsFinal
<1>1. TInv /\ [Next]_vars => [\A e \in events' \ events : e.type = "fired" => e.id \notin buried]_vars
  <2> SUFFICES ASSUME TInv, Next, NEW e \in events' \ events, e.type = "fired"  PROVE e.id \notin buried
    OBVIOUS
  <2>1. PollDue
    <3>1. ~(UNCHANGED events \/ events' = {})
      OBVIOUS
    <3>2. ASSUME NEW i \in DOMAIN items  PROVE ~(Pause(i) \/ Resume(i) \/ Cancel(i))
      BY <3>1 DEF Pause, Resume, Cancel
    <3>3. ASSUME NEW it  PROVE ~Create(it)
      BY <3>1 DEF Create
    <3>4. ~DrainEvents /\ ~Tick /\ ~SetClock /\ ~End /\ ~Start
      BY <3>1 DEF DrainEvents, Tick, SetClock, End, Start
    <3> QED BY <3>2, <3>3, <3>4 DEF Next, Operation, CreateTimer, CreateAlarm, CreateReminder
  <2>2. up /\ e.id \in Firing
    BY <2>1, PollIs
  <2>3. e.id \in Overdue /\ e.id \in DOMAIN items
    BY <2>2 DEF Firing, Overdue
  <2>4. items[e.id].status # "cancelled"
    BY <2>2, <2>3, PolledAre
  <2> QED BY <2>2, <2>4 DEF TInv, Buried
<1> QED BY <1>1, TimersInit, TimersStep, PTL DEF Spec, CancelIsFinal

\* A poll fires or moves everything that is due, and nothing that it writes is due again.
THEOREM PollsLeaveNothingDue == Spec => PollLeavesNothingDue
<1>1. TInv /\ [Next]_vars => [PollDue => \A i \in DOMAIN items : ~Due(items[i])']_vars
  <2> SUFFICES ASSUME TInv, PollDue, NEW i \in DOMAIN items  PROVE ~Due(items[i])'
    OBVIOUS
  <2>1. up /\ UNCHANGED <<mono, wall>> /\ (Persist(Polled, seq) \/ items' = Polled)
    BY PollIs DEF clocks
  <2>2. /\ DOMAIN Polled = DOMAIN items /\ Polled[i] \in Item /\ Clocked(Polled[i]) /\ ~Due(Polled[i])
    BY <2>1, PolledAre
  <2>3. items'[i] = Polled[i] \/ items'[i] = RefreshedItem(Polled[i])
    BY <2>1, <2>2, RefreshedAre DEF Persist
  <2>4. ~Due(RefreshedItem(Polled[i]))
    <3> DEFINE it == Polled[i]
    <3>1. /\ RefreshedItem(it) \in Item /\ RefreshedItem(it).kind = it.kind /\ RefreshedItem(it).status = it.status
          /\ Counts(it) => Left(RefreshedItem(it)) = Left(it)
          /\ ~Running(it) => RefreshedItem(it) = it
      BY <2>2, RefreshedKeeps DEF TInv, TypeOK
    <3>2. it.kind \in Kinds /\ (it.kind = "timer" => it.status \in TimerStatus)
      BY <2>2, ItemsAre DEF TimerItems, AlarmItems, ReminderItems, Kinds
    <3>3. it.kind = "timer" /\ it.status = "running" <=> Running(it)
      BY DEF Running
    <3> QED BY <2>2, <3>1, <3>2, <3>3 DEF Due, Counts, Running, TimerStatus
  <2>5. Due(items[i])' <=> Due(items'[i])
    BY <2>1 DEF Due, Left
  <2> QED BY <2>2, <2>3, <2>4, <2>5
<1> QED BY <1>1, TimersInit, TimersStep, PTL DEF Spec, PollLeavesNothingDue

=============================================================================
