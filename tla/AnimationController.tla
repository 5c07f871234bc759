------------------------- MODULE AnimationController -------------------------
(***************************************************************************)
(* Playback state of the avatar plugin's AnimationController, as operators *)
(* on a controller record.  The controller decides which semantic clip     *)
(* plays, bounds the queue of pending clips and falls back to a safe idle  *)
(* clip; it never talks to the renderer.  Each operation returns the new   *)
(* controller and the play commands the caller must send.                  *)
(*                                                                         *)
(* Speeds, durations and cross-fades are data nothing here depends on, and *)
(* the seeded shuffle of the idle bag is abstracted to "some clip of the   *)
(* bag", which the caller chooses.                                         *)
(***************************************************************************)
EXTENDS Integers, Sequences

CONSTANTS Clips,       \* SEMANTIC_ANIMATIONS
          IdleClips,   \* SAFE_IDLE_CLIPS
          NoClip,      \* Python's None
          MaxPending   \* MAX_PENDING_ANIMATIONS

ASSUME ClipAssumption ==
    /\ IdleClips \subseteq Clips /\ IdleClips # {}
    /\ NoClip \notin Clips
    /\ MaxPending \in Nat \ {0}

Play == [clip : Clips, loop : BOOLEAN]

Controller ==
    [current : Clips \cup {NoClip}, loop : BOOLEAN,
     pending : Seq(Play), bag : SUBSET IdleClips]

NewController ==
    [current |-> NoClip, loop |-> FALSE, pending |-> <<>>, bag |-> {}]

ResetController(c) ==
    [c EXCEPT !.current = NoClip, !.loop = FALSE, !.pending = <<>>]

\* A finished or looping clip, or an idle one, gives way at once; any other
\* clip makes the newcomer wait.
Busy(c) == c.current # NoClip /\ ~c.loop /\ c.current \notin IdleClips

Starting(c, p) == [ctl  |-> [c EXCEPT !.current = p.clip, !.loop = p.loop],
                   cmds |-> <<p>>]

\* A full pending queue drops its oldest entry.
Enqueue(q, p) == Append(IF Len(q) >= MaxPending THEN Tail(q) ELSE q, p)

PlayClip(c, p) ==
    IF Busy(c)
    THEN [ctl |-> [c EXCEPT !.pending = Enqueue(@, p)], cmds |-> <<>>]
    ELSE Starting(c, p)

\* The clips next_idle may draw, and the bag once one was drawn.
IdleChoices(c) == IF c.bag = {} THEN IdleClips ELSE c.bag

PlayIdle(c, clip) ==
    Starting([c EXCEPT !.bag = IdleChoices(c) \ {clip}],
             [clip |-> clip, loop |-> FALSE])

StopClip(c, clip) == PlayIdle([c EXCEPT !.pending = <<>>], clip)

\* finish(): the next pending clip, else an idle one; a controller that
\* plays nothing, or loops, has nothing to finish.
Finish(c, clip) ==
    IF c.current = NoClip \/ c.loop
    THEN [ctl |-> c, cmds |-> <<>>]
    ELSE IF c.pending # <<>>
         THEN Starting([c EXCEPT !.pending = Tail(@)], Head(c.pending))
         ELSE PlayIdle(c, clip)
=============================================================================
