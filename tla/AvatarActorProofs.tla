--------------------------- MODULE AvatarActorProofs ---------------------------
(***************************************************************************)
(* What holds of the avatar actor for every set of clients, avatars and    *)
(* faces, every queue bound and restart budget, and any number of inputs.  *)
(* First the types and the child that is never lost; then what a program   *)
(* may still do when it is abandoned: mouth, session, library, restarts.   *)
(***************************************************************************)
EXTENDS AvatarActor, SequenceTheorems, TLAPS

Instruction == Calls \cup Updates

-----------------------------------------------------------------------------
(* The controller and the renderer stay well-formed.                       *)

LEMMA NewControllerType == NewController \in Controller
<1>1. <<>> \in Seq(Play)
  OBVIOUS
<1> QED BY <1>1, Zenon DEF NewController, Controller

LEMMA ResetType ==
    ASSUME NEW c \in Controller
    PROVE  ResetController(c) \in Controller
<1>1. <<>> \in Seq(Play)
  OBVIOUS
<1> QED BY <1>1, Zenon DEF ResetController, Controller

\* One play command, sent on its way.
LEMMA StartingType ==
    ASSUME NEW c \in Controller, NEW p \in Play
    PROVE  /\ Starting(c, p).ctl \in Controller
           /\ Starting(c, p).cmds \in Seq(Play)
<1>1. p.clip \in Clips \cup {NoClip} /\ p.loop \in BOOLEAN
  BY Zenon DEF Play
<1>2. [c EXCEPT !.current = p.clip, !.loop = p.loop] \in Controller
  BY <1>1, Zenon DEF Controller
<1>3. <<p>> \in Seq(Play)
  OBVIOUS
<1> QED BY <1>2, <1>3, Zenon DEF Starting

LEMMA EnqueueType ==
    ASSUME NEW q \in Seq(Play), NEW p \in Play
    PROVE  Enqueue(q, p) \in Seq(Play)
BY ClipAssumption DEF Enqueue

LEMMA PlayClipType ==
    ASSUME NEW c \in Controller, NEW p \in Play
    PROVE  /\ PlayClip(c, p).ctl \in Controller
           /\ PlayClip(c, p).cmds \in Seq(Play)
<1>1. CASE Busy(c)
  <2>1. c.pending \in Seq(Play) /\ <<>> \in Seq(Play)
    BY DEF Controller
  <2>2. Enqueue(c.pending, p) \in Seq(Play)
    BY <2>1, EnqueueType
  <2>3. [c EXCEPT !.pending = Enqueue(@, p)] \in Controller
    BY <2>2, Zenon DEF Controller
  <2> QED BY <1>1, <2>1, <2>3, Zenon DEF PlayClip
<1>2. CASE ~Busy(c)
  BY <1>2, StartingType, Zenon DEF PlayClip
<1> QED BY <1>1, <1>2

LEMMA IdleChoicesType ==
    ASSUME NEW c \in Controller
    PROVE  IdleChoices(c) \subseteq IdleClips
BY Zenon DEF IdleChoices, Controller

LEMMA PlayIdleType ==
    ASSUME NEW c \in Controller, NEW clip \in IdleClips
    PROVE  /\ PlayIdle(c, clip).ctl \in Controller
           /\ PlayIdle(c, clip).cmds \in Seq(Play)
<1>1. IdleChoices(c) \ {clip} \in SUBSET IdleClips
  BY IdleChoicesType
<1>2. [c EXCEPT !.bag = IdleChoices(c) \ {clip}] \in Controller
  BY <1>1, Zenon DEF Controller
<1>3. [clip |-> clip, loop |-> FALSE] \in Play
  BY ClipAssumption DEF Play
<1> QED BY <1>2, <1>3, StartingType, Zenon DEF PlayIdle

LEMMA StopClipType ==
    ASSUME NEW c \in Controller, NEW clip \in IdleClips
    PROVE  /\ StopClip(c, clip).ctl \in Controller
           /\ StopClip(c, clip).cmds \in Seq(Play)
<1>1. <<>> \in Seq(Play)
  OBVIOUS
<1>2. [c EXCEPT !.pending = <<>>] \in Controller
  BY <1>1, Zenon DEF Controller
<1> QED BY <1>2, PlayIdleType, Zenon DEF StopClip

LEMMA FinishType ==
    ASSUME NEW c \in Controller, NEW clip \in IdleClips
    PROVE  /\ Finish(c, clip).ctl \in Controller
           /\ Finish(c, clip).cmds \in Seq(Play)
<1>1. CASE c.current = NoClip \/ c.loop
  <2>1. <<>> \in Seq(Play)
    OBVIOUS
  <2> QED BY <1>1, <2>1, Zenon DEF Finish
<1>2. CASE ~(c.current = NoClip \/ c.loop) /\ c.pending # <<>>
  <2>1. c.pending \in Seq(Play)
    BY DEF Controller
  <2>2. Head(c.pending) \in Play /\ Tail(c.pending) \in Seq(Play)
    BY <1>2, <2>1
  <2>3. [c EXCEPT !.pending = Tail(@)] \in Controller
    BY <2>2, Zenon DEF Controller
  <2> QED BY <1>2, <2>2, <2>3, StartingType, Zenon DEF Finish
<1>3. CASE ~(c.current = NoClip \/ c.loop) /\ c.pending = <<>>
  BY <1>3, PlayIdleType, Zenon DEF Finish
<1> QED BY <1>1, <1>2, <1>3

-----------------------------------------------------------------------------
(* The renderer stays well-formed, and every outcome of a call on it keeps *)
(* a forgotten host without a living child.                                *)

\* NoLostChild of one renderer record.
Kept(r) == r.host # "up" => ~r.alive

LEMMA EmptySceneType == EmptyScene \in Scene
<1>1. [a \in Attrs |-> Default] \in [Attrs -> Values]
  BY ActorAssumption
<1> QED BY <1>1, ActorAssumption, Zenon DEF EmptyScene, Scene

LEMMA SpawnedType ==
    ASSUME NEW r \in Renderer
    PROVE  Spawned(r) \in Renderer /\ Spawned(r).host = "up" /\ Spawned(r).alive
<1>1. r.exits \in Nat /\ 0 \in Nat
  BY DEF Renderer
<1>2. (IF r.host = "none" THEN 0 ELSE r.exits) \in Nat
  BY <1>1
<1>3. Spawned(r) \in Renderer
  BY <1>2, EmptySceneType, Zenon DEF Spawned, Renderer
<1>4. Spawned(r).host = "up" /\ Spawned(r).alive
  BY Zenon DEF Spawned, Renderer
<1> QED BY <1>3, <1>4

LEMMA UnavailableType ==
    ASSUME NEW r \in Renderer
    PROVE  /\ Unavailable(r) \in Renderer
           /\ Unavailable(r).host = r.host
           /\ Unavailable(r).alive = r.alive
BY Zenon DEF Unavailable, Renderer

LEMMA DroppedType ==
    ASSUME NEW r \in Renderer
    PROVE  Dropped(r) \in Renderer /\ Dropped(r).alive = r.alive
BY 0 \in Nat, Zenon DEF Dropped, Unavailable, Renderer

LEMMA EnsuredType ==
    ASSUME NEW r \in Renderer, Kept(r), NEW e \in Ensured(r)
    PROVE  /\ e[1] \in Renderer /\ Kept(e[1])
           /\ e[2] \in BOOLEAN
           /\ e[2] => e[1].host = "up"
<1> DEFINE usable(s) == [s EXCEPT !.state = "running", !.attempts = 0]
           stillborn == [Spawned(r) EXCEPT !.alive = FALSE, !.eof = TRUE]
<1>1. ASSUME NEW s \in Renderer
      PROVE  usable(s) \in Renderer /\ usable(s).host = s.host /\ usable(s).alive = s.alive
  BY 0 \in Nat, Zenon DEF Renderer
<1>2. stillborn \in Renderer /\ stillborn.alive = FALSE
  BY SpawnedType, Zenon DEF Renderer
<1>3. CASE r.host = "up" /\ r.alive
  <2>1. e = <<usable(r), TRUE>>
    BY <1>3 DEF Ensured
  <2> QED BY <1>1, <1>3, <2>1 DEF Kept
<1>4. CASE r.host = "stopped" \/ (r.host = "up" /\ ~r.alive)
  <2>1. e = <<Dropped(r), FALSE>>
    BY <1>4 DEF Ensured
  <2>2. ~r.alive
    BY <1>4 DEF Kept
  <2> QED BY <2>1, <2>2, DroppedType DEF Kept
<1>5. CASE r.host \notin {"up", "stopped"}
  <2>1. e \in {<<usable(Spawned(r)), TRUE>>, <<Dropped(r), FALSE>>,
               <<Unavailable(stillborn), FALSE>>}
    BY <1>5 DEF Ensured
  <2>2. ~r.alive
    BY <1>5 DEF Kept
  <2>3. CASE e = <<usable(Spawned(r)), TRUE>>
    BY <1>1, <2>3, SpawnedType DEF Kept
  <2>4. CASE e = <<Dropped(r), FALSE>>
    BY <2>2, <2>4, DroppedType DEF Kept
  <2>5. CASE e = <<Unavailable(stillborn), FALSE>>
    <3> HIDE DEF stillborn
    <3>1. /\ Unavailable(stillborn) \in Renderer
          /\ Unavailable(stillborn).alive = FALSE
      BY <1>2, UnavailableType
    <3> QED BY <2>5, <3>1 DEF Kept
  <2> QED BY <2>1, <2>3, <2>4, <2>5
<1> QED BY <1>3, <1>4, <1>5

\* What an instruction carries.
LEMMA InstructionFields ==
    ASSUME NEW i \in Instruction
    PROVE  /\ i.do = "SetVisemes" => i.open \in BOOLEAN
           /\ i.do \in {"SetExpression", "face"} => i.face \in Faces
           /\ i.do = "SetAttr" => i.name \in Attrs /\ i.value \in Values
           /\ i.do \in {"PlayAnimation", "playing"} => i.play \in Play
           /\ i.do \in {"load", "reload", "deleted", "loaded"} => i.avatar \in Avatars
           /\ i.do = "loaded" => i.select \in BOOLEAN
           /\ i.do = "closed" => i.cancelled \in BOOLEAN
BY DEF Instruction, Calls, Updates

LEMMA StagedType ==
    ASSUME NEW s \in Scene, NEW avatar \in Avatars \cup {None}
    PROVE  Staged(s, avatar) \in Scene
<1> DEFINE f == [a \in Attrs |-> IF a \in Worn THEN Default ELSE s.attr[a]]
<1>1. f \in [Attrs -> Values]
  <2>1. s.attr \in [Attrs -> Values]
    BY Zenon DEF Scene
  <2> QED BY <2>1, ActorAssumption
<1>2. Staged(s, avatar) = [s EXCEPT !.avatar = avatar, !.face = Neutral, !.attr = f]
  BY DEF Staged
<1> HIDE DEF f
<1>3. [s EXCEPT !.avatar = avatar, !.face = Neutral, !.attr = f] \in Scene
  BY <1>1, ActorAssumption, Zenon DEF Scene
<1> QED BY <1>2, <1>3

LEMMA ShownType ==
    ASSUME NEW s \in Scene, NEW i \in Instruction,
           i.do \in RendererCommands \cup {"load", "reload"}
    PROVE  Shown(s, i) \in Scene
<1>1. CASE i.do \in {"load", "reload"}
  <2>1. Staged(s, i.avatar) \in Scene
    BY <1>1, InstructionFields, StagedType
  <2> QED BY <1>1, <2>1 DEF Shown
<1>2. CASE i.do = "UnloadAvatar"
  <2>1. Staged(s, None) \in Scene
    BY StagedType
  <2> QED BY <1>2, <2>1 DEF Shown
<1>3. CASE i.do = "SetVisemes"
  <2>1. [s EXCEPT !.open = i.open] \in Scene
    BY <1>3, InstructionFields, Zenon DEF Scene
  <2> QED BY <1>3, <2>1 DEF Shown
<1>4. CASE i.do \in {"ShowWindow", "HideWindow"}
  <2>1. [s EXCEPT !.shown = TRUE] \in Scene /\ [s EXCEPT !.shown = FALSE] \in Scene
    BY Zenon DEF Scene
  <2> QED BY <1>4, <2>1 DEF Shown
<1>5. CASE i.do = "SetExpression"
  <2>1. [s EXCEPT !.face = i.face] \in Scene
    BY <1>5, InstructionFields, Zenon DEF Scene
  <2> QED BY <1>5, <2>1 DEF Shown
<1>6. CASE i.do = "SetAttr"
  <2>1. s.attr \in [Attrs -> Values]
    BY Zenon DEF Scene
  <2>2. [s.attr EXCEPT ![i.name] = i.value] \in [Attrs -> Values]
    BY <1>6, <2>1, InstructionFields
  <2>3. [s EXCEPT !.attr[i.name] = i.value] \in Scene
    BY <2>2, Zenon DEF Scene
  <2> QED BY <1>6, <2>3 DEF Shown
<1>7. CASE i.do = "PlayAnimation"
  BY <1>7 DEF Shown
<1> QED BY <1>1, <1>2, <1>3, <1>4, <1>5, <1>6, <1>7 DEF RendererCommands

LEMMA RequestedType ==
    ASSUME NEW r \in Renderer, Kept(r), NEW i \in Instruction,
           i.do \in RendererCommands \cup {"load", "reload"},
           NEW q \in Requested(r, i)
    PROVE  q[1] \in Renderer /\ Kept(q[1])
<1> DEFINE done == [r EXCEPT !.scene = Shown(@, i)]
           dead == Unavailable([r EXCEPT !.alive = FALSE, !.eof = @ \/ r.alive])
<1>1. done \in Renderer /\ done.host = r.host /\ done.alive = r.alive
  <2>1. Shown(r.scene, i) \in Scene
    BY ShownType DEF Renderer
  <2> QED BY <2>1, Zenon DEF Renderer
<1>2. dead \in Renderer /\ dead.alive = FALSE
  <2>1. (r.eof \/ r.alive) \in BOOLEAN
    OBVIOUS
  <2>2. /\ [r EXCEPT !.alive = FALSE, !.eof = @ \/ r.alive] \in Renderer
        /\ [r EXCEPT !.alive = FALSE, !.eof = @ \/ r.alive].alive = FALSE
    BY <2>1, Zenon DEF Renderer
  <2> QED BY <2>2, UnavailableType
<1>3. q \in {<<done, "ok">>, <<r, "failed">>, <<done, "failed">>, <<dead, "failed">>}
  BY DEF Requested
<1> HIDE DEF done, dead
<1> QED BY <1>1, <1>2, <1>3 DEF Kept

LEMMA RestartedType ==
    ASSUME NEW r \in Renderer, Kept(r), NEW q \in Restarted(r)
    PROVE  q \in Renderer /\ Kept(q)
<1> DEFINE more == IF r.alive \/ r.eof THEN r.exits + 1 ELSE r.exits
           ended == [r EXCEPT !.alive = FALSE, !.eof = FALSE, !.exits = more]
<1>1. CASE r.host = "none"
  BY <1>1, UnavailableType DEF Restarted, Kept
<1>2. CASE r.host # "none"
  <2>1. r.exits \in Nat
    BY DEF Renderer
  <2>2. more \in Nat
    BY <2>1
  <2>3. ended \in Renderer /\ ended.alive = FALSE /\ ended.exits \in Nat
    BY <2>2, Zenon DEF Renderer
  <2>4. q \in {[Spawned(ended) EXCEPT !.state = "running"],
               Unavailable([ended EXCEPT !.host = "stopped", !.exits = @ + 1]),
               Unavailable([ended EXCEPT !.host = "fresh"])}
    BY <1>2 DEF Restarted
  <2> HIDE DEF ended
  <2>5. CASE q = [Spawned(ended) EXCEPT !.state = "running"]
    <3>1. Spawned(ended) \in Renderer /\ Spawned(ended).host = "up"
      BY <2>3, SpawnedType
    <3> QED BY <2>5, <3>1, Zenon DEF Renderer, Kept
  <2>6. CASE q = Unavailable([ended EXCEPT !.host = "stopped", !.exits = @ + 1])
    <3>1. ended.exits + 1 \in Nat
      BY <2>3
    <3>2. /\ [ended EXCEPT !.host = "stopped", !.exits = @ + 1] \in Renderer
          /\ [ended EXCEPT !.host = "stopped", !.exits = @ + 1].alive = FALSE
      BY <2>3, <3>1, Zenon DEF Renderer
    <3> QED BY <2>6, <3>2, UnavailableType DEF Kept
  <2>7. CASE q = Unavailable([ended EXCEPT !.host = "fresh"])
    <3>1. /\ [ended EXCEPT !.host = "fresh"] \in Renderer
          /\ [ended EXCEPT !.host = "fresh"].alive = FALSE
      BY <2>3, Zenon DEF Renderer
    <3> QED BY <2>7, <3>1, UnavailableType DEF Kept
  <2> QED BY <2>4, <2>5, <2>6, <2>7
<1> QED BY <1>1, <1>2

-----------------------------------------------------------------------------
(* Queue items, commands, states and programs.                             *)

LEMMA ItemFields ==
    ASSUME NEW i \in Item
    PROVE  /\ i.kind = "command" => /\ i.cmd \in CommandType
                                    /\ i.who \in Clients
                                    /\ i.n \in 1..MaxInputs
           /\ i.kind = "runtime" => i.presence \in Presences
<1>1. Commands \subseteq CommandType
  BY ActorAssumption
<1> HIDE ActorAssumption
<1> QED BY <1>1 DEF Item

LEMMA CommandFields ==
    ASSUME NEW c \in CommandType
    PROVE  /\ c.op = "presence" => c.presence \in Presences
           /\ c.op \in {"emotion", "face"} => c.face \in Faces
           /\ c.op = "attr" => c.name \in Attrs /\ c.value \in Values
           /\ c.op = "play" => c.play \in Play
           /\ c.op = "audio" => c.open \in BOOLEAN
           /\ c.op \in {"load", "select", "delete", "import"} => c.avatar \in Avatars
BY DEF CommandType

LEMMA StateFields ==
    ASSUME NEW s \in State
    PROVE  /\ s.avatar \in Avatars \cup {None} /\ s.presence \in Presences
           /\ s.before \in Presences \cup {None} /\ s.speaking \in BOOLEAN
           /\ s.face \in Faces /\ s.faces \in SUBSET Faces
           /\ s.attr \in [Attrs -> Values] /\ s.selected \in Avatars \cup {None}
BY Zenon DEF State

LEMMA SendAttrsType ==
    ASSUME NEW attr \in [Attrs -> Values]
    PROVE  SendAttrs(attr) \in Seq(Instruction)
<1>1. Resynced \in Seq(Attrs)
  BY ActorAssumption
<1>2. PICK n \in Nat : DOMAIN Resynced = 1..n /\ Resynced \in [1..n -> Attrs]
  BY <1>1
<1>3. ASSUME NEW k \in 1..n
      PROVE  SetAttr(Resynced[k], attr[Resynced[k]]) \in Instruction
  BY <1>2 DEF SetAttr, Instruction, Calls
<1>4. SendAttrs(attr) \in [1..n -> Instruction]
  BY <1>2, <1>3 DEF SendAttrs
<1> QED BY <1>4

LEMMA PlaysType ==
    ASSUME NEW cmds \in Seq(Play)
    PROVE  Plays(cmds) \in Seq(Instruction)
<1>1. CASE cmds = <<>>
  BY <1>1 DEF Plays
<1>2. CASE cmds # <<>>
  <2>1. cmds[1] \in Play
    BY <1>2
  <2>2. /\ [do |-> "PlayAnimation", play |-> cmds[1]] \in Instruction
        /\ [do |-> "playing", play |-> cmds[1]] \in Instruction
    BY <2>1 DEF Instruction, Calls, Updates
  <2> QED BY <1>2, <2>2 DEF Plays
<1> QED BY <1>1, <1>2

LEMMA ResolveType ==
    ASSUME NEW face \in Faces, NEW faces \in SUBSET Faces
    PROVE  Resolve(face, faces) \in Faces
<1> DEFINE chain == Fallback[face]
           first == {f \in faces : \E k \in DOMAIN chain :
                        chain[k] = f /\ \A j \in 1..(k - 1) : chain[j] \notin faces}
<1>1. Resolve(face, faces) =
        IF faces = {} THEN face ELSE IF first = {} THEN Neutral ELSE CHOOSE f \in first : TRUE
  BY DEF Resolve
<1>2. first \subseteq Faces
  OBVIOUS
<1>3. first # {} => (CHOOSE f \in first : TRUE) \in first
  OBVIOUS
<1> HIDE DEF first
<1> QED BY <1>1, <1>2, <1>3, ActorAssumption

\* Instructions without an argument, and those with one.
LEMMA SimpleInstructions ==
    /\ \A d \in {"UnloadAvatar", "ShowWindow", "HideWindow", "require", "unloaded",
                 "lipsync", "idle", "visible"} : Do(d) \in Instruction
    /\ \A f \in Faces : /\ SetFaceTo(f) \in Instruction
                        /\ [do |-> "SetExpression", face |-> f] \in Instruction
    /\ \A b \in BOOLEAN : /\ [do |-> "SetVisemes", open |-> b] \in Instruction
                          /\ [do |-> "closed", cancelled |-> b] \in Instruction
    /\ \A a \in Avatars : \A d \in {"load", "reload", "deleted"} :
          [do |-> d, avatar |-> a] \in Instruction
    /\ \A a \in Avatars, b \in BOOLEAN :
          [do |-> "loaded", avatar |-> a, select |-> b] \in Instruction
    /\ \A a \in Attrs, v \in Values : SetAttr(a, v) \in Instruction
BY DEF Do, SetFaceTo, SetAttr, Instruction, Calls, Updates

LEMMA SequenceFacts ==
    ASSUME NEW S
    PROVE  /\ <<>> \in Seq(S)
           /\ \A a \in S : <<a>> \in Seq(S)
           /\ \A a, b \in S : <<a, b>> \in Seq(S)
           /\ \A s, t \in Seq(S) : s \o t \in Seq(S)
           /\ \A s \in Seq(S) : s # <<>> => Head(s) \in S /\ Tail(s) \in Seq(S)
           /\ \A s \in Seq(S), a \in S : Append(s, a) \in Seq(S)
OBVIOUS

LEMMA SetFaceProgram ==
    ASSUME NEW f \in Faces
    PROVE  <<SetFaceTo(f)>> \in Seq(Instruction)
<1>1. SetFaceTo(f) \in Instruction
  BY SimpleInstructions, Zenon
<1> QED BY <1>1

-----------------------------------------------------------------------------
(* The invariant: the types, and no host without its child.                *)

IInv == TypeOK /\ NoLostChild

CallType == [Clients -> [s : {"idle", "waiting", "refused", "timeout", "ok", "error"},
                         n : 0..MaxInputs]]

Positions == {"top", "poll", "exec", "done", "dead"}

LEMMA AnswerType ==
    ASSUME TypeOK, item.kind = "command", NEW o \in {"ok", "error"}, Answer(o)
    PROVE  call' \in CallType
<1>1. item.who \in Clients /\ call \in CallType
  BY ItemFields DEF TypeOK, CallType
<1>2. [call EXCEPT ![item.who].s = o] \in CallType
  BY <1>1 DEF CallType
<1> QED BY <1>1, <1>2 DEF Answer

LEMMA RaiseType ==
    ASSUME TypeOK, Raise
    PROVE  /\ at' \in Positions /\ prog' = <<>> /\ call' \in CallType
           /\ UNCHANGED <<item, drained, asleep>>
<1>1. CASE at = "exec" /\ item.kind = "command"
  BY <1>1, AnswerType DEF Raise, Positions
<1>2. CASE ~(at = "exec" /\ item.kind = "command")
  BY <1>2 DEF Raise, Positions, TypeOK, CallType
<1> QED BY <1>1, <1>2

\* A handler that has begun.
LEMMA BeginType ==
    ASSUME IInv, NEW s \in State, NEW c \in Controller, NEW p \in Seq(Instruction),
           Begin(s, c, p), library' \in [Avatars -> Files], UNCHANGED rend
    PROVE  IInv'
BY DEF IInv, NoLostChild, TypeOK, Begin, rest, Instruction, CallType

LEMMA RejectedType ==
    ASSUME IInv, item.kind = "command", Reject, library' \in [Avatars -> Files], UNCHANGED rend
    PROVE  IInv'
<1>1. call' \in CallType
  BY AnswerType DEF Reject, IInv
<1> QED BY <1>1 DEF IInv, NoLostChild, TypeOK, Reject, rest, CallType

LEMMA RejectType ==
    ASSUME IInv, item.kind = "command", Reject, UNCHANGED <<library, rend>>
    PROVE  IInv'
<1>1. library' \in [Avatars -> Files]
  BY DEF IInv, TypeOK
<1> QED BY <1>1, RejectedType

LEMMA CommandTaken ==
    ASSUME TypeOK, NEW op, Command(op)
    PROVE  item.cmd \in CommandType /\ item.cmd.op = op /\ item.kind = "command"
BY ItemFields DEF TypeOK, Command, Ready

\* What every handler starts from.
LEMMA Parts ==
    ASSUME IInv
    PROVE  /\ st \in State /\ ctl \in Controller /\ library \in [Avatars -> Files]
           /\ prog \in Seq(Instruction) /\ <<>> \in Seq(Instruction)
           /\ rend \in Renderer /\ Kept(rend)
BY DEF IInv, TypeOK, NoLostChild, Kept, Instruction

LEMMA StatusType == ASSUME IInv, DoStatus PROVE IInv'
BY Parts, BeginType DEF DoStatus

LEMMA PresenceType == ASSUME IInv, DoPresence PROVE IInv'
<1> DEFINE p == item.cmd.presence
           s == [st EXCEPT !.presence = p, !.explicit = p # "idle"]
<1>1. p \in Presences
  BY CommandTaken, CommandFields DEF DoPresence, IInv
<1>2. s \in State
  <2>1. (p # "idle") \in BOOLEAN
    OBVIOUS
  <2> HIDE DEF p
  <2> QED BY <1>1, <2>1, Parts, Zenon DEF State
<1> QED BY <1>2, Parts, BeginType DEF DoPresence

LEMMA EmotionType == ASSUME IInv, DoEmotion PROVE IInv'
<1> DEFINE f == item.cmd.face
           s == [st EXCEPT !.emotion = f]
<1>1. f \in Faces
  BY CommandTaken, CommandFields DEF DoEmotion, IInv
<1>2. s \in State
  BY <1>1, Parts, Zenon DEF State
<1>3. <<SetFaceTo(f)>> \in Seq(Instruction)
  BY <1>1, SetFaceProgram
<1> QED BY <1>2, <1>3, Parts, BeginType DEF DoEmotion

LEMMA FaceType == ASSUME IInv, DoFace PROVE IInv'
<1>1. item.cmd.face \in Faces
  BY CommandTaken, CommandFields DEF DoFace, IInv
<1>2. <<SetFaceTo(item.cmd.face)>> \in Seq(Instruction)
  BY <1>1, SetFaceProgram
<1> QED BY <1>2, Parts, BeginType DEF DoFace

LEMMA AttrType == ASSUME IInv, DoAttr PROVE IInv'
<1> DEFINE a == item.cmd.name
           v == item.cmd.value
           s == [st EXCEPT !.attr[a] = v]
<1>1. a \in Attrs /\ v \in Values
  BY CommandTaken, CommandFields DEF DoAttr, IInv
<1>2. s \in State
  <2>1. [st.attr EXCEPT ![a] = v] \in [Attrs -> Values]
    BY <1>1, Parts, StateFields
  <2> QED BY <2>1, Parts, Zenon DEF State
<1>3. <<SetAttr(a, v)>> \in Seq(Instruction)
  BY <1>1, SimpleInstructions
<1> QED BY <1>2, <1>3, Parts, BeginType DEF DoAttr

LEMMA PlayType == ASSUME IInv, DoPlay PROVE IInv'
<1> DEFINE r == PlayClip(ctl, item.cmd.play)
<1>1. item.cmd.play \in Play
  BY CommandTaken, CommandFields DEF DoPlay, IInv
<1>2. r.ctl \in Controller /\ r.cmds \in Seq(Play)
  BY <1>1, Parts, PlayClipType
<1>3. Plays(r.cmds) \in Seq(Instruction)
  BY <1>2, PlaysType
<1>4. Begin(st, r.ctl, Plays(r.cmds)) /\ UNCHANGED <<library, rend>>
  BY DEF DoPlay
<1> HIDE DEF r
<1> QED BY <1>2, <1>3, <1>4, Parts, BeginType

LEMMA StopType == ASSUME IInv, DoStop PROVE IInv'
<1>1. PICK clip \in IdleChoices(ctl) :
        /\ Begin(st, StopClip(ctl, clip).ctl, Plays(StopClip(ctl, clip).cmds))
        /\ UNCHANGED <<library, rend>>
  BY DEF DoStop
<1>2. clip \in IdleClips
  BY Parts, IdleChoicesType
<1>3. StopClip(ctl, clip).ctl \in Controller /\ StopClip(ctl, clip).cmds \in Seq(Play)
  BY <1>2, Parts, StopClipType
<1>4. Plays(StopClip(ctl, clip).cmds) \in Seq(Instruction)
  BY <1>3, PlaysType
<1> QED BY <1>1, <1>3, <1>4, Parts, BeginType

LEMMA SpeechBeginType == ASSUME IInv, DoSpeechBegin PROVE IInv'
<1> DEFINE b == IF st.speaking THEN st.before ELSE st.presence
           s == [st EXCEPT !.before = b, !.analyzer = TRUE, !.speaking = TRUE,
                           !.lipsync = FALSE, !.presence = "speaking"]
<1>1. b \in Presences \cup {None} /\ "speaking" \in Presences
  BY Parts, StateFields DEF Presences
<1>2. Begin(s, ctl, <<>>) /\ UNCHANGED <<library, rend>>
  BY DEF DoSpeechBegin
<1> HIDE DEF b
<1>3. s \in State
  BY <1>1, Parts, Zenon DEF State
<1> HIDE DEF s
<1> QED BY <1>2, <1>3, Parts, BeginType

LEMMA SpeechAudioType == ASSUME IInv, DoSpeechAudio PROVE IInv'
<1> DEFINE v == [do |-> "SetVisemes", open |-> item.cmd.open]
<1>1. item.cmd.open \in BOOLEAN /\ item.kind = "command"
  BY CommandTaken, CommandFields DEF DoSpeechAudio, IInv
<1>2. v \in Instruction /\ Do("lipsync") \in Instruction
  BY <1>1, SimpleInstructions, Zenon
<1>3. (Begin(st, ctl, <<v, Do("lipsync")>>) \/ Reject) /\ UNCHANGED <<library, rend>>
  BY DEF DoSpeechAudio
<1> HIDE DEF v
<1>4. <<v, Do("lipsync")>> \in Seq(Instruction)
  BY <1>2
<1> QED BY <1>1, <1>3, <1>4, Parts, BeginType, RejectType

LEMMA SpeechCloseType == ASSUME IInv, DoSpeechClose PROVE IInv'
<1> DEFINE v == [do |-> "SetVisemes", open |-> FALSE]
           c == [do |-> "closed", cancelled |-> item.cmd.op = "cancel"]
<1>1. v \in Instruction /\ c \in Instruction
  <2>1. (item.cmd.op = "cancel") \in BOOLEAN
    OBVIOUS
  <2> QED BY <2>1, SimpleInstructions, Zenon
<1>2. Begin(st, ctl, <<v, c>>) /\ UNCHANGED <<library, rend>>
  BY DEF DoSpeechClose
<1> HIDE DEF v, c
<1>3. <<v, c>> \in Seq(Instruction)
  BY <1>1
<1> QED BY <1>2, <1>3, Parts, BeginType

LEMMA LoadType == ASSUME IInv, DoLoad PROVE IInv'
<1> DEFINE id == item.cmd.avatar
           first == IF st.loaded /\ st.avatar # id THEN <<Do("UnloadAvatar")>> ELSE <<>>
           load == [do |-> "load", avatar |-> id]
           loaded == [do |-> "loaded", avatar |-> id, select |-> item.cmd.op = "select"]
           p == <<Do("require")>> \o first \o <<load, loaded, SetFaceTo(st.face)>>
                \o SendAttrs(st.attr) \o <<Do("idle")>>
<1>1. id \in Avatars /\ item.kind = "command"
  BY CommandTaken, CommandFields DEF DoLoad, IInv
<1>2. /\ Do("require") \in Instruction /\ Do("UnloadAvatar") \in Instruction
      /\ Do("idle") \in Instruction
  BY SimpleInstructions, Zenon
<1>3. load \in Instruction
  BY <1>1, SimpleInstructions, Zenon
<1>4. loaded \in Instruction
  <2>1. (item.cmd.op = "select") \in BOOLEAN
    OBVIOUS
  <2> QED BY <1>1, <2>1, SimpleInstructions, Zenon
<1>5. SetFaceTo(st.face) \in Instruction
  <2>1. st.face \in Faces
    BY Parts, StateFields
  <2> QED BY <2>1, SimpleInstructions, Zenon
<1>6. SendAttrs(st.attr) \in Seq(Instruction)
  BY Parts, StateFields, SendAttrsType
<1>7. (Begin(st, ctl, p) \/ Reject) /\ UNCHANGED <<library, rend>>
  BY DEF DoLoad
<1>8. p \in Seq(Instruction)
  <2>1. first \in Seq(Instruction)
    BY <1>2
  <2>2. <<load, loaded, SetFaceTo(st.face)>> \in Seq(Instruction)
    <3> HIDE DEF load, loaded
    <3> QED BY <1>3, <1>4, <1>5
  <2> HIDE DEF first, load, loaded
  <2>3. <<Do("require")>> \o first \in Seq(Instruction)
    BY <1>2, <2>1
  <2>4. <<Do("require")>> \o first \o <<load, loaded, SetFaceTo(st.face)>> \in Seq(Instruction)
    BY <2>2, <2>3, SequenceFacts
  <2>5. <<Do("require")>> \o first \o <<load, loaded, SetFaceTo(st.face)>>
          \o SendAttrs(st.attr) \in Seq(Instruction)
    BY <1>6, <2>4, SequenceFacts
  <2>6. <<Do("idle")>> \in Seq(Instruction)
    BY <1>2
  <2> QED BY <2>5, <2>6, SequenceFacts
<1> HIDE DEF p
<1> QED BY <1>1, <1>7, <1>8, Parts, BeginType, RejectType

LEMMA UnloadProgType == UnloadProg \in Seq(Instruction)
<1>1. Do("UnloadAvatar") \in Instruction /\ Do("unloaded") \in Instruction
  BY SimpleInstructions, Zenon
<1> QED BY <1>1 DEF UnloadProg

LEMMA UnloadType == ASSUME IInv, DoUnload PROVE IInv'
BY Parts, BeginType, UnloadProgType DEF DoUnload

LEMMA ShowType == ASSUME IInv, DoShow PROVE IInv'
<1> DEFINE tail == IF st.animation = NoClip THEN <<Do("idle")>> ELSE <<>>
           p == <<Do("ShowWindow"), Do("visible")>> \o tail
<1>1. /\ Do("ShowWindow") \in Instruction /\ Do("visible") \in Instruction
      /\ Do("idle") \in Instruction
  BY SimpleInstructions, Zenon
<1>2. p \in Seq(Instruction)
  BY <1>1
<1>3. item.kind = "command"
  BY DEF DoShow, Command, Ready
<1>4. (Begin(st, ctl, p) \/ Reject) /\ UNCHANGED <<library, rend>>
  BY DEF DoShow
<1> HIDE DEF p
<1> QED BY <1>2, <1>3, <1>4, Parts, BeginType, RejectType

LEMMA HideType == ASSUME IInv, DoHide PROVE IInv'
<1>1. [st EXCEPT !.visible = FALSE] \in State
  BY Parts, Zenon DEF State
<1>2. <<Do("HideWindow")>> \in Seq(Instruction)
  <2>1. Do("HideWindow") \in Instruction
    BY SimpleInstructions, Zenon
  <2> QED BY <2>1
<1> QED BY <1>1, <1>2, Parts, BeginType DEF DoHide

LEMMA DeleteType == ASSUME IInv, DoDelete PROVE IInv'
<1> DEFINE d == [do |-> "deleted", avatar |-> item.cmd.avatar]
           first == IF st.loaded /\ st.avatar = item.cmd.avatar THEN UnloadProg ELSE <<>>
<1>1. d \in Instruction
  <2>1. item.cmd.avatar \in Avatars
    BY CommandTaken, CommandFields DEF DoDelete, IInv
  <2> QED BY <2>1, SimpleInstructions, Zenon
<1>2. first \in Seq(Instruction)
  BY UnloadProgType, SequenceFacts
<1>3. Begin(st, ctl, first \o <<d>>) /\ UNCHANGED <<library, rend>>
  BY DEF DoDelete
<1> HIDE DEF d, first
<1>4. first \o <<d>> \in Seq(Instruction)
  BY <1>1, <1>2
<1> QED BY <1>3, <1>4, Parts, BeginType

\* Files the operations leave are files.
LEMMA FilesLeft ==
    ASSUME IInv, NEW a \in Avatars, NEW m \in File, NEW c \in File
    PROVE  /\ library[a].record \in File /\ library[a].model \in File
           /\ [library EXCEPT ![a] = [model |-> m, record |-> c]] \in [Avatars -> Files]
           /\ [library EXCEPT ![a].model = m] \in [Avatars -> Files]
<1>1. library \in [Avatars -> Files]
  BY Parts
<1>2. library[a] \in Files
  BY <1>1
<1> QED BY <1>1, <1>2 DEF Files

LEMMA ImportType == ASSUME IInv, DoImport PROVE IInv'
<1> DEFINE id == item.cmd.avatar
           left(model, record) == [library EXCEPT ![id] = [model |-> model, record |-> record]]
<1>1. id \in Avatars /\ item.kind = "command"
  BY CommandTaken, CommandFields DEF DoImport, IInv
<1>2. /\ library[id].record \in File /\ "whole" \in File /\ "torn" \in File
      /\ \A m \in File, c \in File : left(m, c) \in [Avatars -> Files]
  BY <1>1, FilesLeft DEF File
<1>3. library \in [Avatars -> Files]
  BY Parts
<1>4. /\ UNCHANGED rend
      /\ \/ Begin(st, ctl, <<>>) /\ library' = left("whole", "whole")
         \/ Reject /\ library' \in {library, left("torn", library[id].record),
                        left("whole", library[id].record), left("whole", "torn")}
  BY DEF DoImport
<1> HIDE DEF left, id
<1>5. library' \in [Avatars -> Files]
  BY <1>2, <1>3, <1>4
<1>6. CASE Begin(st, ctl, <<>>)
  BY <1>4, <1>5, <1>6, Parts, BeginType
<1>7. CASE Reject
  BY <1>1, <1>4, <1>5, <1>7, RejectedType DEF id
<1> QED BY <1>4, <1>6, <1>7

LEMMA RuntimeType == ASSUME IInv, DoRuntime PROVE IInv'
<1>1. item.presence \in Presences
  BY ItemFields DEF DoRuntime, Ready, IInv, TypeOK
<1>2. [st EXCEPT !.presence = item.presence] \in State
  BY <1>1, Parts, Zenon DEF State
<1>3. st' \in State
  BY <1>2, Parts DEF DoRuntime
<1> QED BY <1>3 DEF DoRuntime, rest, IInv, NoLostChild, TypeOK

LEMMA ProbeType == ASSUME IInv, DoProbe PROVE IInv'
<1>1. PICK e \in Ensured(rend) : rend' = e[1]
  BY DEF DoProbe
<1>2. rend' \in Renderer /\ Kept(rend')
  BY <1>1, Parts, EnsuredType
<1> QED BY <1>2 DEF DoProbe, rest, IInv, NoLostChild, TypeOK, Kept

\* _recover_renderer up to its sleep.
LEMMA RecoveryType ==
    ASSUME IInv, NEW r \in Renderer, Kept(r), BeginRecovery(r), at' \in Positions,
           drained' \in Nat
    PROVE  IInv'
<1>1. r.attempts \in Nat
  BY DEF Renderer
<1>2. [r EXCEPT !.attempts = @ + 1] \in Renderer
  <2>1. r.attempts + 1 \in Nat
    BY <1>1
  <2> QED BY <2>1, Zenon DEF Renderer
<1>3. /\ [r EXCEPT !.attempts = @ + 1].host = r.host
      /\ [r EXCEPT !.attempts = @ + 1].alive = r.alive
  BY Zenon DEF Renderer
<1>4. asleep' \in BOOLEAN /\ rend' \in Renderer /\ Kept(rend')
  BY <1>2, <1>3, UnavailableType DEF BeginRecovery, Kept
<1>5. UNCHANGED <<queue, call, inputs, item, prog, st, ctl, library, stopping, closed>>
  BY DEF BeginRecovery, rest
<1> QED BY <1>4, <1>5 DEF IInv, NoLostChild, TypeOK, Kept, Positions

LEMMA ExitNoticeType == ASSUME IInv, DoExitNotice PROVE IInv'
<1>1. rend \in Renderer /\ Kept(rend)
  BY Parts DEF IInv, NoLostChild, Kept
<1>2. drained' \in Nat /\ at' \in Positions
  BY DEF DoExitNotice, Positions, IInv, TypeOK
<1> QED BY <1>1, <1>2, RecoveryType DEF DoExitNotice

LEMMA HandleExitType == ASSUME IInv, HandleExit PROVE IInv'
<1>1. drained' \in Nat /\ at' \in Positions
  BY DEF HandleExit, IInv, TypeOK, Positions
<1>2. rend \in Renderer /\ Kept(rend)
  BY Parts DEF IInv, NoLostChild, Kept
<1>3. Unavailable(rend) \in Renderer /\ Kept(Unavailable(rend))
  BY <1>2, UnavailableType DEF Kept
<1> QED BY <1>1, <1>3, RecoveryType DEF HandleExit

LEMMA TickType == ASSUME IInv, DoTick PROVE IInv'
<1>1. CASE Begin(st, ctl, <<>>) /\ UNCHANGED <<library, rend>>
  BY <1>1, Parts, BeginType
<1>2. ASSUME NEW clip \in IdleChoices(ctl), UNCHANGED <<library, rend>>,
             Begin([st EXCEPT !.armed = FALSE], Finish(ctl, clip).ctl,
                   Plays(Finish(ctl, clip).cmds))
      PROVE  IInv'
  <2>1. clip \in IdleClips
    BY Parts, IdleChoicesType
  <2>2. Finish(ctl, clip).ctl \in Controller /\ Finish(ctl, clip).cmds \in Seq(Play)
    BY <2>1, Parts, FinishType
  <2>3. Plays(Finish(ctl, clip).cmds) \in Seq(Instruction)
    BY <2>2, PlaysType
  <2>4. [st EXCEPT !.armed = FALSE] \in State
    BY Parts, Zenon DEF State
  <2> QED BY <1>2, <2>2, <2>3, <2>4, Parts, BeginType
<1> QED BY <1>1, <1>2 DEF DoTick

-----------------------------------------------------------------------------
(* Steps of a running handler.                                             *)

\* The instruction at the head, and what follows it.
LEMMA HeadType ==
    ASSUME IInv, prog # <<>>
    PROVE  Head1 \in Instruction /\ Tail(prog) \in Seq(Instruction)
BY Parts DEF Head1

\* The program goes on with more in front of its tail.
LEMMA AdvanceType ==
    ASSUME IInv, prog # <<>>, NEW more \in Seq(Instruction), Advance(more),
           st' \in State, ctl' \in Controller, library' \in [Avatars -> Files],
           rend' \in Renderer, Kept(rend'), UNCHANGED rest
    PROVE  IInv'
<1>1. prog' \in Seq(Instruction)
  BY HeadType, SequenceFacts DEF Advance
<1> QED BY <1>1 DEF Advance, rest, IInv, NoLostChild, TypeOK, Kept, Instruction

\* The program is abandoned.
LEMMA RaisedFilesType ==
    ASSUME IInv, Raise, rend' \in Renderer, Kept(rend'), library' \in [Avatars -> Files],
           UNCHANGED <<st, ctl, rest>>
    PROVE  IInv'
<1>1. /\ at' \in Positions /\ prog' = <<>> /\ call' \in CallType
      /\ UNCHANGED <<item, drained, asleep>>
  BY RaiseType DEF IInv
<1>2. prog' \in Seq(Instruction)
  BY <1>1
<1>3. st' \in State /\ ctl' \in Controller
  BY Parts
<1> QED BY <1>1, <1>2, <1>3
        DEF IInv, rest, NoLostChild, TypeOK, Kept, CallType, Positions, Instruction

LEMMA RaisedType ==
    ASSUME IInv, Raise, rend' \in Renderer, Kept(rend'), UNCHANGED <<st, ctl, library, rest>>
    PROVE  IInv'
<1>1. library' \in [Avatars -> Files]
  BY Parts
<1> QED BY <1>1, RaisedFilesType

LEMMA CallRendererType == ASSUME IInv, CallRenderer PROVE IInv'
<1>1. Head1 \in Instruction /\ Head1.do \in RendererCommands /\ prog # <<>>
  BY HeadType DEF CallRenderer
<1>2. PICK e \in Ensured(rend) :
        IF ~e[2] THEN rend' = e[1] /\ Advance(<<>>)
        ELSE \E q \in Requested(e[1], Head1) :
                rend' = q[1] /\ (IF q[2] = "ok" THEN Advance(<<>>) ELSE Raise)
  BY DEF CallRenderer
<1>3. e[1] \in Renderer /\ Kept(e[1])
  BY Parts, EnsuredType
<1>4. \A q \in Requested(e[1], Head1) : q[1] \in Renderer /\ Kept(q[1])
  BY <1>1, <1>3, RequestedType
<1>5. UNCHANGED <<st, ctl, library, rest>>
  BY DEF CallRenderer
<1>6. rend' \in Renderer /\ Kept(rend') /\ (Advance(<<>>) \/ Raise)
  BY <1>2, <1>3, <1>4
<1> QED BY <1>1, <1>5, <1>6, Parts, AdvanceType, RaisedType

LEMMA RequireType == ASSUME IInv, Require PROVE IInv'
<1>1. PICK e \in Ensured(rend) : rend' = e[1] /\ (IF e[2] THEN Advance(<<>>) ELSE Raise)
  BY DEF Require
<1>2. rend' \in Renderer /\ Kept(rend') /\ (Advance(<<>>) \/ Raise)
  BY <1>1, Parts, EnsuredType
<1>3. UNCHANGED <<st, ctl, library, rest>> /\ prog # <<>>
  BY DEF Require, Running
<1> QED BY <1>2, <1>3, Parts, AdvanceType, RaisedType

LEMMA LoadAvatarType == ASSUME IInv, LoadAvatar PROVE IInv'
<1>1. Head1 \in Instruction /\ Head1.do \in {"load", "reload"} /\ prog # <<>>
  BY HeadType DEF LoadAvatar, Running
<1>2. UNCHANGED <<ctl, library, rest>>
  BY DEF LoadAvatar
<1>3. CASE Raise /\ UNCHANGED <<rend, st>>
  BY <1>2, <1>3, Parts, RaisedType
<1>4. ASSUME NEW q \in Requested(rend, Head1), q[2] = "ok", rend' = q[1], Advance(<<>>),
             \E f \in {st.faces} \cup SUBSET Faces : st' = [st EXCEPT !.faces = f]
      PROVE  IInv'
  <2>1. rend' \in Renderer /\ Kept(rend')
    BY <1>1, <1>4, Parts, RequestedType
  <2>2. PICK f \in {st.faces} \cup SUBSET Faces : st' = [st EXCEPT !.faces = f]
    BY <1>4
  <2>3. f \in SUBSET Faces
    BY Parts, StateFields
  <2>4. st' \in State
    BY <2>2, <2>3, Parts, Zenon DEF State
  <2> QED BY <1>1, <1>2, <1>4, <2>1, <2>4, Parts, AdvanceType
<1>5. ASSUME NEW q \in Requested(rend, Head1), rend' = Unavailable(q[1]), UNCHANGED st,
             \/ Raise
             \/ prog' = <<>> /\ UNCHANGED <<at, item, drained, asleep, call>>
      PROVE  IInv'
  <2>1. rend' \in Renderer /\ Kept(rend')
    <3>1. q[1] \in Renderer /\ Kept(q[1])
      BY <1>1, Parts, RequestedType
    <3> QED BY <1>5, <3>1, UnavailableType DEF Kept
  <2>2. CASE Raise
    BY <1>2, <1>5, <2>1, <2>2, RaisedType
  <2>3. CASE prog' = <<>> /\ UNCHANGED <<at, item, drained, asleep, call>>
    BY <1>2, <1>5, <2>1, <2>3, Parts DEF rest, IInv, NoLostChild, TypeOK, Kept, Instruction
  <2> QED BY <1>5, <2>2, <2>3
<1> QED BY <1>3, <1>4, <1>5 DEF LoadAvatar

LEMMA SetFaceType == ASSUME IInv, SetFace PROVE IInv'
<1> DEFINE f == Resolve(Head1.face, st.faces)
           v == [do |-> "SetExpression", face |-> f]
<1>1. prog # <<>> /\ Head1 \in Instruction /\ Head1.do = "face"
  BY HeadType DEF SetFace, Running
<1>2. f \in Faces
  BY <1>1, InstructionFields, Parts, StateFields, ResolveType
<1>3. /\ st' = [st EXCEPT !.face = f] /\ Advance(<<v>>)
      /\ UNCHANGED <<ctl, library, rend, rest>>
  BY DEF SetFace
<1> HIDE DEF f
<1>4. v \in Instruction
  BY <1>2, SimpleInstructions, Zenon
<1>5. st' \in State
  BY <1>2, <1>3, Parts, Zenon DEF State
<1> HIDE DEF v
<1>6. <<v>> \in Seq(Instruction)
  BY <1>4
<1> QED BY <1>1, <1>3, <1>5, <1>6, Parts, AdvanceType

LEMMA NotePlayingType == ASSUME IInv, NotePlaying PROVE IInv'
<1> DEFINE clip == Head1.play.clip
           armed == ~Head1.play.loop
<1>1. prog # <<>> /\ Head1 \in Instruction /\ Head1.do = "playing"
  BY HeadType DEF NotePlaying, Running
<1>2. clip \in Clips \cup {NoClip} /\ armed \in BOOLEAN
  <2>1. Head1.play \in Play
    BY <1>1, InstructionFields
  <2> QED BY <2>1 DEF Play
<1>3. /\ st' = [st EXCEPT !.animation = clip, !.armed = armed]
      /\ Advance(<<>>) /\ UNCHANGED <<ctl, library, rend, rest>>
  BY DEF NotePlaying
<1> HIDE DEF clip, armed
<1>4. st' \in State
  BY <1>2, <1>3, Parts, Zenon DEF State
<1> QED BY <1>1, <1>3, <1>4, Parts, AdvanceType

LEMMA PlayIdleClipType == ASSUME IInv, PlayIdleClip PROVE IInv'
<1> DEFINE r == PlayClip(ctl, [clip |-> "idle", loop |-> FALSE])
<1>1. [clip |-> "idle", loop |-> FALSE] \in Play
  BY ActorAssumption, ClipAssumption DEF Play
<1>2. r.ctl \in Controller /\ r.cmds \in Seq(Play)
  BY <1>1, Parts, PlayClipType
<1>3. Plays(r.cmds) \in Seq(Instruction)
  BY <1>2, PlaysType
<1>4. /\ ctl' = r.ctl /\ Advance(Plays(r.cmds)) /\ prog # <<>>
      /\ UNCHANGED <<st, library, rend, rest>>
  BY DEF PlayIdleClip, Running
<1> HIDE DEF r
<1> QED BY <1>2, <1>3, <1>4, Parts, AdvanceType

LEMMA NoteLipsyncType == ASSUME IInv, NoteLipsync PROVE IInv'
<1>1. [st EXCEPT !.lipsync = TRUE] \in State
  BY Parts, Zenon DEF State
<1> QED BY <1>1, Parts, AdvanceType DEF NoteLipsync, Running

LEMMA NoteVisibleType == ASSUME IInv, NoteVisible PROVE IInv'
<1>1. [st EXCEPT !.visible = TRUE] \in State
  BY Parts, Zenon DEF State
<1> QED BY <1>1, Parts, AdvanceType DEF NoteVisible, Running

LEMMA CloseSpeechType == ASSUME IInv, CloseSpeech PROVE IInv'
<1> DEFINE before == IF st.before = None THEN "idle" ELSE st.before
           p == IF ~st.explicit /\ Head1.cancelled THEN "idle" ELSE before
<1>1. "idle" \in Presences
  BY DEF Presences
<1>2. p \in Presences
  BY <1>1, Parts, StateFields
<1>3. /\ st' = [st EXCEPT !.analyzer = FALSE, !.speaking = FALSE, !.lipsync = FALSE,
                          !.before = None, !.presence = p]
      /\ Advance(<<>>) /\ prog # <<>> /\ UNCHANGED <<ctl, library, rend, rest>>
  BY DEF CloseSpeech, Running
<1> HIDE DEF p
<1>4. st' \in State
  BY <1>2, <1>3, Parts, Zenon DEF State
<1> QED BY <1>3, <1>4, Parts, AdvanceType

LEMMA NoteLoadedType == ASSUME IInv, NoteLoaded PROVE IInv'
<1> DEFINE sel == IF Head1.select THEN Head1.avatar ELSE st.selected
           s == [st EXCEPT !.loaded = TRUE, !.avatar = Head1.avatar, !.armed = FALSE,
                           !.selected = sel]
<1>1. prog # <<>> /\ Head1 \in Instruction /\ Head1.do = "loaded"
  BY HeadType DEF NoteLoaded, Running
<1>2. Head1.avatar \in Avatars \cup {None} /\ sel \in Avatars \cup {None}
  BY <1>1, InstructionFields, Parts, StateFields
<1>3. /\ st' = s /\ ctl' = ResetController(ctl)
      /\ UNCHANGED <<library, rend, rest>>
  BY DEF NoteLoaded
<1>4. s \in State
  <2> HIDE DEF sel
  <2> QED BY <1>2, Parts, Zenon DEF State
<1>5. ctl' \in Controller
  BY <1>3, Parts, ResetType
<1>6. Advance(<<>>) \/ Raise
  BY DEF NoteLoaded
<1> HIDE DEF s
<1>7. CASE Advance(<<>>)
  BY <1>1, <1>3, <1>4, <1>5, <1>7, Parts, AdvanceType
<1>8. CASE Raise
  <2>1. /\ at' \in Positions /\ prog' = <<>> /\ call' \in CallType
        /\ UNCHANGED <<item, drained, asleep>>
    BY <1>8, RaiseType DEF IInv
  <2>2. prog' \in Seq(Instruction)
    BY <2>1
  <2> QED BY <1>3, <1>4, <1>5, <2>1, <2>2
          DEF IInv, rest, NoLostChild, TypeOK, CallType, Positions, Instruction
<1> QED BY <1>6, <1>7, <1>8

LEMMA NoteUnloadedType == ASSUME IInv, NoteUnloaded PROVE IInv'
<1>1. st' \in State
  BY Parts, Zenon DEF NoteUnloaded, State
<1>2. ctl' \in Controller
  BY Parts, ResetType DEF NoteUnloaded
<1> QED BY <1>1, <1>2, Parts, AdvanceType DEF NoteUnloaded, Running

LEMMA DeleteFilesType == ASSUME IInv, DeleteFiles PROVE IInv'
<1> DEFINE id == Head1.avatar
           sel == IF st.selected = id THEN None ELSE st.selected
<1>1. id \in Avatars /\ "none" \in File
  BY HeadType, InstructionFields DEF DeleteFiles, Running, File
<1>2. UNCHANGED <<ctl, rend, rest>> /\ library \in [Avatars -> Files] /\ rend' \in Renderer /\ Kept(rend')
  BY Parts DEF DeleteFiles
<1>3. /\ [library EXCEPT ![id] = [model |-> "none", record |-> "none"]] \in [Avatars -> Files]
      /\ [library EXCEPT ![id].model = "none"] \in [Avatars -> Files]
  BY <1>1, FilesLeft
<1>4. \/ /\ Advance(<<>>) /\ st' = [st EXCEPT !.selected = sel]
         /\ library' = [library EXCEPT ![id] = [model |-> "none", record |-> "none"]]
      \/ Raise /\ library' = [library EXCEPT ![id].model = "none"] /\ UNCHANGED st
      \/ Raise /\ UNCHANGED <<library, st>>
  BY DEF DeleteFiles
<1>5. prog # <<>> /\ sel \in Avatars \cup {None}
  BY Parts, StateFields DEF DeleteFiles, Running
<1> HIDE DEF sel, id
<1>6. library' \in [Avatars -> Files]
  BY <1>2, <1>3, <1>4
<1>7. CASE Advance(<<>>) /\ st' = [st EXCEPT !.selected = sel]
  <2>1. st' \in State
    BY <1>5, <1>7, Parts, Zenon DEF State
  <2> QED BY <1>2, <1>5, <1>6, <1>7, <2>1, Parts, AdvanceType
<1>8. CASE Raise /\ UNCHANGED st
  BY <1>2, <1>6, <1>8, RaisedFilesType
<1> QED BY <1>4, <1>7, <1>8

LEMMA FinishedType == ASSUME IInv, Finished PROVE IInv'
<1>1. call' \in CallType
  BY AnswerType DEF Finished, IInv, TypeOK, CallType
<1> QED BY <1>1 DEF Finished, rest, IInv, NoLostChild, TypeOK, CallType

-----------------------------------------------------------------------------
(* The loop and the world around the worker.                               *)

LEMMA TakeType == ASSUME IInv, Take PROVE IInv'
<1>1. queue' \in Seq(Item) /\ item' \in Item
  <2>1. CASE queue # <<>> /\ item' = Head(queue) /\ queue' = Tail(queue)
    BY <2>1 DEF IInv, TypeOK
  <2>2. CASE queue = <<>> /\ item' = Tick /\ UNCHANGED queue
    BY <2>2 DEF IInv, TypeOK, Tick, Item
  <2> QED BY <2>1, <2>2 DEF Take
<1>2. [rend EXCEPT !.exits = 0] \in Renderer /\ rend.exits \in Nat
  BY 0 \in Nat, Parts, Zenon DEF Renderer
<1>3. /\ [rend EXCEPT !.exits = 0].host = rend.host
      /\ [rend EXCEPT !.exits = 0].alive = rend.alive
  BY Parts, Zenon DEF Renderer
<1>4. drained' \in Nat /\ rend' \in Renderer /\ Kept(rend')
  <2>1. CASE rend.host = "none"
    BY <2>1, Parts DEF Take
  <2>2. CASE rend.host # "none"
    <3>1. drained' = rend.exits /\ rend' = [rend EXCEPT !.exits = 0]
      BY <2>2 DEF Take
    <3> QED BY <1>2, <1>3, <3>1, Parts DEF Kept
  <2> QED BY <2>1, <2>2
<1> QED BY <1>1, <1>4 DEF Take, IInv, NoLostChild, TypeOK, Kept

LEMMA LeaveType == ASSUME IInv, Leave PROVE IInv'
BY DEF Leave, rest, IInv, NoLostChild, TypeOK

LEMMA RestartType == ASSUME IInv, Restart PROVE IInv'
<1> DEFINE again == IF st.loaded /\ st.avatar # None /\ Found(st.avatar)
                    THEN <<[do |-> "reload", avatar |-> st.avatar]>> ELSE <<>>
           face == [do |-> "SetExpression", face |-> st.face]
           p == again \o <<face>> \o SendAttrs(st.attr)
<1>1. PICK r \in Restarted(rend) :
        rend' = r /\ prog' = IF ~r.alive THEN <<>> ELSE p
  BY DEF Restart
<1>2. rend' \in Renderer /\ Kept(rend')
  BY <1>1, Parts, RestartedType
<1>3. again \in Seq(Instruction)
  <2>1. CASE st.loaded /\ st.avatar # None /\ Found(st.avatar)
    <3> DEFINE i == [do |-> "reload", avatar |-> st.avatar]
    <3>1. st.avatar \in Avatars
      BY <2>1, Parts, StateFields
    <3>2. i \in Instruction
      BY <3>1, SimpleInstructions, Zenon
    <3>3. again = <<i>>
      BY <2>1
    <3> HIDE DEF i, again
    <3> QED BY <3>2, <3>3
  <2>2. CASE ~(st.loaded /\ st.avatar # None /\ Found(st.avatar))
    BY <2>2
  <2> QED BY <2>1, <2>2
<1>4. face \in Instruction
  <2>1. st.face \in Faces
    BY Parts, StateFields
  <2> QED BY <2>1, SimpleInstructions, Zenon
<1>5. SendAttrs(st.attr) \in Seq(Instruction)
  BY Parts, StateFields, SendAttrsType
<1>6. p \in Seq(Instruction)
  <2> HIDE DEF again, face
  <2>1. again \o <<face>> \in Seq(Instruction)
    BY <1>3, <1>4
  <2> QED BY <1>5, <2>1, SequenceFacts
<1> HIDE DEF p
<1>7. prog' \in Seq(Instruction)
  BY <1>1, <1>6
<1> QED BY <1>2, <1>7 DEF Restart, rest, IInv, NoLostChild, TypeOK, Kept, Instruction

LEMMA SubmitType == ASSUME IInv, NEW c \in Clients, Submit(c) PROVE IInv'
<1> DEFINE msg(cmd) == [kind |-> "command", cmd |-> cmd, who |-> c, n |-> inputs']
           told(a) == [s |-> a, n |-> inputs']
<1>1. inputs' \in 1..MaxInputs /\ inputs' \in 0..MaxInputs
  BY ActorAssumption DEF Submit, Offer, IInv, TypeOK
<1>2. PICK cmd \in Commands :
        \/ call' = [call EXCEPT ![c] = told("refused")] /\ UNCHANGED queue
        \/ call' = [call EXCEPT ![c] = told("waiting")] /\ queue' = Append(queue, msg(cmd))
  BY DEF Submit
<1>3. msg(cmd) \in Item
  BY <1>1 DEF Item
<1>4. \A a \in {"refused", "waiting"} :
        told(a) \in [s : {"idle", "waiting", "refused", "timeout", "ok", "error"},
                     n : 0..MaxInputs]
  BY <1>1
<1> HIDE DEF msg, told
<1>5. queue \in Seq(Item) /\ call \in CallType
  BY DEF IInv, TypeOK, CallType
<1>6. queue' \in Seq(Item)
  BY <1>2, <1>3, <1>5, SequenceFacts
<1>7. call' \in CallType
  BY <1>2, <1>4, <1>5 DEF CallType
<1> QED BY <1>1, <1>6, <1>7
        DEF Submit, actor, worker, IInv, NoLostChild, TypeOK, CallType

LEMMA GiveUpType == ASSUME IInv, NEW c \in Clients, GiveUp(c) PROVE IInv'
<1>1. call' \in CallType
  BY DEF GiveUp, IInv, TypeOK, CallType
<1> QED BY <1>1 DEF GiveUp, actor, worker, IInv, NoLostChild, TypeOK, CallType

LEMMA NotifyType == ASSUME IInv, Notify PROVE IInv'
<1>1. inputs' \in 0..MaxInputs
  BY ActorAssumption DEF Notify, Offer, IInv, TypeOK
<1>2. \A p \in Inferred : [kind |-> "runtime", presence |-> p] \in Item
  BY ActorAssumption DEF Item
<1>3. [kind |-> "exit"] \in Item
  BY DEF Item
<1>4. queue' \in Seq(Item)
  <2>1. queue \in Seq(Item)
    BY DEF IInv, TypeOK
  <2>2. PICK i \in Item : queue' = Append(queue, i)
    BY <1>2, <1>3 DEF Notify
  <2> QED BY <2>1, <2>2, SequenceFacts
<1> QED BY <1>1, <1>4 DEF Notify, actor, worker, IInv, NoLostChild, TypeOK

LEMMA ChildDiesType == ASSUME IInv, ChildDies PROVE IInv'
<1>1. rend' \in Renderer /\ rend'.alive = FALSE
  BY Parts, Zenon DEF ChildDies, Renderer
<1> QED BY <1>1 DEF ChildDies, worker, IInv, NoLostChild, TypeOK

LEMMA ReaderPostsType == ASSUME IInv, ReaderPosts PROVE IInv'
<1>1. rend.exits + 1 \in Nat
  BY Parts DEF Renderer
<1>2. /\ rend' \in Renderer
      /\ rend'.alive = rend.alive /\ rend'.host = rend.host
  BY <1>1, Parts, Zenon DEF ReaderPosts, Renderer
<1> QED BY <1>2 DEF ReaderPosts, worker, IInv, NoLostChild, TypeOK

LEMMA StopSignalType == ASSUME IInv, Stop PROVE IInv'
BY DEF Stop, worker, IInv, NoLostChild, TypeOK

LEMMA CloseRendererType == ASSUME IInv, CloseRenderer PROVE IInv'
<1> DEFINE more == IF rend.alive \/ rend.eof THEN rend.exits + 1 ELSE rend.exits
           ended == [rend EXCEPT !.host = "stopped", !.alive = FALSE, !.eof = FALSE,
                                 !.exits = more]
<1>1. rend' = IF rend.host = "none" THEN rend ELSE ended
  BY DEF CloseRenderer
<1>2. more \in Nat
  BY Parts DEF Renderer
<1>3. ended \in Renderer /\ ended.alive = FALSE
  <2> HIDE DEF more
  <2> QED BY <1>2, Parts, Zenon DEF Renderer
<1> HIDE DEF ended
<1>4. rend' \in Renderer /\ Kept(rend')
  BY <1>1, <1>3, Parts DEF Kept
<1> QED BY <1>4 DEF CloseRenderer, worker, IInv, NoLostChild, TypeOK, Kept

LEMMA InitType == ASSUME Init PROVE IInv
<1>1. st \in State
  <2>1. /\ {} \in SUBSET Faces /\ [a \in Attrs |-> Default] \in [Attrs -> Values]
        /\ "idle" \in Presences /\ Neutral \in Faces
    BY ActorAssumption DEF Presences
  <2> QED BY <2>1, Zenon DEF Init, NewState, State
<1>2. ctl \in Controller
  BY NewControllerType DEF Init
<1>3. rend \in Renderer /\ rend.alive = FALSE
  BY EmptySceneType, 0 \in Nat, Zenon DEF Init, Renderer
<1>4. queue \in Seq(Item) /\ item \in Item
  <2>1. Probe \in Item /\ Tick \in Item
    BY DEF Probe, Tick, Item
  <2> QED BY <2>1 DEF Init
<1>5. call \in CallType
  BY ActorAssumption DEF Init, CallType
<1>6. prog \in Seq(Instruction)
  BY DEF Init
<1>7. inputs \in 0..MaxInputs
  BY ActorAssumption DEF Init
<1>8. library \in [Avatars -> Files]
  BY DEF Init, Libraries
<1> QED BY <1>1, <1>2, <1>3, <1>4, <1>5, <1>6, <1>7, <1>8
        DEF Init, IInv, NoLostChild, TypeOK, CallType, Instruction

-----------------------------------------------------------------------------
(* Every step preserves the invariant.                                     *)

LEMMA HandlerType == ASSUME IInv, Handler PROVE IInv'
BY StatusType, PresenceType, EmotionType, FaceType, AttrType, PlayType, StopType,
   SpeechBeginType, SpeechAudioType, SpeechCloseType, LoadType, UnloadType, ShowType,
   HideType, DeleteType, ImportType, RuntimeType, ProbeType, ExitNoticeType, TickType
   DEF Handler

LEMMA HandlerStepType == ASSUME IInv, HandlerStep PROVE IInv'
BY CallRendererType, RequireType, LoadAvatarType, SetFaceType, NotePlayingType,
   PlayIdleClipType, NoteLipsyncType, CloseSpeechType, NoteVisibleType, NoteLoadedType,
   NoteUnloadedType, DeleteFilesType DEF HandlerStep

LEMMA NextType == ASSUME IInv, [Next]_vars PROVE IInv'
<1>1. CASE Worker
  BY <1>1, TakeType, LeaveType, HandleExitType, RestartType, HandlerType, HandlerStepType,
     FinishedType DEF Worker
<1>2. CASE Environment
  BY <1>2, SubmitType, GiveUpType, NotifyType, ChildDiesType, ReaderPostsType,
     StopSignalType, CloseRendererType DEF Environment
<1>3. CASE UNCHANGED vars
  BY <1>3 DEF vars, worker, IInv, NoLostChild, TypeOK
<1> QED BY <1>1, <1>2, <1>3 DEF Next

\* Types are correct, and the actor never forgets a renderer child that still
\* runs: in every reachable state a host it dropped, has not started or has
\* shut down has no living child, whatever sequence of crashes, failed starts,
\* timeouts, restarts and shutdowns led there.
THEOREM ActorSafety == Spec => [](TypeOK /\ NoLostChild)
<1>1. Init => IInv
  BY InitType
<1>2. IInv /\ [Next]_vars => IInv'
  BY NextType
<1>3. IInv => TypeOK /\ NoLostChild
  BY DEF IInv
<1> QED BY <1>1, <1>2, <1>3, PTL DEF Spec

\* Every variable keeps its type: no handler, restart or failed call leaves a queue item, a
\* program or a renderer that the next step has no case for.
THEOREM ActorTyped == Spec => []TypeOK
<1>1. TypeOK /\ NoLostChild => TypeOK
  OBVIOUS
<1> QED BY <1>1, ActorSafety, PTL

-----------------------------------------------------------------------------
(* Mouth, session, library and exit events.  The invariant is about what   *)
(* is left of the running handler: which programs there are that touch the *)
(* mouth, end a session or remove an avatar, and what has become of state  *)
(* and renderer at each of their steps.                                    *)

Viseme(b) == [do |-> "SetVisemes", open |-> b]
Closed(b) == [do |-> "closed", cancelled |-> b]
Deleted(a) == [do |-> "deleted", avatar |-> a]

OpenMouth(r) == r.alive /\ r.scene.open

\* A session is whole also while a handler runs.
Whole(s) == (s.speaking <=> s.analyzer) /\ (s.speaking <=> s.before # None)

\* The avatars that have both files, and those that have a record.
Shelved(lib) == {a \in Avatars : lib[a].model # "none" /\ lib[a].record # "none"}
Recorded(lib) == {a \in Avatars : lib[a].record # "none"}

Stored(s, lib) ==
    (s.loaded => s.avatar \in Shelved(lib)) /\ (s.selected # None => s.selected \in Recorded(lib))

\* Instructions that touch neither mouth nor session, remove nothing, and load what is there.
Safe(lib) ==
    {i \in Instruction : /\ i.do \notin {"SetVisemes", "closed", "deleted"}
                         /\ i.do = "loaded" => i.avatar \in Shelved(lib)}

Programs ==
    \/ prog \in Seq(Safe(library))
    \/ st.speaking /\ \E b \in BOOLEAN : prog = <<Viseme(b), Do("lipsync")>>
    \/ \E b \in BOOLEAN : prog = <<Viseme(FALSE), Closed(b)>>
    \/ ~OpenMouth(rend) /\ \E b \in BOOLEAN : prog = <<Closed(b)>>
    \/ \E a \in Avatars : \/ prog = <<Do("UnloadAvatar"), Do("unloaded"), Deleted(a)>>
                          \/ prog = <<Do("unloaded"), Deleted(a)>>
                          \/ prog = <<Deleted(a)>> /\ ~(st.loaded /\ st.avatar = a)

\* One child at a time has an exit event under way, and only once it is dead.
Notices(r) ==
    /\ r.exits \in {0, 1} /\ (r.exits = 1 => ~r.alive /\ ~r.eof) /\ (r.eof => ~r.alive)
    /\ r.host \in {"none", "fresh"} => r.exits = 0 /\ ~r.eof

Gone(r) == ~r.alive /\ ~r.eof /\ r.exits = 0

\* Nobody but the reader of a dead child tells of its end, and once only.
Exits ==
    /\ item.kind # "exit" /\ \A k \in DOMAIN queue : queue[k].kind # "exit"
    /\ Notices(rend)
    /\ asleep => at # "top" /\ prog = <<>> /\ drained = 0 /\ Gone(rend)
    /\ drained # 0 => drained = 1 /\ at = "poll" /\ prog = <<>> /\ ~asleep /\ Gone(rend)
    /\ at = "top" => prog = <<>>

Held == Whole(st) /\ MouthFollowsSpeech /\ Stored(st, library) /\ Programs /\ (~ExitNotice => Exits)

AInv == IInv /\ Held

-----------------------------------------------------------------------------
(* What the outcomes of a call on the renderer mean for them.              *)

LEMMA RendererFields ==
    ASSUME NEW r \in Renderer
    PROVE  /\ r.host \in {"none", "fresh", "up", "stopped"} /\ r.alive \in BOOLEAN /\ r.scene \in Scene
           /\ r.eof \in BOOLEAN /\ r.exits \in Nat
BY DEF Renderer

LEMMA SpawnedIs ==
    ASSUME NEW r \in Renderer
    PROVE  /\ Spawned(r).host = "up" /\ Spawned(r).alive /\ ~Spawned(r).eof
           /\ Spawned(r).exits = IF r.host = "none" THEN 0 ELSE r.exits
           /\ Spawned(r).scene = EmptyScene /\ ~EmptyScene.open
<1>1. ~EmptyScene.open
  BY DEF EmptyScene
<1> QED BY <1>1, Zenon DEF Spawned, Renderer

LEMMA UnavailableIs ==
    ASSUME NEW r \in Renderer
    PROVE  /\ Unavailable(r).host = r.host /\ Unavailable(r).alive = r.alive /\ Unavailable(r).eof = r.eof
           /\ Unavailable(r).exits = r.exits /\ Unavailable(r).scene = r.scene
BY Zenon DEF Unavailable, Renderer

LEMMA DroppedIs ==
    ASSUME NEW r \in Renderer
    PROVE  /\ Dropped(r).host = "none" /\ Dropped(r).alive = r.alive /\ Dropped(r).eof = FALSE
           /\ Dropped(r).exits = 0
BY Zenon DEF Dropped, Unavailable, Renderer

LEMMA EnsuredKeeps ==
    ASSUME NEW r \in Renderer, Kept(r), NEW e \in Ensured(r)
    PROVE  /\ OpenMouth(e[1]) => OpenMouth(r)
           /\ ~e[2] => ~e[1].alive
           /\ Notices(r) => Notices(e[1])
<1> DEFINE usable(s) == [s EXCEPT !.state = "running", !.attempts = 0]
           stillborn == [Spawned(r) EXCEPT !.alive = FALSE, !.eof = TRUE]
<1>1. ASSUME NEW s \in Renderer
      PROVE  /\ usable(s).host = s.host /\ usable(s).alive = s.alive /\ usable(s).eof = s.eof
             /\ usable(s).exits = s.exits /\ usable(s).scene = s.scene
  BY Zenon DEF Renderer
<1>2. /\ stillborn \in Renderer /\ stillborn.alive = FALSE /\ stillborn.eof = TRUE /\ stillborn.host = "up"
      /\ stillborn.exits = Spawned(r).exits
  <2>1. Spawned(r) \in Renderer /\ Spawned(r).host = "up"
    BY SpawnedType
  <2> QED BY <2>1, Zenon DEF Renderer
<1>3. CASE r.host = "up" /\ r.alive
  <2>1. e = <<usable(r), TRUE>>
    BY <1>3 DEF Ensured
  <2> HIDE DEF usable
  <2> QED BY <1>1, <2>1 DEF OpenMouth, Notices
<1>4. CASE r.host = "stopped" \/ (r.host = "up" /\ ~r.alive)
  <2>1. e = <<Dropped(r), FALSE>>
    BY <1>4 DEF Ensured
  <2>2. ~r.alive
    BY <1>4 DEF Kept
  <2> QED BY <2>1, <2>2, DroppedIs DEF OpenMouth, Notices
<1>5. CASE r.host \notin {"up", "stopped"}
  <2>1. e \in {<<usable(Spawned(r)), TRUE>>, <<Dropped(r), FALSE>>, <<Unavailable(stillborn), FALSE>>}
    BY <1>5 DEF Ensured
  <2>2. ~r.alive /\ r.host \in {"none", "fresh"}
    BY <1>5, RendererFields DEF Kept
  <2>3. CASE e = <<usable(Spawned(r)), TRUE>>
    <3>1. Spawned(r) \in Renderer
      BY SpawnedType
    <3> HIDE DEF usable
    <3> QED BY <1>1, <2>2, <2>3, <3>1, SpawnedIs DEF OpenMouth, Notices
  <2>4. CASE e = <<Dropped(r), FALSE>>
    BY <2>2, <2>4, DroppedIs DEF OpenMouth, Notices
  <2>5. CASE e = <<Unavailable(stillborn), FALSE>>
    <3> HIDE DEF stillborn
    <3>1. /\ Unavailable(stillborn).alive = FALSE /\ Unavailable(stillborn).eof = TRUE
          /\ Unavailable(stillborn).host = "up" /\ Unavailable(stillborn).exits = Spawned(r).exits
      BY <1>2, UnavailableIs
    <3> QED BY <2>2, <2>5, <3>1, SpawnedIs DEF OpenMouth, Notices
  <2> QED BY <2>1, <2>3, <2>4, <2>5
<1> QED BY <1>3, <1>4, <1>5

\* Only SetVisemes opens or closes the mouth.
LEMMA ShownMouth ==
    ASSUME NEW s \in Scene, NEW i \in Instruction, i.do \in RendererCommands \cup {"load", "reload"}
    PROVE  Shown(s, i).open = IF i.do = "SetVisemes" THEN i.open ELSE s.open
<1>1. ASSUME NEW a  PROVE Staged(s, a).open = s.open
  BY Zenon DEF Staged, Scene
<1>2. CASE i.do \in {"load", "reload"}
  BY <1>1, <1>2 DEF Shown
<1>3. CASE i.do = "UnloadAvatar"
  BY <1>1, <1>3 DEF Shown
<1>4. CASE i.do = "SetVisemes"
  <2>1. [s EXCEPT !.open = i.open].open = i.open
    BY Zenon DEF Scene
  <2> QED BY <1>4, <2>1 DEF Shown
<1>5. CASE i.do \in {"ShowWindow", "HideWindow"}
  <2>1. [s EXCEPT !.shown = TRUE].open = s.open /\ [s EXCEPT !.shown = FALSE].open = s.open
    BY Zenon DEF Scene
  <2> QED BY <1>5, <2>1 DEF Shown
<1>6. CASE i.do = "SetExpression"
  <2>1. [s EXCEPT !.face = i.face].open = s.open
    BY Zenon DEF Scene
  <2> QED BY <1>6, <2>1 DEF Shown
<1>7. CASE i.do = "SetAttr"
  <2>1. [s EXCEPT !.attr[i.name] = i.value].open = s.open
    BY Zenon DEF Scene
  <2> QED BY <1>7, <2>1 DEF Shown
<1>8. CASE i.do = "PlayAnimation"
  BY <1>8 DEF Shown
<1> QED BY <1>2, <1>3, <1>4, <1>5, <1>6, <1>7, <1>8 DEF RendererCommands

LEMMA RequestedKeeps ==
    ASSUME NEW r \in Renderer, Kept(r), NEW i \in Instruction,
           i.do \in RendererCommands \cup {"load", "reload"}, NEW q \in Requested(r, i)
    PROVE  /\ OpenMouth(q[1]) => OpenMouth(r) \/ (i.do = "SetVisemes" /\ i.open)
           /\ q[2] = "ok" /\ i.do = "SetVisemes" /\ ~i.open => ~OpenMouth(q[1])
           /\ Notices(r) => Notices(q[1])
<1> DEFINE done == [r EXCEPT !.scene = Shown(@, i)]
           ended == [r EXCEPT !.alive = FALSE, !.eof = @ \/ r.alive]
           dead == Unavailable(ended)
<1>1. /\ done.scene = Shown(r.scene, i) /\ done.alive = r.alive /\ done.eof = r.eof
      /\ done.exits = r.exits /\ done.host = r.host
  BY Zenon DEF Renderer
<1>2. done.scene.open = IF i.do = "SetVisemes" THEN i.open ELSE r.scene.open
  BY <1>1, ShownMouth, RendererFields
<1>3. /\ ended \in Renderer /\ ended.alive = FALSE /\ ended.eof = (r.eof \/ r.alive)
      /\ ended.exits = r.exits /\ ended.host = r.host
  <2>1. (r.eof \/ r.alive) \in BOOLEAN
    OBVIOUS
  <2> QED BY <2>1, Zenon DEF Renderer
<1>4. /\ dead.alive = FALSE /\ dead.eof = (r.eof \/ r.alive) /\ dead.exits = r.exits /\ dead.host = r.host
  <2> HIDE DEF ended
  <2> QED BY <1>3, UnavailableIs
<1>5. IF r.alive THEN q \in {<<done, "ok">>, <<r, "failed">>, <<done, "failed">>, <<dead, "failed">>}
      ELSE q = <<dead, "failed">>
  BY DEF Requested
<1> HIDE DEF done, dead
<1>6. CASE q = <<dead, "failed">>
  BY <1>4, <1>6, RendererFields DEF OpenMouth, Notices, Kept
<1>7. CASE q = <<r, "failed">>
  BY <1>7
<1>8. CASE q \in {<<done, "ok">>, <<done, "failed">>}
  BY <1>1, <1>2, <1>8 DEF OpenMouth, Notices
<1> QED BY <1>5, <1>6, <1>7, <1>8

LEMMA RestartedKeeps ==
    ASSUME NEW r \in Renderer, Kept(r), NEW q \in Restarted(r)
    PROVE  ~OpenMouth(q) /\ (Gone(r) /\ Notices(r) => Notices(q))
<1> DEFINE more == IF r.alive \/ r.eof THEN r.exits + 1 ELSE r.exits
           ended == [r EXCEPT !.alive = FALSE, !.eof = FALSE, !.exits = more]
<1>1. CASE r.host = "none"
  BY <1>1, UnavailableIs DEF Restarted, Kept, OpenMouth, Notices
<1>2. CASE r.host # "none"
  <2>1. more \in Nat /\ (Gone(r) => more = 0)
    BY RendererFields DEF Gone
  <2>2. ended \in Renderer /\ ended.alive = FALSE /\ ended.exits = more /\ ended.eof = FALSE /\ ended.host = r.host
    <3> HIDE DEF more
    <3> QED BY <2>1, Zenon DEF Renderer
  <2>3. q \in {[Spawned(ended) EXCEPT !.state = "running"],
               Unavailable([ended EXCEPT !.host = "stopped", !.exits = @ + 1]),
               Unavailable([ended EXCEPT !.host = "fresh"])}
    BY <1>2 DEF Restarted
  <2> HIDE DEF ended, more
  <2>4. CASE q = [Spawned(ended) EXCEPT !.state = "running"]
    <3>1. Spawned(ended) \in Renderer
      BY <2>2, SpawnedType
    <3>2. /\ q.host = Spawned(ended).host /\ q.alive = Spawned(ended).alive /\ q.eof = Spawned(ended).eof
          /\ q.exits = Spawned(ended).exits /\ q.scene = Spawned(ended).scene
      BY <2>4, <3>1, Zenon DEF Renderer
    <3> QED BY <1>2, <2>1, <2>2, <3>2, SpawnedIs DEF OpenMouth, Notices
  <2>5. CASE q = Unavailable([ended EXCEPT !.host = "stopped", !.exits = @ + 1])
    <3> DEFINE s == [ended EXCEPT !.host = "stopped", !.exits = ended.exits + 1]
    <3>1. ended.exits + 1 \in Nat
      BY <2>2, <2>1
    <3>2. /\ s \in Renderer /\ s.alive = FALSE /\ s.eof = FALSE /\ s.host = "stopped"
          /\ s.exits = ended.exits + 1
      BY <2>2, <3>1, Zenon DEF Renderer
    <3>3. q = Unavailable(s)
      BY <2>5
    <3> HIDE DEF s
    <3> QED BY <2>1, <2>2, <3>2, <3>3, UnavailableIs DEF OpenMouth, Notices
  <2>6. CASE q = Unavailable([ended EXCEPT !.host = "fresh"])
    <3> DEFINE s == [ended EXCEPT !.host = "fresh"]
    <3>1. /\ s \in Renderer /\ s.alive = FALSE /\ s.eof = FALSE /\ s.exits = ended.exits
      BY <2>2, Zenon DEF Renderer
    <3>2. q = Unavailable(s)
      BY <2>6
    <3> HIDE DEF s
    <3> QED BY <2>1, <2>2, <3>1, <3>2, UnavailableIs DEF OpenMouth, Notices
  <2> QED BY <2>3, <2>4, <2>5, <2>6
<1> QED BY <1>1, <1>2
-----------------------------------------------------------------------------
(* Safe programs.                                                          *)

LEMMA SafeInstructions ==
    ASSUME NEW lib
    PROVE  /\ Safe(lib) \subseteq Instruction
           /\ \A d \in {"UnloadAvatar", "ShowWindow", "HideWindow", "require", "unloaded",
                        "lipsync", "idle", "visible"} : Do(d) \in Safe(lib)
           /\ \A f \in Faces : /\ SetFaceTo(f) \in Safe(lib)
                               /\ [do |-> "SetExpression", face |-> f] \in Safe(lib)
           /\ \A a \in Avatars : \A d \in {"load", "reload"} : [do |-> d, avatar |-> a] \in Safe(lib)
           /\ \A a \in Avatars \cap Shelved(lib), b \in BOOLEAN :
                 [do |-> "loaded", avatar |-> a, select |-> b] \in Safe(lib)
           /\ \A a \in Attrs, v \in Values : SetAttr(a, v) \in Safe(lib)
BY DEF Safe, Do, SetFaceTo, SetAttr, Instruction, Calls, Updates

LEMMA FoundShelved ==
    ASSUME NEW a \in Avatars, Found(a)
    PROVE  a \in Shelved(library)
BY DEF Found, Shelved

LEMMA SendAttrsSafe ==
    ASSUME NEW attr \in [Attrs -> Values], NEW lib
    PROVE  SendAttrs(attr) \in Seq(Safe(lib))
<1>1. PICK n \in Nat : DOMAIN Resynced = 1..n /\ Resynced \in [1..n -> Attrs]
  BY ActorAssumption
<1>2. ASSUME NEW k \in 1..n
      PROVE  SetAttr(Resynced[k], attr[Resynced[k]]) \in Safe(lib)
  <2>1. Resynced[k] \in Attrs /\ attr[Resynced[k]] \in Values
    BY <1>1
  <2> QED BY <2>1, SafeInstructions
<1>3. SendAttrs(attr) \in [1..n -> Safe(lib)]
  BY <1>1, <1>2 DEF SendAttrs
<1> QED BY <1>3

LEMMA PlaysSafe ==
    ASSUME NEW cmds \in Seq(Play), NEW lib
    PROVE  Plays(cmds) \in Seq(Safe(lib))
<1>1. CASE cmds = <<>>
  BY <1>1 DEF Plays
<1>2. CASE cmds # <<>>
  <2>1. cmds[1] \in Play
    BY <1>2
  <2>2. /\ [do |-> "PlayAnimation", play |-> cmds[1]] \in Safe(lib)
        /\ [do |-> "playing", play |-> cmds[1]] \in Safe(lib)
    BY <2>1 DEF Safe, Instruction, Calls, Updates
  <2> QED BY <1>2, <2>2 DEF Plays
<1> QED BY <1>1, <1>2

\* The fields of the state that the invariant is about.
Same(s, t) ==
    /\ t.speaking = s.speaking /\ t.analyzer = s.analyzer /\ t.before = s.before
    /\ t.loaded = s.loaded /\ t.avatar = s.avatar /\ t.selected = s.selected

LEMMA StateSame ==
    ASSUME NEW s \in State, NEW x, NEW y
    PROVE  /\ Same(s, [s EXCEPT !.presence = x]) /\ Same(s, [s EXCEPT !.presence = x, !.explicit = y])
           /\ Same(s, [s EXCEPT !.emotion = x]) /\ Same(s, [s EXCEPT !.face = x])
           /\ Same(s, [s EXCEPT !.faces = x]) /\ Same(s, [s EXCEPT !.attr[x] = y])
           /\ Same(s, [s EXCEPT !.visible = x]) /\ Same(s, [s EXCEPT !.lipsync = x])
           /\ Same(s, [s EXCEPT !.armed = x]) /\ Same(s, [s EXCEPT !.animation = x, !.armed = y])
BY Zenon DEF State, Same

-----------------------------------------------------------------------------
(* A handler begins, goes on, or is abandoned.                             *)

\* Where nothing is under way.
Idle == prog = <<>> /\ ~asleep /\ drained = 0

LEMMA ReadyIdle == ASSUME NEW kind, Ready(kind)  PROVE Idle /\ at = "poll" /\ item.kind = kind
BY DEF Ready, Idle

LEMMA SameHeld ==
    ASSUME NEW s, NEW t, NEW lib, Same(s, t)
    PROVE  (Whole(s) => Whole(t)) /\ (Stored(s, lib) => Stored(t, lib)) /\ t.speaking = s.speaking
BY DEF Same, Whole, Stored

\* A handler that has begun.
LEMMA BeginKeeps ==
    ASSUME AInv, Idle, NEW s, NEW c, NEW p, Begin(s, c, p), UNCHANGED rend,
           Whole(s), st.speaking => s.speaking, Stored(s, library'), Programs'
    PROVE  Held'
<1>1. /\ st' = s /\ prog' = p /\ at' = "exec" /\ UNCHANGED <<item, drained, asleep, queue>>
  BY DEF Begin, rest
<1>2. MouthFollowsSpeech'
  BY <1>1 DEF AInv, Held, MouthFollowsSpeech
<1>3. ~ExitNotice => Exits'
  BY <1>1 DEF AInv, Held, Exits, Idle
<1> QED BY <1>1, <1>2, <1>3 DEF Held

\* One that touches neither mouth, session nor library.
LEMMA BeginSafe ==
    ASSUME AInv, Idle, NEW s, NEW c, NEW p \in Seq(Safe(library)), Begin(s, c, p), UNCHANGED <<library, rend>>,
           Same(st, s)
    PROVE  Held'
<1>1. Programs'
  BY DEF Programs, Begin
<1>2. Whole(s) /\ Stored(s, library') /\ s.speaking = st.speaking
  BY SameHeld DEF AInv, Held
<1> QED BY <1>1, <1>2, BeginKeeps

LEMMA RejectedKeeps ==
    ASSUME AInv, Idle, Reject, Stored(st, library'), UNCHANGED rend
    PROVE  Held'
<1>1. prog' = <<>> /\ at' = "top" /\ UNCHANGED <<item, drained, asleep, st, queue>>
  BY DEF Reject, rest, Idle
<1>2. Programs'
  BY <1>1, SequenceFacts DEF Programs
<1>3. Stored(st', library')
  BY <1>1
<1> QED BY <1>1, <1>2, <1>3 DEF AInv, Held, MouthFollowsSpeech, Exits, Idle

LEMMA RejectKeeps ==
    ASSUME AInv, Idle, Reject, UNCHANGED <<library, rend>>
    PROVE  Held'
BY RejectedKeeps DEF AInv, Held

\* A step of a running handler, however it ends.
LEMMA StepKeeps ==
    ASSUME AInv, prog # <<>>, UNCHANGED rest, Raise \/ \E more : Advance(more) \/ (prog' = <<>> /\ UNCHANGED <<at, item, drained, asleep>>),
           Whole(st'), Stored(st', library'), OpenMouth(rend') => st'.speaking,
           prog' = <<>> \/ Programs', Notices(rend) => Notices(rend')
    PROVE  Held'
<1>1. /\ UNCHANGED <<item, drained, asleep, queue>> /\ (at' = at \/ (at' \in {"top", "dead"} /\ prog' = <<>>))
  BY DEF Advance, Raise, rest
<1>2. ~ExitNotice => Exits'
  BY <1>1 DEF AInv, Held, Exits
<1>3. Programs'
  BY SequenceFacts DEF Programs
<1> QED BY <1>2, <1>3 DEF Held, MouthFollowsSpeech, OpenMouth

\* A step of a safe program, after which it is still safe.
LEMMA SafeStep ==
    ASSUME AInv, prog # <<>>, prog \in Seq(Safe(library)), UNCHANGED <<library, rest>>,
           Raise \/ \E more \in Seq(Safe(library)) : Advance(more)
                    \/ (prog' = <<>> /\ UNCHANGED <<at, item, drained, asleep>>),
           Same(st, st'), OpenMouth(rend') => OpenMouth(rend), Notices(rend) => Notices(rend')
    PROVE  Held'
<1>1. Whole(st') /\ Stored(st', library') /\ st'.speaking = st.speaking
  BY SameHeld DEF AInv, Held
<1>2. OpenMouth(rend') => st'.speaking
  BY <1>1 DEF AInv, Held, MouthFollowsSpeech, OpenMouth
<1>3. prog' = <<>> \/ Programs'
  BY SequenceFacts DEF Raise, Advance, Programs
<1> QED BY <1>1, <1>2, <1>3, StepKeeps

\* Instructions whose program cannot be one of the others.
LEMMA HeadSafe ==
    ASSUME Programs, prog # <<>>, Head1.do \notin {"SetVisemes", "closed", "deleted", "UnloadAvatar", "unloaded"}
    PROVE  prog \in Seq(Safe(library))
BY DEF Programs, Head1, Viseme, Closed, Deleted, Do

-----------------------------------------------------------------------------
(* Handlers that touch neither mouth, session nor library.                 *)

LEMMA EmptySafe == <<>> \in Seq(Safe(library))
OBVIOUS

LEMMA SameItself == Same(st, st)
BY DEF Same

LEMMA StatusKeeps == ASSUME AInv, DoStatus PROVE Held'
BY ReadyIdle, BeginSafe, EmptySafe, SameItself DEF DoStatus, Command

LEMMA PresenceKeeps == ASSUME AInv, DoPresence PROVE Held'
<1> DEFINE p == item.cmd.presence
<1>1. Same(st, [st EXCEPT !.presence = p, !.explicit = p # "idle"])
  BY Parts, StateSame DEF AInv
<1> QED BY <1>1, ReadyIdle, BeginSafe, EmptySafe DEF DoPresence, Command

LEMMA EmotionKeeps == ASSUME AInv, DoEmotion PROVE Held'
<1>1. Same(st, [st EXCEPT !.emotion = item.cmd.face])
  BY Parts, StateSame DEF AInv
<1>2. item.cmd.face \in Faces
  BY CommandTaken, CommandFields DEF DoEmotion, AInv, IInv
<1>3. <<SetFaceTo(item.cmd.face)>> \in Seq(Safe(library))
  BY <1>2, SafeInstructions, SequenceFacts
<1> QED BY <1>1, <1>3, ReadyIdle, BeginSafe DEF DoEmotion, Command

LEMMA FaceKeeps == ASSUME AInv, DoFace PROVE Held'
<1>1. item.cmd.face \in Faces
  BY CommandTaken, CommandFields DEF DoFace, AInv, IInv
<1>2. <<SetFaceTo(item.cmd.face)>> \in Seq(Safe(library))
  BY <1>1, SafeInstructions, SequenceFacts
<1> QED BY <1>2, ReadyIdle, BeginSafe, SameItself DEF DoFace, Command

LEMMA AttrKeeps == ASSUME AInv, DoAttr PROVE Held'
<1> DEFINE a == item.cmd.name
           v == item.cmd.value
<1>1. Same(st, [st EXCEPT !.attr[a] = v])
  BY Parts, StateSame DEF AInv
<1>2. a \in Attrs /\ v \in Values
  BY CommandTaken, CommandFields DEF DoAttr, AInv, IInv
<1>3. <<SetAttr(a, v)>> \in Seq(Safe(library))
  BY <1>2, SafeInstructions, SequenceFacts
<1> QED BY <1>1, <1>3, ReadyIdle, BeginSafe DEF DoAttr, Command

LEMMA PlayKeeps == ASSUME AInv, DoPlay PROVE Held'
<1> DEFINE r == PlayClip(ctl, item.cmd.play)
<1>1. item.cmd.play \in Play
  BY CommandTaken, CommandFields DEF DoPlay, AInv, IInv
<1>2. Plays(r.cmds) \in Seq(Safe(library))
  BY <1>1, Parts, PlayClipType, PlaysSafe DEF AInv
<1> QED BY <1>2, ReadyIdle, BeginSafe, SameItself DEF DoPlay, Command

LEMMA StopKeeps == ASSUME AInv, DoStop PROVE Held'
<1>1. PICK clip \in IdleChoices(ctl) :
        /\ Begin(st, StopClip(ctl, clip).ctl, Plays(StopClip(ctl, clip).cmds))
        /\ UNCHANGED <<library, rend>>
  BY DEF DoStop
<1>2. clip \in IdleClips
  BY Parts, IdleChoicesType DEF AInv
<1>3. Plays(StopClip(ctl, clip).cmds) \in Seq(Safe(library))
  BY <1>2, Parts, StopClipType, PlaysSafe DEF AInv
<1> QED BY <1>1, <1>3, ReadyIdle, BeginSafe, SameItself DEF DoStop, Command

LEMMA UnloadKeeps == ASSUME AInv, DoUnload PROVE Held'
<1>1. UnloadProg \in Seq(Safe(library))
  BY SafeInstructions, SequenceFacts DEF UnloadProg
<1> QED BY <1>1, ReadyIdle, BeginSafe, SameItself DEF DoUnload, Command

LEMMA ShowKeeps == ASSUME AInv, DoShow PROVE Held'
<1> DEFINE tail == IF st.animation = NoClip THEN <<Do("idle")>> ELSE <<>>
           p == <<Do("ShowWindow"), Do("visible")>> \o tail
<1>1. p \in Seq(Safe(library))
  <2>1. tail \in Seq(Safe(library)) /\ <<Do("ShowWindow"), Do("visible")>> \in Seq(Safe(library))
    BY SafeInstructions, SequenceFacts
  <2> QED BY <2>1, SequenceFacts
<1>2. (Begin(st, ctl, p) \/ Reject) /\ UNCHANGED <<library, rend>> /\ Idle
  BY ReadyIdle DEF DoShow, Command
<1> QED BY <1>1, <1>2, BeginSafe, RejectKeeps, SameItself

LEMMA HideKeeps == ASSUME AInv, DoHide PROVE Held'
<1>1. Same(st, [st EXCEPT !.visible = FALSE])
  BY Parts, StateSame DEF AInv
<1>2. <<Do("HideWindow")>> \in Seq(Safe(library))
  BY SafeInstructions, SequenceFacts
<1> QED BY <1>1, <1>2, ReadyIdle, BeginSafe DEF DoHide, Command

LEMMA TickKeeps == ASSUME AInv, DoTick PROVE Held'
<1>1. Idle
  BY ReadyIdle DEF DoTick
<1>2. CASE Begin(st, ctl, <<>>) /\ UNCHANGED <<library, rend>>
  BY <1>1, <1>2, BeginSafe, EmptySafe, SameItself
<1>3. ASSUME NEW clip \in IdleChoices(ctl), UNCHANGED <<library, rend>>,
             Begin([st EXCEPT !.armed = FALSE], Finish(ctl, clip).ctl, Plays(Finish(ctl, clip).cmds))
      PROVE  Held'
  <2>1. clip \in IdleClips
    BY Parts, IdleChoicesType DEF AInv
  <2>2. Plays(Finish(ctl, clip).cmds) \in Seq(Safe(library))
    BY <2>1, Parts, FinishType, PlaysSafe DEF AInv
  <2>3. Same(st, [st EXCEPT !.armed = FALSE])
    BY Parts, StateSame DEF AInv
  <2> QED BY <1>1, <1>3, <2>2, <2>3, BeginSafe
<1> QED BY <1>2, <1>3 DEF DoTick

-----------------------------------------------------------------------------
(* Handlers that do.                                                       *)

LEMMA SpeechBeginKeeps == ASSUME AInv, DoSpeechBegin PROVE Held'
<1> DEFINE b == IF st.speaking THEN st.before ELSE st.presence
           s == [st EXCEPT !.before = b, !.analyzer = TRUE, !.speaking = TRUE,
                           !.lipsync = FALSE, !.presence = "speaking"]
<1>1. Begin(s, ctl, <<>>) /\ UNCHANGED <<library, rend>> /\ Idle
  BY ReadyIdle DEF DoSpeechBegin, Command
<1>2. b # None
  BY Parts, StateFields, ActorAssumption DEF AInv, Held, Whole
<1> HIDE DEF b
<1>3. /\ s.speaking = TRUE /\ s.analyzer = TRUE /\ s.before = b
      /\ s.loaded = st.loaded /\ s.avatar = st.avatar /\ s.selected = st.selected
  BY Parts, Zenon DEF State, AInv
<1> HIDE DEF s
<1>4. Whole(s) /\ Stored(s, library')
  BY <1>1, <1>2, <1>3 DEF Whole, Stored, AInv, Held
<1>5. Programs'
  BY <1>1, SequenceFacts DEF Begin, Programs
<1> QED BY <1>1, <1>3, <1>4, <1>5, BeginKeeps

LEMMA SpeechAudioKeeps == ASSUME AInv, DoSpeechAudio PROVE Held'
<1> DEFINE p == <<Viseme(item.cmd.open), Do("lipsync")>>
<1>1. ((st.speaking /\ Begin(st, ctl, p)) \/ Reject) /\ UNCHANGED <<library, rend>> /\ Idle
  BY ReadyIdle DEF DoSpeechAudio, Command, Viseme
<1>2. item.cmd.open \in BOOLEAN
  BY CommandTaken, CommandFields DEF DoSpeechAudio, AInv, IInv
<1>3. CASE st.speaking /\ Begin(st, ctl, p)
  <2>1. Programs'
    BY <1>2, <1>3 DEF Begin, Programs
  <2> QED BY <1>1, <1>3, <2>1, BeginKeeps DEF AInv, Held
<1> QED BY <1>1, <1>3, RejectKeeps

LEMMA SpeechCloseKeeps == ASSUME AInv, DoSpeechClose PROVE Held'
<1> DEFINE b == item.cmd.op = "cancel"
           p == <<Viseme(FALSE), Closed(b)>>
<1>1. Begin(st, ctl, p) /\ UNCHANGED <<library, rend>> /\ Idle /\ b \in BOOLEAN
  BY ReadyIdle DEF DoSpeechClose, Command, Viseme, Closed
<1> HIDE DEF b
<1>2. Programs'
  BY <1>1 DEF Begin, Programs
<1> QED BY <1>1, <1>2, BeginKeeps DEF AInv, Held

LEMMA LoadKeeps == ASSUME AInv, DoLoad PROVE Held'
<1> DEFINE id == item.cmd.avatar
           first == IF st.loaded /\ st.avatar # id THEN <<Do("UnloadAvatar")>> ELSE <<>>
           load == [do |-> "load", avatar |-> id]
           b == item.cmd.op = "select"
           loaded == [do |-> "loaded", avatar |-> id, select |-> b]
           p == <<Do("require")>> \o first \o <<load, loaded, SetFaceTo(st.face)>>
                \o SendAttrs(st.attr) \o <<Do("idle")>>
           safe == Safe(library)
<1>1. ((Found(id) /\ Begin(st, ctl, p)) \/ Reject) /\ UNCHANGED <<library, rend>> /\ Idle
  BY ReadyIdle DEF DoLoad, Command
<1>2. CASE Found(id) /\ Begin(st, ctl, p)
  <2>1. id \in Avatars
    BY CommandTaken, CommandFields DEF DoLoad, AInv, IInv
  <2>2. id \in Avatars \cap Shelved(library)
    BY <1>2, <2>1, FoundShelved
  <2>3. st.face \in Faces /\ st.attr \in [Attrs -> Values] /\ b \in BOOLEAN
    BY <1>2, Parts, StateFields DEF AInv
  <2>4. /\ Do("require") \in safe /\ Do("UnloadAvatar") \in safe /\ Do("idle") \in safe
        /\ load \in safe /\ loaded \in safe /\ SetFaceTo(st.face) \in safe
    <3> HIDE DEF b
    <3> QED BY <2>2, <2>3, SafeInstructions
  <2>5. SendAttrs(st.attr) \in Seq(safe)
    BY <2>3, SendAttrsSafe
  <2> HIDE DEF load, loaded, safe
  <2>6. <<Do("require")>> \in Seq(safe) /\ <<Do("idle")>> \in Seq(safe) /\ first \in Seq(safe)
    BY <2>4, SequenceFacts
  <2>7. <<load, loaded, SetFaceTo(st.face)>> \in Seq(safe)
    BY <2>4
  <2> HIDE DEF first
  <2>8. <<Do("require")>> \o first \in Seq(safe)
    BY <2>6, SequenceFacts
  <2>9. <<Do("require")>> \o first \o <<load, loaded, SetFaceTo(st.face)>> \in Seq(safe)
    BY <2>7, <2>8, SequenceFacts
  <2>10. <<Do("require")>> \o first \o <<load, loaded, SetFaceTo(st.face)>> \o SendAttrs(st.attr) \in Seq(safe)
    BY <2>5, <2>9, SequenceFacts
  <2>11. p \in Seq(safe)
    BY <2>6, <2>10, SequenceFacts
  <2> HIDE DEF p
  <2> QED BY <1>1, <1>2, <2>11, BeginSafe, SameItself DEF safe
<1> QED BY <1>1, <1>2, RejectKeeps

LEMMA Joins ==
    ASSUME NEW x, NEW y, NEW z
    PROVE  <<x, y>> \o <<z>> = <<x, y, z>> /\ <<>> \o <<z>> = <<z>>
<1> DEFINE S == {x, y, z}
           u == <<x, y>> \o <<z>>
           v == <<x, y, z>>
<1>1. <<x, y>> \in Seq(S) /\ <<z>> \in Seq(S) /\ v \in Seq(S) /\ Len(v) = 3 /\ v[1] = x /\ v[2] = y /\ v[3] = z
  OBVIOUS
<1>2. u \in Seq(S) /\ Len(u) = 3
  BY <1>1
<1>3. u[1] = x /\ u[2] = y /\ u[3] = z
  BY <1>1
<1> HIDE DEF u, v
<1>4. \A i \in 1..Len(u) : u[i] = v[i]
  BY <1>1, <1>2, <1>3
<1>5. u = v
  BY <1>1, <1>2, <1>4, SeqEqual
<1>6. <<>> \o <<z>> = <<z>>
  OBVIOUS
<1> QED BY <1>5, <1>6 DEF u, v

LEMMA DeleteKeeps == ASSUME AInv, DoDelete PROVE Held'
<1> DEFINE a == item.cmd.avatar
           first == IF st.loaded /\ st.avatar = a THEN UnloadProg ELSE <<>>
<1>1. Begin(st, ctl, first \o <<Deleted(a)>>) /\ UNCHANGED <<library, rend>> /\ Idle
  BY ReadyIdle DEF DoDelete, Command, Deleted
<1>2. a \in Avatars
  BY CommandTaken, CommandFields DEF DoDelete, AInv, IInv
<1>3. prog' = first \o <<Deleted(a)>> /\ st' = st
  BY <1>1 DEF Begin
<1>4. Programs'
  <2>1. CASE st.loaded /\ st.avatar = a
    <3>1. prog' = <<Do("UnloadAvatar"), Do("unloaded"), Deleted(a)>>
      BY <1>3, <2>1, Joins, Zenon DEF UnloadProg
    <3> QED BY <1>2, <3>1 DEF Programs
  <2>2. CASE ~(st.loaded /\ st.avatar = a)
    <3>1. prog' = <<Deleted(a)>>
      BY <1>3, <2>2, Joins, Zenon
    <3> QED BY <1>2, <1>3, <2>2, <3>1 DEF Programs
  <2> QED BY <2>1, <2>2
<1> QED BY <1>1, <1>4, BeginKeeps DEF AInv, Held

LEMMA ImportKeeps == ASSUME AInv, DoImport PROVE Held'
<1> DEFINE id == item.cmd.avatar
           left(model, record) == [library EXCEPT ![id] = [model |-> model, record |-> record]]
<1>1. /\ UNCHANGED rend /\ Idle /\ (Begin(st, ctl, <<>>) \/ Reject)
      /\ library' \in {library, left("torn", library[id].record), left("whole", library[id].record),
                       left("whole", "torn"), left("whole", "whole")}
  BY ReadyIdle DEF DoImport, Command
<1>2. library \in [Avatars -> Files] /\ Stored(st, library)
  BY Parts DEF AInv, Held
<1>3. ASSUME NEW a \in Avatars
      PROVE  /\ library[a].model # "none" => library'[a].model # "none"
             /\ library[a].record # "none" => library'[a].record # "none"
  BY <1>1, <1>2
<1>4. Stored(st, library')
  BY <1>2, <1>3 DEF Stored, Shelved, Recorded
<1>5. CASE Begin(st, ctl, <<>>)
  <2>1. Programs'
    BY <1>5, SequenceFacts DEF Begin, Programs
  <2> QED BY <1>1, <1>4, <1>5, <2>1, BeginKeeps DEF AInv, Held
<1>6. CASE Reject
  BY <1>1, <1>4, <1>6, RejectedKeeps
<1> QED BY <1>1, <1>5, <1>6

\* The worker is back at the top of its loop, or asleep, with nothing left to run.
LEMMA RestKeeps ==
    ASSUME AInv, prog' = <<>>, Same(st, st'), UNCHANGED library, OpenMouth(rend') => OpenMouth(rend),
           ~ExitNotice => Exits'
    PROVE  Held'
<1>1. Whole(st') /\ Stored(st', library') /\ st'.speaking = st.speaking
  BY SameHeld DEF AInv, Held
<1>2. MouthFollowsSpeech'
  BY <1>1 DEF AInv, Held, MouthFollowsSpeech, OpenMouth
<1>3. Programs'
  BY SequenceFacts DEF Programs
<1> QED BY <1>1, <1>2, <1>3 DEF Held

LEMMA RuntimeKeeps == ASSUME AInv, DoRuntime PROVE Held'
<1>1. Same(st, st')
  BY Parts, StateSame, SameItself DEF DoRuntime, AInv
<1>2. Idle /\ at' = "top" /\ UNCHANGED <<item, prog, drained, asleep, library, rend, queue>>
  BY ReadyIdle DEF DoRuntime, rest
<1> QED BY <1>1, <1>2, RestKeeps DEF AInv, Held, Exits, Idle, Notices, OpenMouth

LEMMA ProbeKeeps == ASSUME AInv, DoProbe PROVE Held'
<1>1. Idle /\ at' = "top" /\ UNCHANGED <<item, prog, drained, asleep, st, library, queue>>
  BY ReadyIdle DEF DoProbe, rest
<1>2. PICK e \in Ensured(rend) : rend' = e[1]
  BY DEF DoProbe
<1>3. (OpenMouth(rend') => OpenMouth(rend)) /\ (Notices(rend) => Notices(rend'))
  BY <1>2, EnsuredKeeps, Parts DEF AInv
<1> QED BY <1>1, <1>3, RestKeeps, SameItself DEF AInv, Held, Exits, Idle

\* _recover_renderer goes to sleep on a child that is gone, or gives up.
LEMMA RecoveryKeeps ==
    ASSUME AInv, prog = <<>>, at' # "top", drained' = 0, ~ExitNotice => Exits /\ Gone(rend),
           NEW r \in {rend, Unavailable(rend)}, BeginRecovery(r)
    PROVE  Held'
<1>1. UNCHANGED <<item, prog, st, library, queue>> /\ asleep' \in BOOLEAN
  BY DEF BeginRecovery, rest
<1>2. /\ rend'.host = rend.host /\ rend'.alive = rend.alive /\ rend'.eof = rend.eof
      /\ rend'.exits = rend.exits /\ rend'.scene = rend.scene
  <2>1. r \in Renderer
    BY Parts, UnavailableType DEF AInv
  <2>2. /\ r.host = rend.host /\ r.alive = rend.alive /\ r.eof = rend.eof
        /\ r.exits = rend.exits /\ r.scene = rend.scene
    BY Parts, UnavailableIs DEF AInv
  <2>3. CASE rend' = [r EXCEPT !.attempts = r.attempts + 1]
    <3>1. /\ rend'.host = r.host /\ rend'.alive = r.alive /\ rend'.eof = r.eof
          /\ rend'.exits = r.exits /\ rend'.scene = r.scene
      BY <2>1, <2>3, Zenon DEF Renderer
    <3> QED BY <2>2, <3>1
  <2>4. CASE rend' = Unavailable(r)
    BY <2>1, <2>2, <2>4, UnavailableIs
  <2> QED BY <2>3, <2>4 DEF BeginRecovery
<1>3. ~ExitNotice => Exits'
  BY <1>1, <1>2 DEF Exits, Gone, Notices
<1> QED BY <1>1, <1>2, <1>3, RestKeeps, SameItself DEF OpenMouth

LEMMA ExitNoticeKeeps == ASSUME AInv, DoExitNotice PROVE Held'
<1>1. Idle /\ item.kind = "exit" /\ at' = "exec" /\ UNCHANGED drained /\ BeginRecovery(rend)
  BY ReadyIdle DEF DoExitNotice
<1>2. ExitNotice
  BY <1>1 DEF AInv, Held, Exits
<1> QED BY <1>1, <1>2, RecoveryKeeps DEF Idle

LEMMA HandleExitKeeps == ASSUME AInv, HandleExit PROVE Held'
<1>1. /\ prog = <<>> /\ drained > 0 /\ drained' = drained - 1 /\ at' = "poll" /\ BeginRecovery(Unavailable(rend))
  BY DEF HandleExit
<1>2. CASE ~ExitNotice
  <2>1. Exits /\ drained = 1 /\ Gone(rend)
    BY <1>1, <1>2 DEF AInv, Held, Exits
  <2> QED BY <1>1, <2>1, RecoveryKeeps
<1>3. CASE ExitNotice
  <2>1. UNCHANGED <<item, prog, st, library, queue>>
    BY <1>1 DEF BeginRecovery, rest
  <2>2. rend'.alive = rend.alive /\ rend'.scene = rend.scene
    <3> DEFINE r == Unavailable(rend)
    <3>1. r \in Renderer /\ r.alive = rend.alive /\ r.scene = rend.scene
      BY Parts, UnavailableIs, UnavailableType DEF AInv
    <3>2. rend' = Unavailable(r) \/ rend' = [r EXCEPT !.attempts = r.attempts + 1]
      BY <1>1 DEF BeginRecovery
    <3> HIDE DEF r
    <3>3. CASE rend' = [r EXCEPT !.attempts = r.attempts + 1]
      <4>1. rend'.alive = r.alive /\ rend'.scene = r.scene
        BY <3>1, <3>3, Zenon DEF Renderer
      <4> QED BY <3>1, <4>1
    <3>4. CASE rend' = Unavailable(r)
      BY <3>1, <3>4, UnavailableIs
    <3> QED BY <3>2, <3>3, <3>4
  <2> QED BY <1>1, <1>3, <2>1, <2>2, RestKeeps, SameItself DEF OpenMouth
<1> QED BY <1>2, <1>3

-----------------------------------------------------------------------------
(* The loop.                                                               *)

LEMMA TakeKeeps == ASSUME AInv, Take PROVE Held'
<1>1. [rend EXCEPT !.exits = 0].host = rend.host /\ [rend EXCEPT !.exits = 0].alive = rend.alive
      /\ [rend EXCEPT !.exits = 0].eof = rend.eof /\ [rend EXCEPT !.exits = 0].exits = 0
      /\ [rend EXCEPT !.exits = 0].scene = rend.scene
  BY Parts, Zenon DEF AInv, Renderer
<1>2. /\ rend'.host = rend.host /\ rend'.alive = rend.alive /\ rend'.eof = rend.eof /\ rend'.scene = rend.scene
      /\ IF rend.host = "none" THEN drained' = 0 /\ rend'.exits = rend.exits
         ELSE drained' = rend.exits /\ rend'.exits = 0
  BY <1>1 DEF Take
<1>3. at = "top" /\ at' = "poll" /\ UNCHANGED <<prog, asleep, st, library>>
  BY DEF Take
<1>4. ASSUME Exits
      PROVE  Exits' /\ prog' = <<>>
  <2>1. /\ item'.kind # "exit" /\ \A k \in DOMAIN queue' : queue'[k].kind # "exit"
    <3>1. queue \in Seq(Item)
      BY DEF AInv, IInv, TypeOK
    <3>2. queue # <<>> => Head(queue) = queue[1] /\ 1 \in DOMAIN queue
                          /\ \A k \in DOMAIN Tail(queue) : k + 1 \in DOMAIN queue /\ Tail(queue)[k] = queue[k + 1]
      BY <3>1
    <3> QED BY <1>4, <3>2 DEF Take, Exits, Tick
  <2>2. prog = <<>> /\ ~asleep /\ Notices(rend)
    BY <1>3, <1>4 DEF Exits
  <2> QED BY <1>2, <1>3, <2>1, <2>2 DEF Exits, Notices, Gone
<1>5. Programs'
  BY <1>2, <1>3 DEF AInv, Held, Programs, OpenMouth
<1> QED BY <1>2, <1>3, <1>4, <1>5 DEF AInv, Held, MouthFollowsSpeech, Whole, Stored

LEMMA LeaveKeeps == ASSUME AInv, Leave PROVE Held'
BY DEF Leave, rest, AInv, Held, MouthFollowsSpeech, Programs, Exits

LEMMA FinishedKeeps == ASSUME AInv, Finished PROVE Held'
<1>1. prog = <<>> /\ ~asleep /\ at = "exec" /\ UNCHANGED <<item, prog, drained, asleep, st, library, rend, queue>>
  BY DEF Finished, rest
<1> QED BY <1>1, RestKeeps, SameItself DEF AInv, Held, Exits

LEMMA RestartKeeps == ASSUME AInv, Restart PROVE Held'
<1> DEFINE again == IF st.loaded /\ st.avatar # None /\ Found(st.avatar)
                    THEN <<[do |-> "reload", avatar |-> st.avatar]>> ELSE <<>>
           face == [do |-> "SetExpression", face |-> st.face]
           p == again \o <<face>> \o SendAttrs(st.attr)
           safe == Safe(library)
<1>1. PICK r \in Restarted(rend) : rend' = r /\ prog' = IF ~r.alive THEN <<>> ELSE p
  BY DEF Restart
<1>2. asleep /\ ~asleep' /\ UNCHANGED <<at, item, drained, st, library, queue>>
  BY DEF Restart, rest
<1>3. ~OpenMouth(rend') /\ (Gone(rend) /\ Notices(rend) => Notices(rend'))
  BY <1>1, Parts, RestartedKeeps DEF AInv
<1>4. prog' \in Seq(safe)
  <2>1. st.face \in Faces /\ st.attr \in [Attrs -> Values] /\ st.avatar \in Avatars \cup {None}
    BY Parts, StateFields DEF AInv
  <2>2. SendAttrs(st.attr) \in Seq(safe)
    BY <2>1, SendAttrsSafe
  <2>3. face \in safe /\ (st.avatar # None => [do |-> "reload", avatar |-> st.avatar] \in safe)
    BY <2>1, SafeInstructions
  <2> HIDE DEF face, safe
  <2>4. again \in Seq(safe) /\ <<face>> \in Seq(safe)
    BY <2>3, SequenceFacts
  <2> HIDE DEF again
  <2>5. again \o <<face>> \in Seq(safe)
    BY <2>4, SequenceFacts
  <2>6. p \in Seq(safe) /\ <<>> \in Seq(safe)
    BY <2>2, <2>5, SequenceFacts
  <2> QED BY <1>1, <2>6
<1>5. Programs'
  BY <1>2, <1>4 DEF Programs
<1>6. ~ExitNotice => Exits'
  BY <1>2, <1>3 DEF AInv, Held, Exits
<1> QED BY <1>2, <1>3, <1>5, <1>6 DEF AInv, Held, MouthFollowsSpeech, OpenMouth

-----------------------------------------------------------------------------
(* Steps of a running handler.                                             *)

\* A call ends in an answer, or without a renderer, or in an exception.
LEMMA CallOutcome ==
    ASSUME AInv, CallRenderer
    PROVE  /\ prog # <<>> /\ Head1 \in Instruction /\ Head1.do \in RendererCommands
           /\ UNCHANGED <<st, ctl, library, rest>>
           /\ OpenMouth(rend') => OpenMouth(rend) \/ (Head1.do = "SetVisemes" /\ Head1.open)
           /\ Notices(rend) => Notices(rend')
           /\ \/ Raise
              \/ Advance(<<>>) /\ (Head1.do = "SetVisemes" /\ ~Head1.open => ~OpenMouth(rend'))
<1>1. /\ prog # <<>> /\ Head1 \in Instruction /\ Head1.do \in RendererCommands
      /\ UNCHANGED <<st, ctl, library, rest>>
  BY HeadType DEF CallRenderer, AInv
<1>2. PICK e \in Ensured(rend) :
        IF ~e[2] THEN rend' = e[1] /\ Advance(<<>>)
        ELSE \E q \in Requested(e[1], Head1) :
                rend' = q[1] /\ (IF q[2] = "ok" THEN Advance(<<>>) ELSE Raise)
  BY DEF CallRenderer
<1>3. /\ e[1] \in Renderer /\ Kept(e[1]) /\ (OpenMouth(e[1]) => OpenMouth(rend))
      /\ (~e[2] => ~e[1].alive) /\ (Notices(rend) => Notices(e[1]))
  BY Parts, EnsuredType, EnsuredKeeps DEF AInv
<1>4. CASE ~e[2]
  BY <1>1, <1>2, <1>3, <1>4 DEF OpenMouth
<1>5. CASE e[2]
  <2>1. PICK q \in Requested(e[1], Head1) : rend' = q[1] /\ (IF q[2] = "ok" THEN Advance(<<>>) ELSE Raise)
    BY <1>2, <1>5
  <2>2. /\ OpenMouth(q[1]) => OpenMouth(e[1]) \/ (Head1.do = "SetVisemes" /\ Head1.open)
        /\ q[2] = "ok" /\ Head1.do = "SetVisemes" /\ ~Head1.open => ~OpenMouth(q[1])
        /\ Notices(e[1]) => Notices(q[1])
    BY <1>1, <1>3, RequestedKeeps
  <2> QED BY <1>1, <1>3, <2>1, <2>2
<1> QED BY <1>4, <1>5

LEMMA CallRendererKeeps == ASSUME AInv, CallRenderer PROVE Held'
<1> USE CallOutcome
<1>1. prog # <<>> /\ UNCHANGED <<st, library, rest>> /\ (Raise \/ Advance(<<>>)) /\ (Notices(rend) => Notices(rend'))
  OBVIOUS
<1>2. Whole(st') /\ Stored(st', library')
  BY <1>1 DEF AInv, Held
<1>3. (Raise => prog' = <<>>) /\ (Advance(<<>>) => prog' = <<>> \o Tail(prog))
  BY DEF Raise, Advance
<1>4. CASE prog \in Seq(Safe(library))
  <2>1. Head1.do # "SetVisemes"
    BY <1>1, <1>4, SequenceFacts DEF Head1, Safe
  <2>2. Raise \/ \E more \in Seq(Safe(library)) : Advance(more)
    BY <1>1, EmptySafe
  <2> QED BY <1>1, <1>4, <2>1, <2>2, SafeStep, SameItself
<1>5. ASSUME NEW b \in BOOLEAN, st.speaking, prog = <<Viseme(b), Do("lipsync")>>
      PROVE  Held'
  <2>1. Advance(<<>>) => Programs'
    <3>1. Do("lipsync") \in Safe(library)
      BY SafeInstructions
    <3>2. Advance(<<>>) => prog' = <<Do("lipsync")>>
      BY <1>3, <1>5
    <3> QED BY <1>1, <3>1, <3>2, SequenceFacts DEF Programs
  <2> QED BY <1>1, <1>2, <1>3, <1>5, <2>1, StepKeeps
<1>6. ASSUME NEW b \in BOOLEAN, prog = <<Viseme(FALSE), Closed(b)>>
      PROVE  Held'
  <2>1. Head1.do = "SetVisemes" /\ ~Head1.open
    BY <1>6 DEF Head1, Viseme
  <2>2. OpenMouth(rend') => st'.speaking
    BY <1>1, <2>1 DEF AInv, Held, MouthFollowsSpeech, OpenMouth
  <2>3. Raise \/ (Advance(<<>>) /\ ~OpenMouth(rend') /\ prog' = <<Closed(b)>>)
    BY <1>3, <1>6, <2>1
  <2>4. prog' = <<>> \/ Programs'
    BY <1>3, <2>3 DEF Programs
  <2> QED BY <1>1, <1>2, <2>2, <2>4, StepKeeps
<1>7. ASSUME NEW a \in Avatars, prog = <<Do("UnloadAvatar"), Do("unloaded"), Deleted(a)>>
      PROVE  Held'
  <2>1. Head1.do # "SetVisemes"
    BY <1>7 DEF Head1, Do
  <2>2. OpenMouth(rend') => st'.speaking
    BY <1>1, <2>1 DEF AInv, Held, MouthFollowsSpeech, OpenMouth
  <2>3. Advance(<<>>) => prog' = <<Do("unloaded"), Deleted(a)>>
    BY <1>3, <1>7
  <2>4. prog' = <<>> \/ Programs'
    BY <1>1, <1>3, <2>3 DEF Programs
  <2> QED BY <1>1, <1>2, <2>2, <2>4, StepKeeps
<1>8. ASSUME NEW x, NEW y, x.do \notin RendererCommands, prog = <<x, y>> \/ prog = <<x>>
      PROVE  FALSE
  BY <1>8 DEF Head1
<1>9. ASSUME NEW b  PROVE Closed(b).do \notin RendererCommands
  BY DEF Closed, RendererCommands
<1>10. ASSUME NEW a  PROVE Deleted(a).do \notin RendererCommands /\ Do("unloaded").do \notin RendererCommands
  BY DEF Deleted, Do, RendererCommands
<1> QED BY <1>4, <1>5, <1>6, <1>7, <1>8, <1>9, <1>10 DEF AInv, Held, Programs

\* Steps whose instruction is found in safe programs only.
LEMMA InSafeProgram ==
    ASSUME AInv, NEW what, what \notin {"SetVisemes", "closed", "deleted", "UnloadAvatar", "unloaded"}, Running(what)
    PROVE  prog # <<>> /\ prog \in Seq(Safe(library)) /\ Head1 \in Safe(library) /\ Head1.do = what
<1>1. prog # <<>> /\ Head1.do = what /\ prog \in Seq(Safe(library))
  BY HeadSafe DEF Running, AInv, Held
<1> QED BY <1>1, SequenceFacts DEF Head1

LEMMA RequireKeeps == ASSUME AInv, Require PROVE Held'
<1>1. prog # <<>> /\ prog \in Seq(Safe(library))
  BY InSafeProgram DEF Require
<1>2. PICK e \in Ensured(rend) : rend' = e[1] /\ (IF e[2] THEN Advance(<<>>) ELSE Raise)
  BY DEF Require
<1>3. (OpenMouth(rend') => OpenMouth(rend)) /\ (Notices(rend) => Notices(rend'))
  BY <1>2, Parts, EnsuredKeeps DEF AInv
<1>4. UNCHANGED <<st, library, rest>>
  BY DEF Require
<1>5. Raise \/ \E more \in Seq(Safe(library)) : Advance(more)
  BY <1>2, EmptySafe
<1> QED BY <1>1, <1>3, <1>4, <1>5, SafeStep, SameItself

LEMMA LoadAvatarKeeps == ASSUME AInv, LoadAvatar PROVE Held'
<1>1. /\ prog # <<>> /\ prog \in Seq(Safe(library)) /\ Head1 \in Instruction /\ Head1.do \in {"load", "reload"}
      /\ UNCHANGED <<library, rest>>
  BY InSafeProgram, SafeInstructions DEF LoadAvatar
<1>2. CASE Raise /\ UNCHANGED <<rend, st>>
  BY <1>1, <1>2, SafeStep, SameItself
<1>3. ASSUME NEW q \in Requested(rend, Head1), rend' = q[1] \/ (rend' = Unavailable(q[1]))
      PROVE  (OpenMouth(rend') => OpenMouth(rend)) /\ (Notices(rend) => Notices(rend'))
  <2>1. q[1] \in Renderer /\ (OpenMouth(q[1]) => OpenMouth(rend)) /\ (Notices(rend) => Notices(q[1]))
    BY <1>1, Parts, RequestedType, RequestedKeeps DEF AInv
  <2> QED BY <1>3, <2>1, UnavailableIs DEF OpenMouth, Notices
<1>4. ASSUME NEW q \in Requested(rend, Head1), rend' = q[1], Advance(<<>>),
             \E f \in {st.faces} \cup SUBSET Faces : st' = [st EXCEPT !.faces = f]
      PROVE  Held'
  <2>1. Same(st, st')
    BY <1>4, Parts, StateSame DEF AInv
  <2> QED BY <1>1, <1>3, <1>4, <2>1, EmptySafe, SafeStep
<1>5. ASSUME NEW q \in Requested(rend, Head1), rend' = Unavailable(q[1]), UNCHANGED st,
             \/ Raise
             \/ prog' = <<>> /\ UNCHANGED <<at, item, drained, asleep, call>>
      PROVE  Held'
  BY <1>1, <1>3, <1>5, SafeStep, SameItself
<1> QED BY <1>2, <1>4, <1>5 DEF LoadAvatar

LEMMA SetFaceKeeps == ASSUME AInv, SetFace PROVE Held'
<1> DEFINE f == Resolve(Head1.face, st.faces)
           v == [do |-> "SetExpression", face |-> f]
<1>1. prog # <<>> /\ prog \in Seq(Safe(library)) /\ Head1 \in Safe(library) /\ Head1.do = "face"
  BY InSafeProgram DEF SetFace
<1>2. f \in Faces
  <2>1. Head1.face \in Faces /\ st.faces \in SUBSET Faces
    BY <1>1, SafeInstructions, InstructionFields, Parts, StateFields DEF AInv
  <2> QED BY <2>1, ResolveType
<1>3. st' = [st EXCEPT !.face = f] /\ Advance(<<v>>) /\ UNCHANGED <<library, rend, rest>>
  BY DEF SetFace
<1> HIDE DEF f
<1>4. v \in Safe(library)
  BY <1>2, SafeInstructions
<1>5. Same(st, st')
  BY <1>3, Parts, StateSame DEF AInv
<1> HIDE DEF v
<1>6. <<v>> \in Seq(Safe(library))
  BY <1>4, SequenceFacts
<1> QED BY <1>1, <1>3, <1>5, <1>6, SafeStep

LEMMA NotePlayingKeeps == ASSUME AInv, NotePlaying PROVE Held'
<1>1. prog # <<>> /\ prog \in Seq(Safe(library))
  BY InSafeProgram DEF NotePlaying
<1>2. Same(st, st')
  BY Parts, StateSame DEF NotePlaying, AInv
<1>3. Advance(<<>>) /\ UNCHANGED <<library, rend, rest>>
  BY DEF NotePlaying
<1> QED BY <1>1, <1>2, <1>3, EmptySafe, SafeStep

LEMMA PlayIdleClipKeeps == ASSUME AInv, PlayIdleClip PROVE Held'
<1> DEFINE r == PlayClip(ctl, [clip |-> "idle", loop |-> FALSE])
<1>1. [clip |-> "idle", loop |-> FALSE] \in Play
  BY ActorAssumption, ClipAssumption DEF Play
<1>2. Plays(r.cmds) \in Seq(Safe(library))
  BY <1>1, Parts, PlayClipType, PlaysSafe DEF AInv
<1>3. Advance(Plays(r.cmds)) /\ UNCHANGED <<st, library, rend, rest>>
  BY DEF PlayIdleClip
<1>4. prog # <<>> /\ prog \in Seq(Safe(library))
  BY InSafeProgram DEF PlayIdleClip
<1> HIDE DEF r
<1> QED BY <1>2, <1>3, <1>4, SafeStep, SameItself

LEMMA NoteLipsyncKeeps == ASSUME AInv, NoteLipsync PROVE Held'
<1>1. prog # <<>> /\ prog \in Seq(Safe(library))
  BY InSafeProgram DEF NoteLipsync
<1>2. Same(st, st') /\ Advance(<<>>) /\ UNCHANGED <<library, rend, rest>>
  BY Parts, StateSame DEF NoteLipsync, AInv
<1> QED BY <1>1, <1>2, EmptySafe, SafeStep

LEMMA NoteVisibleKeeps == ASSUME AInv, NoteVisible PROVE Held'
<1>1. prog # <<>> /\ prog \in Seq(Safe(library))
  BY InSafeProgram DEF NoteVisible
<1>2. Same(st, st') /\ Advance(<<>>) /\ UNCHANGED <<library, rend, rest>>
  BY Parts, StateSame DEF NoteVisible, AInv
<1> QED BY <1>1, <1>2, EmptySafe, SafeStep

LEMMA NoteLoadedKeeps == ASSUME AInv, NoteLoaded PROVE Held'
<1> DEFINE sel == IF Head1.select THEN Head1.avatar ELSE st.selected
<1>1. prog # <<>> /\ prog \in Seq(Safe(library)) /\ Head1.avatar \in Shelved(library)
  BY InSafeProgram DEF NoteLoaded, Safe
<1>2. /\ st' = [st EXCEPT !.loaded = TRUE, !.avatar = Head1.avatar, !.armed = FALSE, !.selected = sel]
      /\ UNCHANGED <<library, rend, rest>> /\ (Advance(<<>>) \/ Raise)
  BY DEF NoteLoaded
<1>3. sel # None => sel \in Recorded(library)
  BY <1>1 DEF AInv, Held, Stored, Shelved, Recorded
<1> HIDE DEF sel
<1>4. /\ st'.speaking = st.speaking /\ st'.analyzer = st.analyzer /\ st'.before = st.before
      /\ st'.avatar = Head1.avatar /\ st'.selected = sel
  BY <1>2, Parts, Zenon DEF State, AInv
<1>5. Whole(st') /\ Stored(st', library') /\ (OpenMouth(rend') => st'.speaking)
  BY <1>1, <1>2, <1>3, <1>4 DEF AInv, Held, Whole, Stored, MouthFollowsSpeech, OpenMouth
<1>6. prog' = <<>> \/ Programs'
  BY <1>1, <1>2, SequenceFacts DEF Advance, Raise, Programs
<1> QED BY <1>1, <1>2, <1>5, <1>6, StepKeeps

LEMMA NoteUnloadedKeeps == ASSUME AInv, NoteUnloaded PROVE Held'
<1>1. prog # <<>> /\ Head1.do = "unloaded" /\ Advance(<<>>) /\ UNCHANGED <<library, rend, rest>>
  BY DEF NoteUnloaded, Running
<1>2. /\ st'.speaking = st.speaking /\ st'.analyzer = st.analyzer /\ st'.before = st.before
      /\ st'.loaded = FALSE /\ st'.selected = st.selected
  BY Parts, Zenon DEF NoteUnloaded, State, AInv
<1>3. Whole(st') /\ Stored(st', library') /\ (OpenMouth(rend') => st'.speaking)
  BY <1>1, <1>2 DEF AInv, Held, Whole, Stored, MouthFollowsSpeech, OpenMouth
<1>4. prog' = <<>> \o Tail(prog)
  BY <1>1 DEF Advance
<1>5. CASE prog \in Seq(Safe(library))
  <2>1. Programs'
    BY <1>1, <1>4, <1>5, SequenceFacts DEF Programs
  <2> QED BY <1>1, <1>3, <2>1, StepKeeps
<1>6. ASSUME NEW a \in Avatars, prog = <<Do("unloaded"), Deleted(a)>>
      PROVE  Held'
  <2>1. prog' = <<Deleted(a)>>
    BY <1>4, <1>6
  <2>2. Programs'
    BY <1>2, <2>1 DEF Programs
  <2> QED BY <1>1, <1>3, <2>2, StepKeeps
<1>7. prog \in Seq(Safe(library)) \/ \E a \in Avatars : prog = <<Do("unloaded"), Deleted(a)>>
  BY <1>1 DEF AInv, Held, Programs, Head1, Viseme, Closed, Deleted, Do
<1> QED BY <1>5, <1>6, <1>7

LEMMA CloseSpeechKeeps == ASSUME AInv, CloseSpeech PROVE Held'
<1> DEFINE before == IF st.before = None THEN "idle" ELSE st.before
           p == IF ~st.explicit /\ Head1.cancelled THEN "idle" ELSE before
<1>1. prog # <<>> /\ Head1.do = "closed" /\ Advance(<<>>) /\ UNCHANGED <<library, rend, rest>>
  BY DEF CloseSpeech, Running
<1>2. ~OpenMouth(rend) /\ Tail(prog) = <<>>
  <2>1. prog \notin Seq(Safe(library))
    BY <1>1, SequenceFacts DEF Head1, Safe
  <2>2. ~OpenMouth(rend) /\ \E b \in BOOLEAN : prog = <<Closed(b)>>
    BY <1>1, <2>1 DEF AInv, Held, Programs, Head1, Viseme, Closed, Deleted, Do
  <2> QED BY <2>2
<1>3. st' = [st EXCEPT !.analyzer = FALSE, !.speaking = FALSE, !.lipsync = FALSE, !.before = None, !.presence = p]
  BY DEF CloseSpeech
<1> HIDE DEF p
<1>4. /\ st'.speaking = FALSE /\ st'.analyzer = FALSE /\ st'.before = None
      /\ st'.loaded = st.loaded /\ st'.avatar = st.avatar /\ st'.selected = st.selected
  BY <1>3, Parts, Zenon DEF State, AInv
<1>5. Whole(st') /\ Stored(st', library')
  BY <1>1, <1>4 DEF AInv, Held, Whole, Stored
<1>6. prog' = <<>>
  BY <1>1, <1>2 DEF Advance
<1> QED BY <1>1, <1>2, <1>5, <1>6, StepKeeps

LEMMA DeleteFilesKeeps == ASSUME AInv, DeleteFiles PROVE Held'
<1> DEFINE id == Head1.avatar
           sel == IF st.selected = id THEN None ELSE st.selected
<1>1. prog # <<>> /\ Head1.do = "deleted" /\ UNCHANGED <<rend, rest>>
  BY DEF DeleteFiles, Running
<1>2. Tail(prog) = <<>> /\ ~(st.loaded /\ st.avatar = id)
  <2>1. prog \notin Seq(Safe(library))
    BY <1>1, SequenceFacts DEF Head1, Safe
  <2>2. \E a \in Avatars : prog = <<Deleted(a)>> /\ ~(st.loaded /\ st.avatar = a)
    BY <1>1, <2>1 DEF AInv, Held, Programs, Head1, Viseme, Closed, Deleted, Do
  <2> QED BY <2>2 DEF Head1, Deleted
<1>3. library \in [Avatars -> Files] /\ Stored(st, library)
  BY Parts DEF AInv, Held
<1>4. \A a \in Avatars \ {id} : library'[a] = library[a]
  BY <1>3 DEF DeleteFiles
<1>5. CASE Raise /\ UNCHANGED st /\ (UNCHANGED library \/ library' = [library EXCEPT ![id].model = "none"])
  <2>1. \A a \in Avatars : library'[a].record = library[a].record
    BY <1>3, <1>5 DEF Files
  <2>2. Stored(st', library')
    BY <1>2, <1>3, <1>4, <1>5, <2>1 DEF Stored, Shelved, Recorded
  <2>3. prog' = <<>>
    BY <1>5 DEF Raise
  <2> QED BY <1>1, <1>5, <2>2, <2>3, StepKeeps DEF AInv, Held, MouthFollowsSpeech, OpenMouth
<1>6. CASE Advance(<<>>) /\ st' = [st EXCEPT !.selected = sel]
  <2>1. sel # id /\ (sel # None => sel = st.selected)
    <3>1. id # None
      BY HeadType, InstructionFields, ActorAssumption, <1>1 DEF AInv
    <3> QED BY <3>1
  <2> HIDE DEF sel
  <2>2. /\ st'.speaking = st.speaking /\ st'.analyzer = st.analyzer /\ st'.before = st.before
        /\ st'.loaded = st.loaded /\ st'.avatar = st.avatar /\ st'.selected = sel
    BY <1>6, Parts, Zenon DEF State, AInv
  <2>3. Stored(st', library')
    BY <1>2, <1>3, <1>4, <2>1, <2>2 DEF Stored, Shelved, Recorded
  <2>4. Whole(st') /\ (OpenMouth(rend') => st'.speaking)
    BY <1>1, <2>2 DEF AInv, Held, Whole, MouthFollowsSpeech, OpenMouth
  <2>5. prog' = <<>>
    BY <1>2, <1>6 DEF Advance
  <2> QED BY <1>1, <1>6, <2>3, <2>4, <2>5, StepKeeps
<1> QED BY <1>5, <1>6 DEF DeleteFiles

-----------------------------------------------------------------------------
(* The world around the worker.                                            *)

\* The worker, its state and the library are left alone; the mouth may only close.
LEMMA OthersKeep ==
    ASSUME AInv, UNCHANGED <<worker, st, library>>, OpenMouth(rend') => OpenMouth(rend),
           Gone(rend) /\ Notices(rend) => Gone(rend'), Notices(rend) => Notices(rend'),
           ~ExitNotice /\ Exits => \A k \in DOMAIN queue' : queue'[k].kind # "exit"
    PROVE  Held'
<1>1. Programs'
  BY DEF AInv, Held, Programs, worker
<1>2. ~ExitNotice => Exits'
  BY DEF AInv, Held, Exits, worker
<1> QED BY <1>1, <1>2 DEF AInv, Held, MouthFollowsSpeech, OpenMouth, Whole, Stored

LEMMA AppendedKinds ==
    ASSUME queue \in Seq(Item), NEW i, i.kind # "exit", \A k \in DOMAIN queue : queue[k].kind # "exit",
           queue' = Append(queue, i)
    PROVE  \A k \in DOMAIN queue' : queue'[k].kind # "exit"
OBVIOUS

LEMMA SubmitKeeps == ASSUME AInv, NEW c \in Clients, Submit(c) PROVE Held'
<1>1. UNCHANGED <<worker, st, library, rend>>
  BY DEF Submit, actor
<1>2. queue \in Seq(Item)
  BY DEF AInv, IInv, TypeOK
<1>3. ASSUME Exits  PROVE \A k \in DOMAIN queue' : queue'[k].kind # "exit"
  <2>1. CASE UNCHANGED queue
    BY <1>3, <2>1 DEF Exits
  <2>2. ASSUME NEW i, i.kind = "command", queue' = Append(queue, i)  PROVE \A k \in DOMAIN queue' : queue'[k].kind # "exit"
    BY <1>2, <1>3, <2>2, AppendedKinds DEF Exits
  <2> QED BY <2>1, <2>2 DEF Submit
<1> QED BY <1>1, <1>3, OthersKeep DEF OpenMouth, Gone, Notices

LEMMA GiveUpKeeps == ASSUME AInv, NEW c \in Clients, GiveUp(c) PROVE Held'
<1>1. UNCHANGED <<worker, st, library, rend, queue>>
  BY DEF GiveUp, actor
<1> QED BY <1>1, OthersKeep DEF Exits

LEMMA NotifyKeeps == ASSUME AInv, Notify PROVE Held'
<1>1. UNCHANGED <<worker, st, library, rend>>
  BY DEF Notify, actor
<1>2. queue \in Seq(Item)
  BY DEF AInv, IInv, TypeOK
<1>3. ASSUME Exits, ~ExitNotice  PROVE \A k \in DOMAIN queue' : queue'[k].kind # "exit"
  <2>1. PICK p \in Inferred : queue' = Append(queue, [kind |-> "runtime", presence |-> p])
    BY <1>3 DEF Notify
  <2> QED BY <1>2, <1>3, <2>1, AppendedKinds DEF Exits
<1> QED BY <1>1, <1>3, OthersKeep

LEMMA ChildDiesKeeps == ASSUME AInv, ChildDies PROVE Held'
<1>1. /\ rend'.alive = FALSE /\ rend'.eof = TRUE /\ rend'.host = rend.host /\ rend'.exits = rend.exits
  BY Parts, Zenon DEF ChildDies, AInv, Renderer
<1>2. rend.alive /\ UNCHANGED <<worker, st, library, queue>>
  BY DEF ChildDies
<1>3. rend.host = "up"
  BY <1>2, Parts DEF AInv, Kept
<1> QED BY <1>1, <1>2, <1>3, OthersKeep DEF OpenMouth, Gone, Notices, Exits

LEMMA ReaderPostsKeeps == ASSUME AInv, ReaderPosts PROVE Held'
<1>1. /\ rend'.eof = FALSE /\ rend'.alive = rend.alive /\ rend'.host = rend.host
      /\ rend'.exits = rend.exits + 1 /\ rend'.scene = rend.scene
  BY Parts, Zenon DEF ReaderPosts, AInv, Renderer
<1>2. rend.eof /\ UNCHANGED <<worker, st, library, queue>>
  BY DEF ReaderPosts
<1> QED BY <1>1, <1>2, OthersKeep DEF OpenMouth, Gone, Notices, Exits

LEMMA StopSignalKeeps == ASSUME AInv, Stop PROVE Held'
<1>1. UNCHANGED <<worker, st, library, rend, queue>>
  BY DEF Stop
<1> QED BY <1>1, OthersKeep DEF Exits

LEMMA CloseRendererKeeps == ASSUME AInv, CloseRenderer PROVE Held'
<1> DEFINE more == IF rend.alive \/ rend.eof THEN rend.exits + 1 ELSE rend.exits
<1>1. UNCHANGED <<worker, st, library, queue>>
  BY DEF CloseRenderer
<1>2. CASE rend.host = "none"
  <2>1. rend' = rend
    BY <1>2 DEF CloseRenderer
  <2> QED BY <1>1, <2>1, OthersKeep DEF Exits
<1>3. CASE rend.host # "none"
  <2>1. rend' = [rend EXCEPT !.host = "stopped", !.alive = FALSE, !.eof = FALSE, !.exits = more]
    BY <1>3 DEF CloseRenderer
  <2>2. (Gone(rend) => more = 0) /\ (Notices(rend) => more \in {0, 1})
    BY DEF Gone, Notices
  <2> HIDE DEF more
  <2>3. rend'.host = "stopped" /\ rend'.alive = FALSE /\ rend'.eof = FALSE /\ rend'.exits = more
    BY <2>1, Parts, Zenon DEF AInv, Renderer
  <2> QED BY <1>1, <2>2, <2>3, OthersKeep DEF OpenMouth, Gone, Notices, Exits
<1> QED BY <1>2, <1>3

LEMMA InitKeeps == ASSUME Init PROVE Held
<1>1. Whole(st) /\ Stored(st, library)
  BY DEF Init, NewState, Whole, Stored
<1>2. MouthFollowsSpeech
  BY DEF Init, MouthFollowsSpeech
<1>3. Programs
  BY SequenceFacts DEF Init, Programs
<1>4. Exits
  BY DEF Init, Exits, Notices, Tick, Probe
<1> QED BY <1>1, <1>2, <1>3, <1>4 DEF Held

LEMMA HandlerKeeps == ASSUME AInv, Handler PROVE Held'
BY StatusKeeps, PresenceKeeps, EmotionKeeps, FaceKeeps, AttrKeeps, PlayKeeps, StopKeeps,
   SpeechBeginKeeps, SpeechAudioKeeps, SpeechCloseKeeps, LoadKeeps, UnloadKeeps, ShowKeeps,
   HideKeeps, DeleteKeeps, ImportKeeps, RuntimeKeeps, ProbeKeeps, ExitNoticeKeeps, TickKeeps
   DEF Handler

LEMMA HandlerStepKeeps == ASSUME AInv, HandlerStep PROVE Held'
BY CallRendererKeeps, RequireKeeps, LoadAvatarKeeps, SetFaceKeeps, NotePlayingKeeps,
   PlayIdleClipKeeps, NoteLipsyncKeeps, CloseSpeechKeeps, NoteVisibleKeeps, NoteLoadedKeeps,
   NoteUnloadedKeeps, DeleteFilesKeeps DEF HandlerStep

LEMMA WorkerKeeps == ASSUME AInv, Worker PROVE Held'
<1>1. HandleExit => Held'
  BY HandleExitKeeps
<1>2. Restart => Held'
  BY RestartKeeps
<1>3. Take => Held'
  BY TakeKeeps
<1>4. Leave => Held'
  BY LeaveKeeps
<1>5. Finished => Held'
  BY FinishedKeeps
<1>6. Handler \/ HandlerStep => Held'
  BY HandlerKeeps, HandlerStepKeeps
<1> QED BY <1>1, <1>2, <1>3, <1>4, <1>5, <1>6 DEF Worker

LEMMA EnvironmentKeeps == ASSUME AInv, Environment PROVE Held'
BY SubmitKeeps, GiveUpKeeps, NotifyKeeps, ChildDiesKeeps, ReaderPostsKeeps,
   StopSignalKeeps, CloseRendererKeeps DEF Environment

LEMMA NextKeeps == ASSUME AInv, [Next]_vars PROVE AInv'
<1>1. IInv'
  BY NextType DEF AInv
<1>2. (Worker \/ Environment) => Held'
  BY WorkerKeeps, EnvironmentKeeps
<1>3. ASSUME UNCHANGED vars  PROVE Held'
  <2>1. UNCHANGED <<worker, st, library, rend, queue>>
    BY <1>3 DEF vars
  <2> QED BY <2>1, OthersKeep DEF Exits
<1> QED BY <1>1, <1>2, <1>3 DEF Next, AInv

LEMMA ActorHeld == Spec => []AInv
<1>1. Init => AInv
  BY InitType, InitKeeps DEF AInv
<1>2. AInv /\ [Next]_vars => AInv'
  BY NextKeeps
<1> QED BY <1>1, <1>2, PTL DEF Spec

\* Whatever fails, crashes or restarts between the audio of a speech and its end or cancel:
\* the mouth of a living avatar is open only while a speech session is open.
THEOREM MouthsClose == Spec => []MouthFollowsSpeech
<1>1. AInv => MouthFollowsSpeech
  BY DEF AInv, Held
<1> QED BY <1>1, ActorHeld, PTL

\* Whichever handlers are abandoned half-way: a speech session has its analyzer and the
\* presence of before, or there is none.
THEOREM SessionsAreWhole == Spec => []SessionWhole
<1>1. AInv => SessionWhole
  BY DEF AInv, Held, Whole, SessionWhole
<1> QED BY <1>1, ActorHeld, PTL

\* Whichever unload, selection, import or delete fails half-way, between its two files too: what
\* is loaded keeps both files, though a failed import may have torn them, and what is selected
\* keeps its record.
THEOREM StoredIsLoaded == Spec => []LoadedIsStored
<1>1. AInv => LoadedIsStored
  BY DEF AInv, Held, Stored, Shelved, Recorded, LoadedIsStored
<1> QED BY <1>1, ActorHeld, PTL

\* An exit event is of the child that ended: unless somebody outside says so, no restart
\* replaces a child that lives.
THEOREM RestartsSpareTheLiving == Spec => RestartSparesLiveChild
<1>1. AInv /\ [Next]_vars => [asleep /\ ~asleep' /\ ~ExitNotice => ~rend.alive]_vars
  BY DEF AInv, Held, Exits, Gone
<1> QED BY <1>1, ActorHeld, PTL DEF Spec, RestartSparesLiveChild
=============================================================================
