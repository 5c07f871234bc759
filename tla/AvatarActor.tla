----------------------------- MODULE AvatarActor -----------------------------
(***************************************************************************)
(* The AvatarActor of the zara-avatar plugin: one worker thread that owns  *)
(* the presentation state, takes work from a bounded FIFO queue, and       *)
(* drives a renderer child process that may crash, hang or refuse at any   *)
(* time.  Clients put commands into the queue and wait for an answer with  *)
(* a timeout; the runtime puts events; a second thread shuts the actor     *)
(* down after waiting for the worker for a bounded time.                   *)
(*                                                                         *)
(* A queue item is executed as a program: the renderer calls and state     *)
(* updates its handler makes, in the handler's order.  Every renderer call *)
(* is one step, so crashes, timeouts and the shutdown fall between any two *)
(* of them.  The inside of a call (pipes, reader thread, request ids) is   *)
(* abstracted to its outcome.                                              *)
(***************************************************************************)
EXTENDS AnimationController, FiniteSets

CONSTANTS
    Clients,      \* threads that submit commands (HTTP handlers, agent tools)
    Avatars,      \* avatar ids
    Faces,        \* EXPRESSIONS a model may support
    Fallback,     \* [Faces -> Seq(Faces)]: EXPRESSION_FALLBACKS
    Neutral,      \* the expression every chain ends with
    Attrs,        \* renderer attributes besides the face: transform, camera, gaze
    Worn,         \* the attributes of the model on stage: its transform
    Resynced,     \* the attributes _resync_renderer and _load send again, in order
    Values,       \* values of an attribute
    Default,      \* the value a fresh renderer and a fresh state start with
    Commands,     \* the commands clients may submit
    Inferred,     \* presences the runtime events imply
    None,         \* Python's None
    QueueSize, MaxRestarts,
    ExitNotice,   \* whether handle_renderer_exit() may be called
    MaxInputs     \* bound: commands and events put into the queue

Presences == {"idle", "listening", "thinking", "speaking"}

\* What clients submit.  "status" stands for the read-only operations, "play"
\* for gestures too; "audio" carries whether the chunk opens the mouth, "attr"
\* stands for transform.set, framing.set and gaze.set.
CommandType ==
    [op : {"status", "stop", "begin", "end", "cancel", "unload", "show", "hide"}]
    \cup [op : {"presence"}, presence : Presences]
    \cup [op : {"emotion", "face"}, face : Faces]
    \cup [op : {"attr"}, name : Attrs, value : Values]
    \cup [op : {"play"}, play : Play]
    \cup [op : {"audio"}, open : BOOLEAN]
    \cup [op : {"load", "select", "delete", "import"}, avatar : Avatars]

ASSUME ActorAssumption ==
    /\ QueueSize \in Nat \ {0} /\ MaxRestarts \in Nat /\ MaxInputs \in Nat
    /\ Worn \subseteq Attrs /\ Resynced \in Seq(Attrs) /\ Default \in Values
    /\ Neutral \in Faces /\ Fallback \in [Faces -> Seq(Faces)]
    /\ Inferred \subseteq Presences
    /\ None \notin Avatars \cup Presences
    /\ Commands \subseteq CommandType
    /\ ExitNotice \in BOOLEAN
    /\ "idle" \in IdleClips

VARIABLES
    queue,     \* the actor's inbox
    call,      \* what each client knows of its last command
    inputs,    \* items offered to the queue so far
    at,        \* where the worker is: top of the loop, polling, executing, ...
    item,      \* the item the worker took
    prog,      \* what is left of the running handler
    drained,   \* rendererExited events drained and not yet handled
    asleep,    \* the worker is in the restart back-off
    st,        \* AvatarState and the actor's private presence/speech fields
    ctl,       \* the AnimationController
    library,   \* the files of each avatar in the library's directory
    rend,      \* the RendererHost and its child, as the actor sees them
    stopping,  \* shutdown() was called
    closed     \* _close_renderer() has run

worker == <<at, item, prog, drained, asleep>>
vars == <<queue, call, inputs, worker, st, ctl, library, rend, stopping,
          closed>>

-----------------------------------------------------------------------------
(* The avatar library: a model and a record file per avatar.               *)

\* A file is torn when a write failed after it was truncated.
File == {"none", "torn", "whole"}
Files == [model : File, record : File]

\* get(): a record that parses and names a model file that is there, whatever
\* that file holds.
Found(a) == library[a].record = "whole" /\ library[a].model # "none"

-----------------------------------------------------------------------------
(* The renderer, as seen through RendererHost.                             *)

\* What the child shows once it has executed everything written to its pipe.
Scene == [avatar : Avatars \cup {None}, open : BOOLEAN, shown : BOOLEAN,
          face : Faces, attr : [Attrs -> Values]]

EmptyScene == [avatar |-> None, open |-> FALSE, shown |-> FALSE,
               face |-> Neutral, attr |-> [a \in Attrs |-> Default]]

Renderer == [host     : {"none", "fresh", "up", "stopped"},
             alive    : BOOLEAN,          \* the child process runs
             scene    : Scene,
             eof      : BOOLEAN,          \* dead, its reader has not posted yet
             exits    : Nat,              \* rendererExited events not drained
             attempts : Nat,              \* _restart_attempts
             state    : {"new", "running", "unavailable"}]

\* The commands the model tells apart; "SetAttr" is SetTransform, SetCamera
\* or SetGaze.
Calls == [do : {"UnloadAvatar", "ShowWindow", "HideWindow"}]
         \cup [do : {"SetVisemes"}, open : BOOLEAN]
         \cup [do : {"SetExpression"}, face : Faces]
         \cup [do : {"SetAttr"}, name : Attrs, value : Values]
         \cup [do : {"PlayAnimation"}, play : Play]

RendererCommands == {"UnloadAvatar", "ShowWindow", "HideWindow", "SetVisemes",
                     "SetExpression", "SetAttr", "PlayAnimation"}

\* A new model, or none, has a neutral face and the default transform; the
\* visemes, the camera and the gaze stay from model to model.
Staged(s, avatar) ==
    [s EXCEPT !.avatar = avatar, !.face = Neutral,
              !.attr = [a \in Attrs |-> IF a \in Worn THEN Default ELSE @[a]]]

Shown(s, i) ==
    CASE i.do \in {"load", "reload"} -> Staged(s, i.avatar)
      [] i.do = "UnloadAvatar"  -> Staged(s, None)
      [] i.do = "SetVisemes"    -> [s EXCEPT !.open = i.open]
      [] i.do = "ShowWindow"    -> [s EXCEPT !.shown = TRUE]
      [] i.do = "HideWindow"    -> [s EXCEPT !.shown = FALSE]
      [] i.do = "SetExpression" -> IF s.avatar = None THEN s ELSE [s EXCEPT !.face = i.face]
      [] i.do = "SetAttr"       -> IF i.name \in Worn /\ s.avatar = None THEN s
                                   ELSE [s EXCEPT !.attr[i.name] = i.value]
      [] i.do = "PlayAnimation" -> s

Unavailable(r) == [r EXCEPT !.state = "unavailable"]

\* A child that signalled "ready".  A new host starts with no events.
Spawned(r) == [r EXCEPT !.host = "up", !.alive = TRUE, !.scene = EmptyScene,
                        !.exits = IF r.host = "none" THEN 0 ELSE @,
                        !.eof = FALSE]

\* The actor forgets its host, and the events still in it.
Dropped(r) == Unavailable([r EXCEPT !.host = "none", !.exits = 0, !.eof = FALSE])

\* Mutant: start() revives a dead child in the same host, events and all.
EnsuredInPlace(r) ==
    LET usable(s) == <<[s EXCEPT !.state = "running", !.attempts = 0], TRUE>>
    IN  IF r.alive THEN {usable(r)} ELSE {usable(Spawned(r)), <<Dropped(r), FALSE>>}

\* _ensure_renderer: the possible <<renderer, usable>> pairs.  start() raises
\* RuntimeError on a host whose child died or that was shut down.
Ensured(r) ==
    LET usable(s) == <<[s EXCEPT !.state = "running", !.attempts = 0], TRUE>>
        stillborn == [Spawned(r) EXCEPT !.alive = FALSE, !.eof = TRUE]
    IN  CASE r.host = "up" /\ r.alive -> {usable(r)}
          [] r.host = "stopped" \/ (r.host = "up" /\ ~r.alive) ->
                {<<Dropped(r), FALSE>>}
          [] OTHER -> {usable(Spawned(r)), <<Dropped(r), FALSE>>,
                       <<Unavailable(stillborn), FALSE>>}

\* Mutant: a failed request makes the actor forget its host.
RequestedForgetful(r, i) ==
    {<<[r EXCEPT !.scene = Shown(@, i)], "ok">>, <<Dropped(r), "failed">>}

\* _renderer_request on a host that was usable: answered; an error reply; a
\* timeout, after which the child still executes what the pipe holds; or the
\* child is dead by then.
Requested(r, i) ==
    LET done == [r EXCEPT !.scene = Shown(@, i)]
        dead == Unavailable([r EXCEPT !.alive = FALSE, !.eof = @ \/ r.alive])
    IN  IF r.alive
        THEN {<<done, "ok">>, <<r, "failed">>, <<done, "failed">>, <<dead, "failed">>}
        ELSE {<<dead, "failed">>}

\* host.restart(): the old child is ended (its reader posts an exit event);
\* then a new child comes up, or does not get ready, or cannot be spawned.
Restarted(r) ==
    LET ended == [r EXCEPT !.alive = FALSE, !.eof = FALSE,
                           !.exits = IF r.alive \/ r.eof THEN @ + 1 ELSE @]
    IN  IF r.host = "none"
        THEN {Unavailable(r)}
        ELSE {[Spawned(ended) EXCEPT !.state = "running"],
              Unavailable([ended EXCEPT !.host = "stopped", !.exits = @ + 1]),
              Unavailable([ended EXCEPT !.host = "fresh"])}

-----------------------------------------------------------------------------
(* Programs: what is left of a handler.                                    *)

\* The state updates between and after the renderer calls; "load" and
\* "reload" are LoadAvatar with what its answer changes.
Updates == [do : {"require", "unloaded", "lipsync", "idle", "visible"}]
           \cup [do : {"face"}, face : Faces]
           \cup [do : {"load", "reload", "deleted"}, avatar : Avatars]
           \cup [do : {"loaded"}, avatar : Avatars, select : BOOLEAN]
           \cup [do : {"closed"}, cancelled : BOOLEAN]
           \cup [do : {"playing"}, play : Play]

Do(what) == [do |-> what]
SetAttr(name, value) == [do |-> "SetAttr", name |-> name, value |-> value]
SetFaceTo(face) == [do |-> "face", face |-> face]

SendAttrs(attr) ==
    [k \in DOMAIN Resynced |-> SetAttr(Resynced[k], attr[Resynced[k]])]

\* _start_animation_commands: each play is sent, then recorded.
Plays(cmds) ==
    IF cmds = <<>> THEN <<>>
    ELSE <<[do |-> "PlayAnimation", play |-> cmds[1]], [do |-> "playing", play |-> cmds[1]]>>

\* resolve_expression: the first face of the chain the model has.  With no
\* capability information the face is taken as asked.
Resolve(face, faces) ==
    LET chain == Fallback[face]
        first == {f \in faces : \E k \in DOMAIN chain :
                     chain[k] = f /\ \A j \in 1..(k - 1) : chain[j] \notin faces}
    IN  IF faces = {} THEN face
        ELSE IF first = {} THEN Neutral
        ELSE CHOOSE f \in first : TRUE

-----------------------------------------------------------------------------
(* Clients, the runtime, the child process and the closing thread.         *)

NewState ==
    [loaded |-> FALSE, avatar |-> None, visible |-> FALSE, selected |-> None,
     presence |-> "idle", explicit |-> FALSE, before |-> None,
     speaking |-> FALSE, lipsync |-> FALSE, analyzer |-> FALSE,
     emotion |-> Neutral, face |-> Neutral, faces |-> {},
     attr |-> [a \in Attrs |-> Default], animation |-> NoClip, armed |-> FALSE]

Libraries ==
    {l \in [Avatars -> Files] : \A a \in Avatars : l[a].record = "torn" => l[a].model # "none"}

Tick == [kind |-> "tick"]
Probe == [kind |-> "probe"]

\* plugin start(): the worker runs, the renderer probe is queued, and the
\* library holds what earlier runs of the plugin left, failed imports and
\* deletes included (a delete starts only from a record that parses).
Init ==
    /\ queue = <<Probe>> /\ inputs = 0
    /\ call = [c \in Clients |-> [s |-> "idle", n |-> 0]]
    /\ at = "top" /\ item = Tick /\ prog = <<>> /\ drained = 0 /\ asleep = FALSE
    /\ st = NewState /\ ctl = NewController /\ library \in Libraries
    /\ rend = [host |-> "none", alive |-> FALSE, scene |-> EmptyScene, eof |-> FALSE,
               exits |-> 0, attempts |-> 0, state |-> "new"]
    /\ stopping = FALSE /\ closed = FALSE

actor == <<worker, st, ctl, library, rend, stopping, closed>>

Offer == inputs < MaxInputs /\ inputs' = inputs + 1

\* submit(): refused once the actor is stopping, overloaded when the queue
\* stays full.
Submit(c) ==
    /\ Offer /\ call[c].s # "waiting"
    /\ \E cmd \in Commands :
          IF stopping \/ Len(queue) >= QueueSize
          THEN /\ call' = [call EXCEPT ![c] = [s |-> "refused", n |-> inputs']]
               /\ UNCHANGED queue
          ELSE /\ call' = [call EXCEPT ![c] = [s |-> "waiting", n |-> inputs']]
               /\ queue' = Append(queue, [kind |-> "command", cmd |-> cmd,
                                          who |-> c, n |-> inputs'])
    /\ UNCHANGED actor

\* future.result(timeout): the caller gives up; the item stays queued.
GiveUp(c) ==
    /\ call[c].s = "waiting"
    /\ call' = [call EXCEPT ![c].s = "timeout"]
    /\ UNCHANGED <<queue, inputs, actor>>

\* handle_runtime_event and handle_renderer_exit drop the item when the queue
\* stays full.
Notify ==
    /\ Offer /\ Len(queue) < QueueSize
    /\ \/ \E p \in Inferred : queue' = Append(queue, [kind |-> "runtime", presence |-> p])
       \/ ExitNotice /\ queue' = Append(queue, [kind |-> "exit"])
    /\ UNCHANGED <<call, actor>>

ChildDies ==
    /\ rend.alive
    /\ rend' = [rend EXCEPT !.alive = FALSE, !.eof = TRUE]
    /\ UNCHANGED <<queue, call, inputs, worker, st, ctl, library, stopping, closed>>

\* Mutant: a reader that ends on an error posts nothing.
ReaderSilent ==
    /\ rend.eof
    /\ rend' = [rend EXCEPT !.eof = FALSE]
    /\ UNCHANGED <<queue, call, inputs, worker, st, ctl, library, stopping, closed>>

\* The reader thread of a dead child posts rendererExited.
ReaderPosts ==
    /\ rend.eof
    /\ rend' = [rend EXCEPT !.eof = FALSE, !.exits = @ + 1]
    /\ UNCHANGED <<queue, call, inputs, worker, st, ctl, library, stopping, closed>>

Stop ==
    /\ ~stopping /\ stopping' = TRUE
    /\ UNCHANGED <<queue, call, inputs, worker, st, ctl, library, rend, closed>>

\* The closing thread waited for the worker, or for five seconds in vain, and
\* shuts down whatever host the actor holds at that moment.
CloseRenderer ==
    /\ stopping /\ ~closed /\ closed' = TRUE
    /\ rend' = IF rend.host = "none" THEN rend
               ELSE [rend EXCEPT !.host = "stopped", !.alive = FALSE, !.eof = FALSE,
                                 !.exits = IF rend.alive \/ rend.eof THEN @ + 1 ELSE @]
    /\ UNCHANGED <<queue, call, inputs, worker, st, ctl, library, stopping>>

-----------------------------------------------------------------------------
(* The worker loop.                                                        *)

rest == <<queue, inputs, stopping, closed>>

\* queue.get(timeout) and drain_events().
Take ==
    /\ at = "top" /\ ~stopping
    /\ \/ queue # <<>> /\ item' = Head(queue) /\ queue' = Tail(queue)
       \/ queue = <<>> /\ item' = Tick /\ UNCHANGED queue
    /\ at' = "poll"
    /\ IF rend.host = "none" THEN drained' = 0 /\ UNCHANGED rend
       ELSE drained' = rend.exits /\ rend' = [rend EXCEPT !.exits = 0]
    /\ UNCHANGED <<prog, asleep, call, inputs, st, ctl, library, stopping, closed>>

Leave ==
    /\ at = "top" /\ stopping /\ at' = "done"
    /\ UNCHANGED <<item, prog, drained, asleep, st, ctl, library, rend, call, rest>>

\* _recover_renderer up to its sleep, on the renderer r; the caller sets "at"
\* and "drained".
BeginRecovery(r) ==
    /\ IF r.attempts >= MaxRestarts
       THEN asleep' = FALSE /\ rend' = Unavailable(r)
       ELSE asleep' = TRUE /\ rend' = [r EXCEPT !.attempts = @ + 1]
    /\ UNCHANGED <<item, prog, st, ctl, library, call, rest>>

\* Mutant: the guard of the event loop is off by one.
HandleExitOnceMore ==
    /\ at = "poll" /\ prog = <<>> /\ ~asleep /\ drained >= 0
    /\ drained' = drained - 1 /\ UNCHANGED at
    /\ BeginRecovery(Unavailable(rend))

\* Mutant: an event that finds the restart budget used up is not consumed.
HandleExitForever ==
    /\ at = "poll" /\ prog = <<>> /\ ~asleep /\ drained > 0
    /\ drained' = (IF rend.attempts >= MaxRestarts THEN drained ELSE drained - 1)
    /\ UNCHANGED at /\ BeginRecovery(Unavailable(rend))

\* A drained rendererExited event.
HandleExit ==
    /\ at = "poll" /\ prog = <<>> /\ ~asleep /\ drained > 0
    /\ drained' = drained - 1 /\ UNCHANGED at
    /\ BeginRecovery(Unavailable(rend))

\* The rest of _recover_renderer after the back-off, and _resync_renderer.
Restart ==
    /\ asleep /\ asleep' = FALSE
    /\ \E r \in Restarted(rend) :
          /\ rend' = r
          /\ prog' = IF ~r.alive THEN <<>>
                     ELSE (IF st.loaded /\ st.avatar # None /\ Found(st.avatar)
                           THEN <<[do |-> "reload", avatar |-> st.avatar]>> ELSE <<>>)
                          \o <<[do |-> "SetExpression", face |-> st.face]>>
                          \o SendAttrs(st.attr)
    /\ UNCHANGED <<at, item, drained, st, ctl, library, call, rest>>

\* The item's turn comes when no exit event is left.
Ready(kind) ==
    /\ at = "poll" /\ prog = <<>> /\ ~asleep /\ drained = 0 /\ item.kind = kind

Answer(outcome) ==
    call' = IF call[item.who] = [s |-> "waiting", n |-> item.n]
            THEN [call EXCEPT ![item.who].s = outcome] ELSE call

\* An exception inside a command handler answers the command; anywhere else
\* nothing catches it and the worker thread ends.
Raise ==
    /\ prog' = <<>>
    /\ IF at = "exec" /\ item.kind = "command"
       THEN at' = "top" /\ Answer("error")
       ELSE at' = "dead" /\ UNCHANGED call
    /\ UNCHANGED <<item, drained, asleep>>

\* The command taken is op; its handler starts by making the state s and the
\* controller c, with the program p still to run.
Command(op) == Ready("command") /\ item.cmd.op = op

Begin(s, c, p) ==
    /\ st' = s /\ ctl' = c /\ prog' = p /\ at' = "exec"
    /\ UNCHANGED <<item, drained, asleep, call, rest>>

Reject ==
    /\ at' = "top" /\ Answer("error")
    /\ UNCHANGED <<item, prog, drained, asleep, st, ctl, rest>>

Finished ==
    /\ at = "exec" /\ prog = <<>> /\ ~asleep /\ at' = "top"
    /\ IF item.kind = "command" THEN Answer("ok") ELSE UNCHANGED call
    /\ UNCHANGED <<item, prog, drained, asleep, st, ctl, library, rend, rest>>

-----------------------------------------------------------------------------
(* Handlers.                                                               *)

UnloadProg == <<Do("UnloadAvatar"), Do("unloaded")>>

DoStatus == Command("status") /\ Begin(st, ctl, <<>>) /\ UNCHANGED <<library, rend>>

\* An explicit idle gives presence back to the runtime events.
DoPresence ==
    /\ Command("presence")
    /\ LET p == item.cmd.presence
       IN  Begin([st EXCEPT !.presence = p, !.explicit = p # "idle"], ctl, <<>>)
    /\ UNCHANGED <<library, rend>>

\* An emotion has the name of the face that expresses it.
DoEmotion ==
    /\ Command("emotion")
    /\ Begin([st EXCEPT !.emotion = item.cmd.face], ctl, <<SetFaceTo(item.cmd.face)>>)
    /\ UNCHANGED <<library, rend>>

DoFace ==
    /\ Command("face")
    /\ Begin(st, ctl, <<SetFaceTo(item.cmd.face)>>)
    /\ UNCHANGED <<library, rend>>

\* transform.set, framing.set and gaze.set: the state first, then the renderer.
DoAttr ==
    /\ Command("attr")
    /\ Begin([st EXCEPT !.attr[item.cmd.name] = item.cmd.value], ctl,
             <<SetAttr(item.cmd.name, item.cmd.value)>>)
    /\ UNCHANGED <<library, rend>>

\* gesture and animation.play
DoPlay ==
    /\ Command("play")
    /\ LET r == PlayClip(ctl, item.cmd.play) IN Begin(st, r.ctl, Plays(r.cmds))
    /\ UNCHANGED <<library, rend>>

DoStop ==
    /\ Command("stop")
    /\ \E clip \in IdleChoices(ctl) :
          LET r == StopClip(ctl, clip) IN Begin(st, r.ctl, Plays(r.cmds))
    /\ UNCHANGED <<library, rend>>

DoSpeechBegin ==
    /\ Command("begin")
    /\ Begin([st EXCEPT !.before = IF st.speaking THEN @ ELSE st.presence,
                        !.analyzer = TRUE, !.speaking = TRUE, !.lipsync = FALSE,
                        !.presence = "speaking"], ctl, <<>>)
    /\ UNCHANGED <<library, rend>>

DoSpeechAudio ==
    /\ Command("audio")
    /\ IF st.speaking /\ st.analyzer
       THEN Begin(st, ctl, <<[do |-> "SetVisemes", open |-> item.cmd.open], Do("lipsync")>>)
       ELSE Reject
    /\ UNCHANGED <<library, rend>>

\* Mutant: the session is forgotten before the mouth is closed.
DoSpeechCloseLate ==
    /\ Command("end") \/ Command("cancel")
    /\ Begin(st, ctl, <<[do |-> "closed", cancelled |-> item.cmd.op = "cancel"],
                        [do |-> "SetVisemes", open |-> FALSE]>>)
    /\ UNCHANGED <<library, rend>>

DoSpeechClose ==
    /\ Command("end") \/ Command("cancel")
    /\ Begin(st, ctl, <<[do |-> "SetVisemes", open |-> FALSE],
                        [do |-> "closed", cancelled |-> item.cmd.op = "cancel"]>>)
    /\ UNCHANGED <<library, rend>>

DoLoad ==
    /\ Command("load") \/ Command("select")
    /\ LET id == item.cmd.avatar
       IN  IF Found(id)
           THEN Begin(st, ctl,
                  <<Do("require")>>
                  \o (IF st.loaded /\ st.avatar # id THEN <<Do("UnloadAvatar")>> ELSE <<>>)
                  \o <<[do |-> "load", avatar |-> id],
                       [do |-> "loaded", avatar |-> id, select |-> item.cmd.op = "select"],
                       SetFaceTo(st.face)>>
                  \o SendAttrs(st.attr) \o <<Do("idle")>>)
           ELSE Reject
    /\ UNCHANGED <<library, rend>>

DoUnload == Command("unload") /\ Begin(st, ctl, UnloadProg) /\ UNCHANGED <<library, rend>>

DoShow ==
    /\ Command("show")
    /\ IF st.loaded
       THEN Begin(st, ctl, <<Do("ShowWindow"), Do("visible")>>
                           \o (IF st.animation = NoClip THEN <<Do("idle")>> ELSE <<>>))
       ELSE Reject
    /\ UNCHANGED <<library, rend>>

DoHide ==
    /\ Command("hide")
    /\ Begin([st EXCEPT !.visible = FALSE], ctl, <<Do("HideWindow")>>)
    /\ UNCHANGED <<library, rend>>

\* Mutant: the avatar on stage is not unloaded first.
DoDeleteLoaded ==
    /\ Command("delete")
    /\ Begin(st, ctl, <<[do |-> "deleted", avatar |-> item.cmd.avatar]>>)
    /\ UNCHANGED <<library, rend>>

DoDelete ==
    /\ Command("delete")
    /\ Begin(st, ctl, (IF st.loaded /\ st.avatar = item.cmd.avatar THEN UnloadProg ELSE <<>>)
                      \o <<[do |-> "deleted", avatar |-> item.cmd.avatar]>>)
    /\ UNCHANGED <<library, rend>>

\* import_avatar writes the model in place, then the record; a file that is no
\* VRM model, or cannot be read, is refused before the first write.  A write
\* that fails leaves its file torn, also that of an avatar on stage.
DoImport ==
    /\ Command("import")
    /\ LET id == item.cmd.avatar
           left(model, record) == [library EXCEPT ![id] = [model |-> model, record |-> record]]
       IN  \/ Begin(st, ctl, <<>>) /\ library' = left("whole", "whole")
           \/ /\ Reject
              /\ library' \in {library, left("torn", library[id].record),
                               left("whole", library[id].record), left("whole", "torn")}
    /\ UNCHANGED rend

\* Runtime events move presence only while nobody owns it.
DoRuntime ==
    /\ Ready("runtime") /\ at' = "top"
    /\ st' = IF st.explicit \/ st.speaking THEN st
             ELSE [st EXCEPT !.presence = item.presence]
    /\ UNCHANGED <<item, prog, drained, asleep, ctl, library, rend, call, rest>>

DoProbe ==
    /\ Ready("probe") /\ at' = "top"
    /\ \E e \in Ensured(rend) : rend' = e[1]
    /\ UNCHANGED <<item, prog, drained, asleep, st, ctl, library, call, rest>>

DoExitNotice ==
    /\ Ready("exit") /\ at' = "exec" /\ UNCHANGED drained
    /\ BeginRecovery(rend)

\* _check_animation_deadline on a loop turn without an item.
DoTick ==
    /\ Ready("tick")
    /\ \/ Begin(st, ctl, <<>>)
       \/ /\ st.armed
          /\ \E clip \in IdleChoices(ctl) :
                LET r == Finish(ctl, clip)
                IN  Begin([st EXCEPT !.armed = FALSE], r.ctl, Plays(r.cmds))
    /\ UNCHANGED <<library, rend>>

-----------------------------------------------------------------------------
(* Steps of a running handler.                                             *)

Head1 == Head(prog)
Running(what) == prog # <<>> /\ Head1.do = what
Advance(more) == prog' = more \o Tail(prog) /\ UNCHANGED <<at, item, drained, asleep, call>>

\* _renderer_command: skipped when no renderer is to be had.
CallRenderer ==
    /\ prog # <<>> /\ Head1.do \in RendererCommands
    /\ \E e \in Ensured(rend) :
          IF ~e[2] THEN rend' = e[1] /\ Advance(<<>>)
          ELSE \E q \in Requested(e[1], Head1) :
                  rend' = q[1] /\ (IF q[2] = "ok" THEN Advance(<<>>) ELSE Raise)
    /\ UNCHANGED <<st, ctl, library, rest>>

Require ==
    /\ Running("require")
    /\ \E e \in Ensured(rend) : rend' = e[1] /\ (IF e[2] THEN Advance(<<>>) ELSE Raise)
    /\ UNCHANGED <<st, ctl, library, rest>>

\* LoadAvatar goes to the host as it is: without one the call itself fails.
\* The answer may list the faces the model has.
LoadAvatar ==
    /\ Running("load") \/ Running("reload")
    /\ LET fail == IF Head1.do = "reload" THEN prog' = <<>> /\ UNCHANGED <<at, item, drained, asleep, call>>
                   ELSE Raise
       IN  IF rend.host = "none"
           THEN Raise /\ UNCHANGED <<rend, st>>
           ELSE \E q \in Requested(rend, Head1) :
                   IF q[2] = "ok"
                   THEN /\ rend' = q[1] /\ Advance(<<>>)
                        /\ \E f \in {st.faces} \cup SUBSET Faces : st' = [st EXCEPT !.faces = f]
                   ELSE rend' = Unavailable(q[1]) /\ fail /\ UNCHANGED st
    /\ UNCHANGED <<ctl, library, rest>>

\* State updates of the handlers, in program order with the calls.
SetFace ==
    /\ Running("face")
    /\ LET f == Resolve(Head1.face, st.faces)
       IN  st' = [st EXCEPT !.face = f] /\ Advance(<<[do |-> "SetExpression", face |-> f]>>)
    /\ UNCHANGED <<ctl, library, rend, rest>>

NotePlaying ==
    /\ Running("playing") /\ Advance(<<>>)
    /\ st' = [st EXCEPT !.animation = Head1.play.clip, !.armed = ~Head1.play.loop]
    /\ UNCHANGED <<ctl, library, rend, rest>>

PlayIdleClip ==
    /\ Running("idle")
    /\ LET r == PlayClip(ctl, [clip |-> "idle", loop |-> FALSE])
       IN  ctl' = r.ctl /\ Advance(Plays(r.cmds))
    /\ UNCHANGED <<st, library, rend, rest>>

NoteLipsync ==
    /\ Running("lipsync") /\ Advance(<<>>) /\ st' = [st EXCEPT !.lipsync = TRUE]
    /\ UNCHANGED <<ctl, library, rend, rest>>

\* Mutant: the presence to restore is not forgotten.
CloseSpeechRemembers ==
    /\ Running("closed") /\ Advance(<<>>)
    /\ st' = [st EXCEPT !.analyzer = FALSE, !.speaking = FALSE, !.lipsync = FALSE,
                        !.presence = IF st.before = None THEN "idle" ELSE st.before]
    /\ UNCHANGED <<ctl, library, rend, rest>>

\* End and cancel restore the presence of before the speech, except that a
\* cancelled speech nobody claimed goes to idle.
CloseSpeech ==
    /\ Running("closed") /\ Advance(<<>>)
    /\ LET before == IF st.before = None THEN "idle" ELSE st.before
       IN  st' = [st EXCEPT !.analyzer = FALSE, !.speaking = FALSE, !.lipsync = FALSE,
                            !.before = None,
                            !.presence = IF ~st.explicit /\ Head1.cancelled THEN "idle" ELSE before]
    /\ UNCHANGED <<ctl, library, rend, rest>>

NoteVisible ==
    /\ Running("visible") /\ Advance(<<>>) /\ st' = [st EXCEPT !.visible = TRUE]
    /\ UNCHANGED <<ctl, library, rend, rest>>

\* With select, the library's selection file is written last, and may not be.
NoteLoaded ==
    /\ Running("loaded")
    /\ Advance(<<>>) \/ (Head1.select /\ Raise)
    /\ st' = [st EXCEPT !.loaded = TRUE, !.avatar = Head1.avatar, !.armed = FALSE,
                        !.selected = IF Head1.select THEN Head1.avatar ELSE @]
    /\ ctl' = ResetController(ctl)
    /\ UNCHANGED <<library, rend, rest>>

NoteUnloaded ==
    /\ Running("unloaded") /\ Advance(<<>>)
    /\ st' = [st EXCEPT !.loaded = FALSE, !.visible = FALSE, !.avatar = None,
                        !.animation = NoClip, !.armed = FALSE]
    /\ ctl' = ResetController(ctl)
    /\ UNCHANGED <<library, rend, rest>>

\* library.delete: the model is unlinked, then the record, and either may fail;
\* _delete answers for an unknown avatar only, and unselects last.
DeleteFiles ==
    /\ Running("deleted")
    /\ LET id == Head1.avatar
       IN  \/ /\ Found(id) /\ Advance(<<>>)
              /\ library' = [library EXCEPT ![id] = [model |-> "none", record |-> "none"]]
              /\ st' = [st EXCEPT !.selected = IF @ = id THEN None ELSE @]
           \/ Found(id) /\ Raise /\ library' = [library EXCEPT ![id].model = "none"] /\ UNCHANGED st
           \/ Raise /\ UNCHANGED <<library, st>>
    /\ UNCHANGED <<ctl, rend, rest>>

Handler ==
    \/ DoStatus \/ DoPresence \/ DoEmotion \/ DoFace \/ DoAttr \/ DoPlay \/ DoStop
    \/ DoSpeechBegin \/ DoSpeechAudio \/ DoSpeechClose \/ DoLoad \/ DoUnload \/ DoShow
    \/ DoHide \/ DoDelete \/ DoImport \/ DoRuntime \/ DoProbe \/ DoExitNotice \/ DoTick

HandlerStep ==
    \/ CallRenderer \/ Require \/ LoadAvatar \/ SetFace \/ NotePlaying \/ PlayIdleClip
    \/ NoteLipsync \/ CloseSpeech \/ NoteVisible \/ NoteLoaded \/ NoteUnloaded
    \/ DeleteFiles

Worker == Take \/ Leave \/ HandleExit \/ Restart \/ Handler \/ HandlerStep \/ Finished

Environment ==
    \/ \E c \in Clients : Submit(c) \/ GiveUp(c)
    \/ Notify \/ ChildDies \/ ReaderPosts \/ Stop \/ CloseRenderer

Next == Worker \/ Environment

Spec == Init /\ [][Next]_vars

\* The worker thread runs, and the closing thread's wait is bounded.
FairSpec == Spec /\ WF_vars(Worker) /\ WF_vars(CloseRenderer) /\ WF_vars(ReaderPosts)

-----------------------------------------------------------------------------
(* Properties.                                                             *)

Item == [kind : {"tick", "probe", "exit"}]
        \cup [kind : {"runtime"}, presence : Presences]
        \cup [kind : {"command"}, cmd : Commands, who : Clients, n : 1..MaxInputs]

State == [loaded : BOOLEAN, avatar : Avatars \cup {None}, visible : BOOLEAN,
          selected : Avatars \cup {None}, presence : Presences,
          explicit : BOOLEAN, before : Presences \cup {None}, speaking : BOOLEAN,
          lipsync : BOOLEAN, analyzer : BOOLEAN, emotion : Faces, face : Faces,
          faces : SUBSET Faces, attr : [Attrs -> Values],
          animation : Clips \cup {NoClip}, armed : BOOLEAN]

\* Every variable keeps its type.
TypeOK ==
    /\ queue \in Seq(Item) /\ inputs \in 0..MaxInputs
    /\ call \in [Clients -> [s : {"idle", "waiting", "refused", "timeout", "ok", "error"},
                             n : 0..MaxInputs]]
    /\ at \in {"top", "poll", "exec", "done", "dead"}
    /\ item \in Item /\ prog \in Seq(Calls \cup Updates)
    /\ drained \in Nat /\ asleep \in BOOLEAN
    /\ st \in State /\ ctl \in Controller /\ rend \in Renderer
    /\ library \in [Avatars -> Files]
    /\ stopping \in BOOLEAN /\ closed \in BOOLEAN

\* The mouth of a living avatar is open only while a speech session is open:
\* whatever fails, crashes or restarts in between, speech end and cancel never
\* leave the last viseme standing (VisemeAnalyzer's promise, kept by
\* _speech_close sending the zeros before it forgets the session).
MouthFollowsSpeech == rend.alive /\ rend.scene.open => st.speaking

\* The actor never forgets a child that still runs: a host it dropped, never
\* started or shut down has no living child (_ensure_renderer drops a host
\* only after start() refused it).
NoLostChild == rend.host # "up" => ~rend.alive

\* "Terminate the renderer deterministically; leave no orphan process"
\* (RendererHost.shutdown): a host that the actor's shutdown() shut down gets
\* no child again.  Nobody would end that child: shutdown() closes once, and a
\* worker that finds the actor stopping just leaves.
ShutdownFinal == [][closed /\ rend.host = "stopped" => ~rend'.alive]_vars

\* Without an outside exit notice, the back-off ends in restart() only when
\* the child it is about to replace is already dead: an exit event of an
\* older child never gets a healthy one killed.
RestartSparesLiveChild ==
    [][asleep /\ ~asleep' /\ ~ExitNotice => ~rend.alive]_vars

\* What is loaded has its model and its record file, and what is selected its
\* record, also when a delete, an unload, a selection or an import failed
\* half-way (_delete unloads first and unlinks the record last).  The model
\* of an avatar that is selected only may be gone, after a delete that failed
\* between the files, and a failed import leaves torn files in place: then
\* get() finds nothing although the id stays loaded or selected.
LoadedIsStored ==
    /\ st.loaded => library[st.avatar].model # "none" /\ library[st.avatar].record # "none"
    /\ st.selected # None => library[st.selected].record # "none"

\* A speech session is all there or not there: analyzer, remembered presence
\* and the speaking flag agree whenever the worker is between items.
SessionWhole == at = "top" => /\ st.speaking <=> st.analyzer
                              /\ st.speaking <=> st.before # None

\* A status that says the renderer runs becomes true or is corrected, unless
\* the worker is gone.
StatusCorrected ==
    rend.state = "running" /\ ~rend.alive
        ~> rend.alive \/ rend.state # "running" \/ at \in {"done", "dead"}

\* Every accepted command is taken from the queue, whatever the renderer
\* does, unless the actor stops or its worker is gone.
CommandsTaken ==
    \A n \in 1..MaxInputs :
        (\E k \in DOMAIN queue : queue[k].kind = "command" /\ queue[k].n = n)
            ~> \/ \A k \in DOMAIN queue : queue[k].kind = "command" => queue[k].n # n
               \/ stopping \/ at = "dead"

\* "Renderer outages degrade presentation but never break Zara semantics":
\* the worker thread survives whatever the renderer does.
WorkerSurvives == at # "dead"
=============================================================================
