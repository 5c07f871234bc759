---------------------------- MODULE MCAvatarActor ----------------------------
(* Small instances of the avatar actor for TLC.                            *)
EXTENDS AvatarActor

CONSTANTS c1, c2, v1, v2, a1, a2

\* The chains of EXPRESSION_FALLBACKS for two of its faces.
MCFallback == [f \in Faces |->
                  IF f = "neutral" THEN <<"neutral">> ELSE <<"happy", "neutral">>]

Cmd(op) == [op |-> op]
Clip(name, loops) == [op |-> "play", play |-> [clip |-> name, loop |-> loops]]

\* Speech, presence, faces and animation.
SpeechCommands ==
    {Cmd("begin"), Cmd("end"), Cmd("cancel"), Cmd("stop"), Cmd("status"),
     [op |-> "audio", open |-> TRUE], [op |-> "presence", presence |-> "listening"],
     [op |-> "emotion", face |-> "happy"], [op |-> "face", face |-> "happy"], Clip("wave", FALSE)}

\* Importing, loading, selecting and deleting avatars.
LibraryCommands ==
    {[op |-> op, avatar |-> a] : op \in {"import", "load", "select", "delete"}, a \in Avatars}
    \cup {Cmd("unload"), Cmd("show"), Cmd("hide")}

\* Little to do, while the renderer fails.
OutageCommands ==
    {Cmd("status"), [op |-> "load", avatar |-> a1],
     [op |-> "attr", name |-> "SetCamera", value |-> v2]}

AnimationCommands == {Clip("wave", FALSE), Clip("wave", TRUE), Clip("nod", FALSE)}

AllCommands == SpeechCommands \cup LibraryCommands

NoAttrs == <<>>
CameraOnly == <<"SetCamera">>
TransformOnly == <<"SetTransform">>
=============================================================================
