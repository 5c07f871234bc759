---------------------------- MODULE DiscordSettings ----------------------------
(***************************************************************************)
(* What managers set with the slash commands: the policy of a guild, the   *)
(* override of a channel, and the acknowledgements of moderation.  Every   *)
(* command changes the store in memory first and then replaces the file,   *)
(* which may fail; a restart reads the files again.                        *)
(***************************************************************************)
EXTENDS Naturals, FiniteSets

CONSTANTS Guilds, Users, Channels,
          Text,        \* an acknowledgement
          Absent,      \* no policy, override or acknowledgement
          MaxChanges   \* bound: commands given

VARIABLES
    store,    \* PolicyStore: policies and overrides in memory
    file,     \* settings.json
    acks,     \* ModerationAcknowledgementStore in memory
    ackFile,  \* moderation-acknowledgements.json
    failed,   \* files whose last save failed
    changes,  \* commands given
    answered  \* the last command's answer: the user a manager was told is authorized

vars == <<store, file, acks, ackFile, failed, changes, answered>>

Policy == [mode : {"open", "restricted"}, users : SUBSET Users, channels : SUBSET Channels,
           random : BOOLEAN, moderation : BOOLEAN]
Override == [enabled : BOOLEAN, moderation : BOOLEAN]

DefaultPolicy == [mode |-> "open", users |-> {}, channels |-> {}, random |-> FALSE, moderation |-> FALSE]
NoAcks == [guild |-> [g \in Guilds |-> Absent], channel |-> [x \in Guilds \X Channels |-> Absent]]

Empty == [policies |-> [g \in Guilds |-> Absent], overrides |-> [x \in Guilds \X Channels |-> Absent]]
NoFile == [g \in Guilds |-> Absent]

TypeOK ==
    /\ \A g \in Guilds : store.policies[g] = Absent \/ store.policies[g] \in Policy
    /\ \A x \in Guilds \X Channels : store.overrides[x] = Absent \/ store.overrides[x] \in Override
    /\ \A g \in Guilds : file[g] = Absent \/ file[g].policy \in Policy
    /\ failed \subseteq {"settings", "acks"} /\ changes \in 0..MaxChanges /\ answered \subseteq Guilds \X Users

Init ==
    /\ store = Empty /\ file = NoFile /\ acks = NoAcks /\ ackFile = NoAcks
    /\ failed = {} /\ changes = 0 /\ answered = {}

-----------------------------------------------------------------------------
(* What is read.                                                           *)

PolicyOf(s, g) == IF s.policies[g] = Absent THEN DefaultPolicy ELSE s.policies[g]

\* inspection_policy: the override of the channel replaces the guild's.
Inspection(s, g, c) ==
    IF s.overrides[<<g, c>>] # Absent THEN s.overrides[<<g, c>>]
    ELSE [enabled |-> PolicyOf(s, g).random, moderation |-> PolicyOf(s, g).moderation]

\* is_allowed in a guild.
Allowed(s, g, u, c) ==
    LET p == PolicyOf(s, g)
    IN  /\ p.mode = "restricted" => u \in p.users
        /\ p.channels # {} => c \in p.channels

\* is_allowed in a direct message: any restricted guild restricts it.
AllowedPrivately(s, u) ==
    LET restricted == {g \in Guilds : PolicyOf(s, g).mode = "restricted"}
    IN  restricted = {} \/ \E g \in restricted : u \in PolicyOf(s, g).users

\* requires_message_content
RequiresContent(s) ==
    \/ \E g \in Guilds : PolicyOf(s, g).random
    \/ \E x \in Guilds \X Channels : s.overrides[x] # Absent /\ s.overrides[x].enabled

\* moderation_acknowledgement
Acknowledgement(a, g, c) == IF a.channel[<<g, c>>] # Absent THEN a.channel[<<g, c>>] ELSE a.guild[g]

-----------------------------------------------------------------------------
(* The file.                                                               *)

OverridesOf(s, g) == [c \in Channels |-> s.overrides[<<g, c>>]]

\* Mutant: only guilds with a policy of their own are written.
SerializedPolicies(s) ==
    [g \in Guilds |-> IF s.policies[g] = Absent THEN Absent
                      ELSE [policy |-> s.policies[g], channels |-> OverridesOf(s, g)]]

\* _save: a guild that has only overrides gets the default policy.
Serialized(s) ==
    [g \in Guilds |->
        IF s.policies[g] = Absent /\ \A c \in Channels : s.overrides[<<g, c>>] = Absent THEN Absent
        ELSE [policy |-> PolicyOf(s, g), channels |-> OverridesOf(s, g)]]

\* _load
Loaded(f) ==
    [policies  |-> [g \in Guilds |-> IF f[g] = Absent THEN Absent ELSE f[g].policy],
     overrides |-> [x \in Guilds \X Channels |-> IF f[x[1]] = Absent THEN Absent ELSE f[x[1]].channels[x[2]]]]

Save(s) ==
    \/ file' = Serialized(s) /\ failed' = failed \ {"settings"}
    \/ file' = file /\ failed' = failed \cup {"settings"}

-----------------------------------------------------------------------------
(* The commands of a manager.                                              *)

\* _update: the new policy is in memory before, and whether or not, it is saved.
Update(g, p, saved) ==
    /\ store' = [store EXCEPT !.policies[g] = p]
    /\ IF saved THEN Save(store') ELSE UNCHANGED <<file, failed>>

Command == changes < MaxChanges /\ changes' = changes + 1 /\ UNCHANGED <<acks, ackFile>>

\* set_access_mode, set_random_mode and set_moderation_enabled.
SetPolicy(g) ==
    /\ Command /\ UNCHANGED answered
    /\ LET p == PolicyOf(store, g)
       IN  \/ \E v \in {"open", "restricted"} : Update(g, [p EXCEPT !.mode = v], TRUE)
           \/ \E v \in BOOLEAN : Update(g, [p EXCEPT !.random = v], TRUE)
           \/ \E v \in BOOLEAN : Update(g, [p EXCEPT !.moderation = v], TRUE)

\* /zara users: a change that changes nothing is not saved, and answered all the same.
SetUsers(g, users) ==
    LET p == PolicyOf(store, g)
        changed == users # p.users
    IN  /\ Command /\ Update(g, [p EXCEPT !.users = users], changed)
        /\ answered' = IF changed /\ "settings" \in failed' THEN answered
                       ELSE (answered \ ({g} \X Users)) \cup ({g} \X users)

AddUser(g, u) == SetUsers(g, PolicyOf(store, g).users \cup {u})
RemoveUser(g, u) == SetUsers(g, PolicyOf(store, g).users \ {u})
ClearUsers(g) == SetUsers(g, {})

\* /zara channels
SetChannels(g, channels) ==
    LET p == PolicyOf(store, g)
    IN  /\ Command /\ UNCHANGED answered
        /\ Update(g, [p EXCEPT !.channels = channels], channels # p.channels)

AddChannel(g, c) == SetChannels(g, PolicyOf(store, g).channels \cup {c})
RemoveChannel(g, c) == SetChannels(g, PolicyOf(store, g).channels \ {c})
ClearChannels(g) == SetChannels(g, {})

\* set_channel_inspection_policy
SetOverride(g, c, o) ==
    /\ Command /\ UNCHANGED answered
    /\ store' = [store EXCEPT !.overrides[<<g, c>>] = o] /\ Save(store')

\* set_moderation_acknowledgement, for a guild or for a channel; an empty text removes.
SetAcknowledgement(g, c, text) ==
    /\ changes < MaxChanges /\ changes' = changes + 1
    /\ acks' \in {[acks EXCEPT !.guild[g] = text], [acks EXCEPT !.channel[<<g, c>>] = text]}
    /\ \/ ackFile' = acks' /\ failed' = failed \ {"acks"}
       \/ ackFile' = ackFile /\ failed' = failed \cup {"acks"}
    /\ UNCHANGED <<store, file, answered>>

\* The plugin starts again, in this process or in another.
Restart ==
    /\ store' = Loaded(file) /\ acks' = ackFile
    /\ failed' = {} /\ UNCHANGED <<file, ackFile, changes, answered>>

Next ==
    \/ \E g \in Guilds :
        \/ SetPolicy(g) \/ ClearUsers(g) \/ ClearChannels(g)
        \/ \E u \in Users : AddUser(g, u) \/ RemoveUser(g, u)
        \/ \E c \in Channels : \/ AddChannel(g, c) \/ RemoveChannel(g, c)
                               \/ \E o \in Override : SetOverride(g, c, o)
                               \/ \E t \in {Text, Absent} : SetAcknowledgement(g, c, t)
    \/ Restart

Spec == Init /\ [][Next]_vars

-----------------------------------------------------------------------------
(* Properties.                                                             *)

\* Unless a save failed, a restart changes nothing a user or a channel can tell: who may
\* talk and where, what is inspected and moderated, what moderation says, and whether
\* the privileged intent is asked for.
RestartKeepsSettings ==
    LET s == Loaded(file)
    IN  failed = {} =>
        /\ \A g \in Guilds, c \in Channels :
            /\ Inspection(s, g, c) = Inspection(store, g, c)
            /\ Acknowledgement(ackFile, g, c) = Acknowledgement(acks, g, c)
            /\ \A u \in Users : Allowed(s, g, u, c) <=> Allowed(store, g, u, c)
        /\ \A u \in Users : AllowedPrivately(s, u) <=> AllowedPrivately(store, u)
        /\ RequiresContent(s) <=> RequiresContent(store)

\* README: "These settings are stored atomically in settings.json": a user a manager was
\* told is authorized is authorized in the file.
AnsweredIsStored ==
    \A g \in Guilds, u \in Users :
        <<g, u>> \in answered => file[g] # Absent /\ u \in file[g].policy.users
=============================================================================
