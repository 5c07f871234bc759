------------------------------- MODULE MCDiscord -------------------------------
(***************************************************************************)
(* The parts of the Discord plugin share no state, so each behaviour       *)
(* exercises one of them: the first state says which, and the others stay  *)
(* at their start.  The moderation is extended, so that its properties are *)
(* checked under the names its proofs state.                               *)
(***************************************************************************)
EXTENDS DiscordModeration

CONSTANTS MaxInstalls,
          Messages, Foreign, MaxBuffered, MaxConversations, Budget, MaxEvents,
          Guilds, Users, Channels, Text, Absent, MaxChanges,
          MaxFiles, PerFile, MaxEntries

VARIABLES part,
          disk, marker, todo, phase, version,
          loop, closing, started, turn, emitted, events, pending, buffered, calling, scheduled, told, ended, history,
          store, file, acks, ackFile, failed, changes, answered,
          files, step, index, last

installVars == <<disk, marker, todo, phase, version>>
turnsVars == <<loop, closing, started, turn, emitted, events, pending, buffered, calling, scheduled, told, ended, history>>
settingsVars == <<store, file, acks, ackFile, failed, changes, answered>>
auditVars == <<files, step, index, last>>
mcVars == <<part, installVars, turnsVars, settingsVars, vars, auditVars>>

Conversation == [m \in Messages |-> m]

I == INSTANCE DiscordInstall
T == INSTANCE DiscordTurns
S == INSTANCE DiscordSettings
A == INSTANCE ModerationAudit

\* The bounds are numbers, those of the buffer and the history not zero; the log has a rotated
\* file, files have room for an entry, and what is in a file is there.
ASSUME DiscordAssumption ==
    /\ Tokens # {} /\ MaxContexts \in Nat /\ MaxInstalls \in Nat
    /\ MaxBuffered \in Nat \ {0} /\ MaxConversations \in Nat \ {0} /\ Budget \in Nat
    /\ MaxEvents \in Nat /\ MaxChanges \in Nat
    /\ MaxFiles \in Nat /\ MaxFiles >= 2 /\ PerFile \in Nat \ {0} /\ MaxEntries \in Nat
    /\ Absent \notin [policy : S!Policy, channels : [Channels -> S!Override \cup {Absent}]]

Parts == {"install", "turns", "settings", "moderation", "audit"}

MCInit == part \in Parts /\ I!Init /\ T!Init /\ S!Init /\ Init /\ A!Init

MCNext ==
    /\ part' = part
    /\ IF part = "install" THEN I!Next ELSE UNCHANGED installVars
    /\ IF part = "turns" THEN T!Next ELSE UNCHANGED turnsVars
    /\ IF part = "settings" THEN S!Next ELSE UNCHANGED settingsVars
    /\ IF part = "moderation" THEN Next ELSE UNCHANGED vars
    /\ IF part = "audit" THEN A!Next ELSE UNCHANGED auditVars

MCSpec == MCInit /\ [][MCNext]_mcVars /\ T!Fairness

\* The states of every part are of their types.
MCTypeOK == part \in Parts /\ I!TypeOK /\ T!TypeOK /\ S!TypeOK /\ TypeOK /\ A!TypeOK

\* An install, crashed or failed and run again, leaves library and wrapper of one version.
PairCoherent == I!PairCoherent
\* The router hands an answer to one reply at most, from whichever thread it comes.
AnsweredOnce == T!AnsweredOnce
\* An answer the runtime gives to a registered turn is told, unless evicted or stopped.
AnswersArrive == T!AnswersArrive
\* Unless a save failed, a restart of the bot changes no setting anyone can tell.
RestartKeepsSettings == S!RestartKeepsSettings
\* Rotations that fail at any rename cost none of the newest entries of the audit.
NewestKept == A!NewestKept
=============================================================================
