CONSTANTS
    MaxInstalls = 3
    Messages = {m1, m2}
    Foreign = {f1}
    MaxBuffered = 1
    MaxConversations = 1
    Budget = 2
    MaxEvents = 2
    Guilds = {g1, g2}
    Users = {u1}
    Channels = {c1}
    Text = text
    Absent = Absent
    MaxChanges = 3
    Tokens = {t1, t2}
    Calls = {k1, k2}
    MaxContexts = 1
    MaxFiles = 3
    PerFile = 2
    MaxEntries = 9
SPECIFICATION MCSpec
INVARIANTS
    MCTypeOK
    PairCoherent
    AnsweredOnce
    RestartKeepsSettings
    OneEffectPerToken
    EffectsAudited
    NewestKept
PROPERTY
    AnswersArrive
CHECK_DEADLOCK FALSE
