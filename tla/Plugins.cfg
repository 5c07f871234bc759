CONSTANTS
    Tasks = {a, b}
    Kinds = {k1}
    Callers = {c1, c2}
    CodingCallers = {c1}
    MaxTasks = 2
    MaxEvidence = 2
    MaxStarts = 1
    Branches = {main, topic}
    MaxCommits = 3
    TreeHeads = {h1}
    Reasons = {r1, r2}
    Free = Free
    MaxMade = 2
    MaxPeople = 2
    Paths = {f1, f2}
    MaxHead = 2
    None = None
    NoFiles = NoFiles
    MaxChanges = 1
    Sources = {s1, s2}
    Predicates = {p1, p2}
    MaxRegistrations = 2
    Signatures = {q1, q2, q3}
    MaxInvocations = 3
    MaxDepth = 1
    MaxFanOut = 2
    MaxCalls = 2
    MaxGeneration = 1
    PageLimit = 1
    MaxRewritten = 1
    MaxOverlays = 2
SPECIFICATION MCSpec
CONSTRAINT OnTheClaim
INVARIANTS
    MCTypeOK
    CompletedIsVerified
    NoLostCommit
    ReportedGone
    VerdictsHeld
    ReturnedProven
    CompositionBounded
    RepairsProven
    DiscoveryConsistent
    StyleSound
PROPERTIES
    AnswersOfAuthority
CHECK_DEADLOCK FALSE
