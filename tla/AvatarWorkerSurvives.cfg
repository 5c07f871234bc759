SPECIFICATION Spec
CONSTANTS
  c1 = c1
  a1 = a1
  a2 = a2
  c2 = c2
  v1 = v1
  v2 = v2
  Clients = {c1}
  Avatars = {}
  Faces = {"neutral", "happy"}
  Fallback <- MCFallback
  Neutral = "neutral"
  Attrs = {}
  Worn = {}
  Resynced <- NoAttrs
  Values = {v1}
  Default = v1
  Commands <- AnimationCommands
  Inferred = {"thinking"}
  None = None
  QueueSize = 2
  MaxRestarts = 1
  ExitNotice = FALSE
  MaxInputs = 2
  Clips = {"idle", "wave", "nod"}
  IdleClips = {"idle"}
  NoClip = NoClip
  MaxPending = 1
CHECK_DEADLOCK FALSE
INVARIANT WorkerSurvives
