SPECIFICATION FairSpec
CONSTANTS
  c1 = c1
  c2 = c2
  v1 = v1
  v2 = v2
  Clients = {c1}
  Avatars = {a1}
  a2 = a2
  a1 = a1
  Faces = {"neutral"}
  Fallback <- MCFallback
  Neutral = "neutral"
  Attrs = {"SetCamera"}
  Worn = {}
  Resynced <- CameraOnly
  Values = {v1, v2}
  Default = v1
  Commands <- OutageCommands
  Inferred = {}
  None = None
  QueueSize = 1
  MaxRestarts = 1
  ExitNotice = TRUE
  MaxInputs = 2
  Clips = {"idle", "wave"}
  IdleClips = {"idle"}
  NoClip = NoClip
  MaxPending = 1
CHECK_DEADLOCK FALSE
PROPERTIES StatusCorrected CommandsTaken
