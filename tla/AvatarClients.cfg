SPECIFICATION MCSpec
CONSTANTS
  c1 = c1
  c2 = c2
  v1 = v1
  v2 = v2
  Clients = {c1}
  Avatars = {a1, a2}
  a1 = a1
  LibraryInputs = 2
  LibraryQueue = 1
  a2 = a2
  Faces = {"neutral", "happy"}
  Fallback <- MCFallback
  Neutral = "neutral"
  Attrs = {"SetTransform"}
  Worn = {"SetTransform"}
  Resynced <- TransformOnly
  Values = {v1, v2}
  Default = v1
  Commands <- AllCommands
  Inferred = {"thinking"}
  None = None
  QueueSize = 2
  MaxRestarts = 1
  ExitNotice = FALSE
  MaxInputs = 3
  Clips = {"idle", "wave"}
  IdleClips = {"idle"}
  NoClip = NoClip
  MaxPending = 1
CHECK_DEADLOCK FALSE
INVARIANTS TypeOK LoadedIsStored MouthFollowsSpeech NoLostChild SessionWhole
PROPERTIES RestartSparesLiveChild
CONSTRAINT OneMenu
SYMMETRY AvatarSymmetry
