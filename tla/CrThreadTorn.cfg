SPECIFICATION Spec
CONSTANTS
  CrThreads = {a}
  Steps = 2
  Meta = Meta
  Null = Null
  NoCtx = NoCtx
  NoThread = NoThread
  NoPthread = NoPthread
  Bucket <- BucketPerStack
  StopMsg = StopMsg
  ForkOnce = TRUE
  Anywhere = TRUE
INVARIANT ResumesCoherent
CHECK_DEADLOCK FALSE
