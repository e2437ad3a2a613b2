SPECIFICATION Spec
CONSTANTS
  CrThreads = {a}
  Steps = 1
  Meta = Meta
  Null = Null
  NoCtx = NoCtx
  NoThread = NoThread
  NoPthread = NoPthread
  Bucket <- BucketPerStack
  StopMsg = StopMsg
  ForkOnce = TRUE
  Anywhere = FALSE
INVARIANT FreedNotInUse
CHECK_DEADLOCK FALSE
