SPECIFICATION FairSpec
CONSTANTS
  CrThreads = {a, b}
  Steps = 2
  Meta = Meta
  Null = Null
  NoCtx = NoCtx
  NoThread = NoThread
  NoPthread = NoPthread
  Bucket <- BucketPerStack
  StopMsg = StopMsg
  ForkOnce = TRUE
  Anywhere = FALSE
INVARIANT TypeOK
INVARIANT OneIncarnation
INVARIANT AssertsHold
INVARIANT CommitsAtRest
INVARIANT AbortsOnlyWhileOut
PROPERTY ProgressKept
PROPERTY ImplementsPersistentThreads
PROPERTY TasksFinish
PROPERTY CallsReturn
CHECK_DEADLOCK FALSE
