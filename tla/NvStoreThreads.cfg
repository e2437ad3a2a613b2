SPECIFICATION FairSpec
CONSTANTS
  main = main
  worker = worker
  meta = meta
  heap1 = heap1
  heap2 = heap2
  CrWorker = CrWorker
  Users = {main, worker}
  Pages = {meta, heap1, heap2}
  Meta = meta
  Access <- OwnPages
  Vals = {v1, v2}
  Zero = Zero
  Junk = Junk
  MetaUsers = {main}
  EverythingUsers = {}
  ShutdownUsers = {main}
  Serial = TRUE
  NoPage = NoPage
  Past = Past
  Kill = Kill
  Nobody = Nobody
INVARIANT TypeOK
INVARIANT DirtyCovers
INVARIANT CommitDurable
INVARIANT WritesLandInPlace
INVARIANT WritelockMarksWrites
PROPERTY ImplementsPersistentMemory
PROPERTY CommitTerminates
PROPERTY ShutdownTerminates
