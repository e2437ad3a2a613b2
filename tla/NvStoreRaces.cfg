SPECIFICATION Spec
CONSTANTS
  main = main
  worker = worker
  meta = meta
  heap1 = heap1
  heap2 = heap2
  CrWorker = CrWorker
  Users = {main, worker}
  Pages = {meta, heap1}
  Meta = meta
  Access <- SharedPage
  Vals = {v1, v2}
  Zero = Zero
  Junk = Junk
  MetaUsers = {main}
  EverythingUsers = {main}
  ShutdownUsers = {}
  Serial = FALSE
  NoPage = NoPage
  Past = Past
  Kill = Kill
  Nobody = Nobody
INVARIANT FillsMissing
INVARIANT AnsweredOnce
PROPERTY LossesAreRaces
