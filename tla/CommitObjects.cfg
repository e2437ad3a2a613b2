\* Two threads, a page that faults, blocks enough for both objects and the entry.
SPECIFICATION Spec
CONSTANTS
  Users = {main, worker}
  Main = main
  main = main
  worker = worker
  PageSize = 2
  Memory = {0, 1, 2, 3}
  Regions <- TwoRegions
  Power = 0
  MaxLen = 1
  Rounds = 1
  Touched = {2}
  Blocks = {1, 2, 3, 4, 5, 6, 7, 8, 9, 10}
  Hash <- FiveChains
  Null = Null
  Kill = Kill
INVARIANT MemCheckExact
INVARIANT WorkerReadsLive
INVARIANT CoversRegions
