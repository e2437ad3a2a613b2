SPECIFICATION Spec
CONSTANTS
  Top = 4
  Sizes = {1, 2}
  Values = {0, 1}
  Serial = TRUE
INVARIANT BlocksOnFile
PROPERTY CommitFound
PROPERTY ImplementsPersistentHeap
