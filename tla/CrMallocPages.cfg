SPECIFICATION Spec
CONSTANTS
  Header = 1
  Tag = 1
  PageSize = 8
  Top = 24
  Sizes = {1,7}
  Growing = FALSE
INVARIANT Tiled
INVARIANT TagsAgree
INVARIANT NeighboursFound
INVARIANT FreeListExact
PROPERTY ImplementsAllocator
CHECK_DEADLOCK FALSE
