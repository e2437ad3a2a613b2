SPECIFICATION SetSpec
CONSTANTS
  k1 = k1
  k2 = k2
  k3 = k3
  Keys = {k1, k2, k3}
  Hash <- TwoBuckets
  h1 = h1
  h2 = h2
  Entries = {x1, x2, x3, x4, x5, x6}
  Base = Base
  Clone = Clone
  Null = Null
INVARIANT EntriesAccounted
PROPERTY ImplementsAddressSets
