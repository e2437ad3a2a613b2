SPECIFICATION Spec
CONSTANTS
  Blocks <- FewBlocks
  Power = 2
  Finders = {f1}
INVARIANT Found
INVARIANT RoomLeft
INVARIANT RehashSafe
PROPERTY InsertReturns
CHECK_DEADLOCK FALSE
