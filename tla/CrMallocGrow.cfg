SPECIFICATION Spec
CONSTANTS
  Header = 3
  Tag = 1
  PageSize = 32
  Top = 32
  Sizes = {1, 2, 4}
  Growing = TRUE
INVARIANT TagsAgree
CHECK_DEADLOCK FALSE
