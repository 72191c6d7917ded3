SPECIFICATION MCSpec
CONSTANTS
  Windows = FALSE
  Limit = 1
  MaxRenames = 2
  MaxWrites = 1
CHECK_DEADLOCK FALSE
INVARIANTS
  NoLinkFollowed
  WholeContents
PROPERTIES
  Returns
