\* A child and one descendant write, fork, close, leave and exit at will.
SPECIFICATION FairSpec
CONSTANTS
  d = d
  q = q
  Procs <- ChildAndOne
  Direct = d
  Limit <- TightLimits
  InputLen = 2
  PipeCap = 1
  MaxWritten = 2
  Echo = FALSE
INVARIANTS
  FaithfulOutput
  OverflowExact
PROPERTIES
  ReturnsAfterExit
CHECK_DEADLOCK FALSE
