\* Calls with and without input on Windows, and a filter on Linux that is fed
\* five times what a pipe holds.
SPECIFICATION MCSpec
CONSTANTS
  p1 = p1
  p2 = p2
  WinPids <- ChildAndOne
  WinChild = p1
  WinRequests <- InputOrOutput
  Procs <- ChildOnly
  Direct = p1
  Limit <- FilterLimits
  InputLen = 5
  PipeCap = 1
  MaxWritten = 5
  Echo = TRUE
INVARIANTS
  NothingIsLeft
  FaithfulCapture
PROPERTIES
  CallReturns
  FilterCompletes
CHECK_DEADLOCK FALSE
