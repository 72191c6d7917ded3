SPECIFICATION MCSpec
CONSTANTS
  h1 = h1
  h2 = h2
  plain = plain
  changed = changed
  Heads = {h1, h2}
  Candidate = h1
  Budget = 12
  RequestLimit = 3
  SecondaryWait = 6
  Told <- MCTold
  MaxMoves = 2
  None = None
  CiHeads = {plain, changed}
  On <- HeadOn
  OwnWorkflow = {changed}
  MaxTip = 2
  MaxRunAttempts = 2
  MaxReporters = 2
CHECK_DEADLOCK FALSE
INVARIANTS
  BoundTogether
  KeepsTime
  ChecksAreEarned
  VerdictsInOrder
