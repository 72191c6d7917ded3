SPECIFICATION MCSpec
CONSTANTS
  Calls = {c1}
  ci = ci
  publish = publish
  old = old
  new = new
  Absent = Absent
  Paths <- MCPaths
  Seed <- MCSeed
  Blobs <- MCBlobs
  LinePaths <- MCSeed
  LineSeed <- MCSeed
  LineBlobs <- MCBlobs
  MaxCommits = 5
  None = None
  Malformed = Malformed
SYMMETRY ContentsAreAlike
CHECK_DEADLOCK FALSE
INVARIANTS
  BoundTogether
  RecoveryStaysOpen
  ProposalsAreTrue
  ProposedIsLoadable
