\* Two runs at once on one version, and somebody who edits tags, Releases and
\* Latest.
SPECIFICATION Spec
CONSTANTS
  r1 = r1
  r2 = r2
  None = None
  Foreign = Foreign
  Runs <- TwoRuns
  Sources <- OneVersion
  Stable <- StableVersions
  MaxTip = 2
  MaxTampers = 1
INVARIANTS
  FinalizedForever
  AtMostOneStaleWrite
