\* One run after another, as the workflow's concurrency group has it; main,
\* a support line, two rival sources; runs die and replies are lost.
SPECIFICATION Spec
CONSTANTS
  r1 = r1
  r2 = r2
  None = None
  Foreign = Foreign
  Runs <- OneRun
  Sources <- RivalSources
  Stable <- StableVersions
  MaxTip = 2
  MaxTampers = 0
INVARIANTS
  LatestIsNewest
  RecoverySucceeds
PROPERTIES
  KeepsTheLedger
