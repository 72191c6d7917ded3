SPECIFICATION MCSpec
CONSTANTS
  MaxCalls = 3
  MaxOthers = 2
  MaxPolls = 2
  MaxTotal = 6
  RecordBytes = 1
  ArchiveBytes = 4
  MaxFault = 2
  Blocks <- TarBlock
  TarBlocks = 5
  Commit = "release"
  NoCommit = "none"
  Vcs = "vcs"
  BlockBytes = 2
  MaxU64 = 15
  MaxBlocks = 5
  MaxFiles = 2
  MaxUnpacked = 1
CHECK_DEADLOCK FALSE
INVARIANTS
  AppliedOnce
  AnswersAreTrue
  OutcomesAreJust
  InspectionIsExact
