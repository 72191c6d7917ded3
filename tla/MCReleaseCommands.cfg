SPECIFICATION CommandsSpec
CONSTANTS
  MaxUpstream = 3
  MaxWork = 4
  MaxOwn = 2
  MaxPatch = 2
  MaxRc = 2
  MaxCommits = 4
CHECK_DEADLOCK FALSE
INVARIANTS
  CommandsExact
  QualifiedIsTheProposal
  CheckedQualifies
PROPERTIES
  LineAdvances
