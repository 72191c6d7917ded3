\* Two callers contend for the lock; three processes live through it.
SPECIFICATION Spec
CONSTANTS
  c1 = c1
  c2 = c2
  NoCaller = NoCaller
  Callers <- TwoCallers
  Pids <- ThreePids
SYMMETRY CallerSymmetry
INVARIANTS
  Contained
  AttributeRestored
PROPERTIES
  KillsSpareUnrelated
