\* Two callers over two processes, without symmetry: their calls return and
\* implement ContainedCommand.
SPECIFICATION FairSpec
CONSTANTS
  c1 = c1
  c2 = c2
  NoCaller = NoCaller
  Callers <- TwoCallers
  Pids <- TwoPids
PROPERTIES
  CallReturns
  ImplementsContainedCommand
