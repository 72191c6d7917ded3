SPECIFICATION MCSpec
CONSTANTS
  Sources <- MCSources
  MaxTip = 3
  MaxAttempts = 2
  MaxFaults = 2
  None = None
INVARIANTS
  ForgeFollowsRegistry
  OneFinalizerPerApproval
PROPERTIES
  FirstPublication
  PublishedIsReleased
CHECK_DEADLOCK FALSE
