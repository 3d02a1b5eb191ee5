CONSTANTS
  MaxViews = 1
  MaxRestarts = 2
  Resumed = FALSE
  Prompted = FALSE
  SlowPosts = FALSE
  ReapFails = TRUE
  EarlyFrames = FALSE
SPECIFICATION FairSpec
INVARIANTS
  UiOnlyAfterParity
  ReadyIsUsable
PROPERTIES
  RestartEnds
  DisposeEnds
CHECK_DEADLOCK FALSE
