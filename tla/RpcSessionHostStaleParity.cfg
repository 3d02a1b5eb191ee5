CONSTANTS
  MaxViews = 2
  MaxRestarts = 0
  Resumed = FALSE
  Prompted = FALSE
  SlowPosts = FALSE
  ReapFails = FALSE
  EarlyFrames = TRUE
SPECIFICATION Spec
INVARIANT UiOnlyAfterParity
