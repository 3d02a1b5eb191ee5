CONSTANTS
  MaxViews = 1
  MaxRestarts = 1
  Resumed = FALSE
  Prompted = FALSE
  SlowPosts = TRUE
  ReapFails = FALSE
  EarlyFrames = TRUE
SPECIFICATION Spec
INVARIANT DisposedMeansReaped
