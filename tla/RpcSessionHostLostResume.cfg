CONSTANTS
  MaxViews = 1
  MaxRestarts = 1
  Resumed = TRUE
  Prompted = FALSE
  SlowPosts = FALSE
  ReapFails = FALSE
  EarlyFrames = TRUE
SPECIFICATION Spec
INVARIANT KeepsConversation
