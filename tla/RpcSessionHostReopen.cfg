CONSTANTS
  MaxViews = 2
  MaxRestarts = 1
  Resumed = FALSE
  Prompted = TRUE
  SlowPosts = FALSE
  ReapFails = FALSE
  EarlyFrames = TRUE
SPECIFICATION Spec
INVARIANTS
  TypeOK
  OneRuntime
  DisposedMeansReaped
  PromptOnce
