CONSTANTS
  p1 = p1
  p2 = p2
  w1 = w1
  w2 = w2
  Chat = Chat
  Nobody = Nobody
  Prompts <- OnePrompt
  Scanners <- TwoWindows
  MaxRestarts = 1
  MaxFaults = 1
SPECIFICATION FairSpec
INVARIANTS
  TypeOK
  NeverUnderfoot
  AnsweredKept
  KilledFirstPromptKept
  ClosedSettles
PROPERTY AbandonedReclaimed
