CONSTANTS
  p1 = p1
  p2 = p2
  w1 = w1
  w2 = w2
  Chat = Chat
  Nobody = Nobody
  Prompts <- TwoPrompts
  Scanners <- OneWindow
  MaxRestarts = 0
  MaxFaults = 0
SPECIFICATION Spec
INVARIANT AnsweredKept
