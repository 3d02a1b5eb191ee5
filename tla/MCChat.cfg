CONSTANTS
 Frames <- ChatFrames
 Negotiated = Negotiated
 ChunkIds = {k1}
 MinChunked = 3
 MaxReassembled = 4
 MaxChunks = 2
 MaxChunkBytes = 2
 Prompts <- TwoPrompts
 p1 = p1 p2 = p2
 Own = Own
 Abort = Abort
 MaxOwn = 1
 MaxOdd = 1
 MaxPipe = 2
 MaxSoiled = 1
 MaxRestarted = 2
SPECIFICATION DeliverySpec
INVARIANTS DeliveryTypeOK PromptKept TimerHasWork WireInOrder
CHECK_DEADLOCK FALSE
SYMMETRY Symmetry
