CONSTANTS
  c1 = c1
  c2 = c2
  l1 = l1
  l2 = l2
  Nobody = Nobody
  Chats <- AllChats
  Loops <- AllLoops
  Stored <- ChatAndLoop
  Fresh <- OneChat
  Cap = 2
  Stubborn <- OtherChat
  QueueBound = 2
SPECIFICATION Spec
INVARIANT RecentResumable
