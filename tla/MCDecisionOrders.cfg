SPECIFICATION FairSpec
CONSTANTS
  NumSessions = 1
  Chats <- MCChats
  ChatSession <- MCChatSession
  includeEvents <- MCEvents
  HandlePositionClose = TRUE
  MemoryEnabled = FALSE
  CommandsEnabled = FALSE
  MaxRetryTime = 1
  MaxCommandsPerCycle = 1
  Answers <- MCChatAnswers
  MaxKlines = 3
  MaxCloses = 0
  MaxNews = 0
  MaxChats = 1
INVARIANTS LimitOrdersAtMostOneCycleOld
PROPERTIES KlineNeverStarves
CHECK_DEADLOCK FALSE
