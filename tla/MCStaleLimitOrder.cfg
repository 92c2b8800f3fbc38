\* A limit order placed while the next k-line's callback waits.
SPECIFICATION Spec
CONSTANTS
  NumSessions = 1
  Chats <- MCNoChats
  ChatSession <- MCNoChatSession
  includeEvents <- MCEvents
  HandlePositionClose = FALSE
  MemoryEnabled = FALSE
  CommandsEnabled = FALSE
  MaxRetryTime = 1
  MaxCommandsPerCycle = 1
  Answers <- MCAnswers
  MaxKlines = 2
  MaxCloses = 0
  MaxNews = 0
  MaxChats = 0
PROPERTIES DecisionsStartClean
CHECK_DEADLOCK FALSE
