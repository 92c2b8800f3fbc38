\* A get_indicator action inside the loop: the send has no receiver.
SPECIFICATION FairSpec
CONSTANTS
  NumSessions = 1
  Chats <- MCNoChats
  ChatSession <- MCNoChatSession
  includeEvents <- MCEvents
  HandlePositionClose = FALSE
  MemoryEnabled = FALSE
  CommandsEnabled = FALSE
  MaxRetryTime = 1
  MaxCommandsPerCycle = 1
  Answers <- MCCommandAnswers
  MaxKlines = 1
  MaxCloses = 0
  MaxNews = 0
  MaxChats = 0
PROPERTIES CommandsReturn
CHECK_DEADLOCK FALSE
