\* One admin session, all features on, no chat: the loop against the senders.
SPECIFICATION Spec
CONSTANTS
  NumSessions = 1
  Chats <- MCNoChats
  ChatSession <- MCNoChatSession
  includeEvents <- MCEvents
  HandlePositionClose = TRUE
  MemoryEnabled = TRUE
  CommandsEnabled = TRUE
  MaxRetryTime = 1
  MaxCommandsPerCycle = 1
  Answers <- MCAnswers
  MaxKlines = 2
  MaxCloses = 1
  MaxNews = 1
  MaxChats = 0
INVARIANTS TypeOK EachNewsToldOnce
PROPERTIES KlineDecisionsAreInformed CommandsWaitForNextCycle
CHECK_DEADLOCK FALSE
