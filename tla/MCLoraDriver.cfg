CONSTANTS
  MsgqLen = 3
  MaxPackets = 9
SPECIFICATION FairSpec
INVARIANTS TypeOK QueueIsRecent NewestSurvives
PROPERTY HandlerReturns
