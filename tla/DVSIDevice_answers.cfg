SPECIFICATION FairSpec
CONSTANTS
  MaxPackets = 7
  MaxFaulty = 4
  MaxDepth = 2
  Word = 8
  MayBeFaultless = {TRUE, FALSE}
  MaxLost = 2
  MaxFailed = 1
  MaxNoise = 1
  None = None
INVARIANTS DeviceInv OwnAnswerWithoutFaults ReaderNeverBlocks AnswersInOrder
PROPERTIES AnswerServiceSpec CountHeals EveryPacketFed
CHECK_DEADLOCK FALSE
