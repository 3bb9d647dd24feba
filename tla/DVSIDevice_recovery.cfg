SPECIFICATION FairSpec
CONSTANTS
  MaxPackets = 3
  MaxFaulty = 3
  MaxDepth = 2
  Word = 8
  MayBeFaultless = {FALSE}
  MaxLost = 1
  MaxFailed = 0
  MaxNoise = 0
  None = None
INVARIANT OwnAnswer
CHECK_DEADLOCK FALSE
