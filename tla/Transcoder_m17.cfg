SPECIFICATION FairSpec
CONSTANTS
  MaxPackets = 1
  CodecsIn = {"c2_3200"}
  HasDmrsf = TRUE
  MaxRetries = 2
  None = None
PROPERTY EveryM17PacketLeaves
CHECK_DEADLOCK FALSE
