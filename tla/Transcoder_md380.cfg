SPECIFICATION FairSpec
CONSTANTS
  MaxPackets = 2
  CodecsIn = {"dmr","usrp","c2_1600"}
  HasDmrsf = FALSE
  MaxRetries = 2
  None = None
INVARIANTS PacketInv TravelInv
PROPERTY ServiceSpec
CHECK_DEADLOCK FALSE
