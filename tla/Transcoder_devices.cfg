SPECIFICATION Spec
CONSTANTS
  MaxPackets = 2
  CodecsIn = {"dstar","dmr","p25","svx","c2_3200","none"}
  HasDmrsf = TRUE
  MaxRetries = 2
  None = None
INVARIANTS TypeOK SentOnce DeliveredInOrder EncodedOnce LevelledBeforeEncode NothingStranded
CHECK_DEADLOCK FALSE
