SPECIFICATION FairSpec
CONSTANTS
  MaxDevices = 3
  MaxModules = 2
  MaxFailed = 2
  MaxLost = 1
  None = None
INVARIANTS ReadyWhenUp EveryEncodingServed OthersLeftAlone RegisteredAsUsed
PROPERTY StartEnds
CHECK_DEADLOCK FALSE
