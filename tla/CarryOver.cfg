SPECIFICATION SpecCarry
CONSTANTS
  Modules = {m1, m2}
  Codecs = {"dstar","dmr","c2_1600","c2_3200"}
  MaxStreams = 2
  MaxSequence = 4
  MaxLost = 1
  NoPacket = NoPacket
  Streams = {1, 2, 3, 4}
  CacheMax = 2
  MaxAge = 1
  MaxFrames = 5
  MaxTime = 3
  Width = 4
  Unity = 4
  Whole = 8
  Headroom = 6
  MinGain = 2
  MaxGain = 6
  Frames <- MCFrames
  Confs <- MCConfs
  None = None
SYMMETRY MCSymmetry
INVARIANTS CacheInv CacheBounded OwnStateBack
INVARIANTS FrameOfOnePair AudioOfOwnPacket
INVARIANTS GainInReach HeldDuringPause SignKept
CHECK_DEADLOCK FALSE
