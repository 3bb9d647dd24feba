SPECIFICATION Spec
CONSTANTS
  Width = 4
  Unity = 4
  Whole = 8
  Headroom = 6
  MinGain = 3
  MaxGain = 6
  Frames <- MCQuietAndLoud
  Confs <- MCUsualOnly
  None = None
INVARIANT NeverClips
CHECK_DEADLOCK FALSE
