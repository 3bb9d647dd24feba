SPECIFICATION FairSpec
CONSTANTS
  Settings = {"chipgain", "noisegate", "mode"}
  Monitor = TRUE
  MayHaveMd380 = {TRUE, FALSE}
  IniLimit = 2
  RestLimit = 1
  MaxStarts = 2
  MaxChanges = 2
  MaxSaves = 1
  Absent = Absent
  Torn = Torn
INVARIANTS SettingsInv SavedComesBack
PROPERTIES FileInForce LiveTakesEffect
CHECK_DEADLOCK FALSE
