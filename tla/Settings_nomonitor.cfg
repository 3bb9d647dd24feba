SPECIFICATION FairSpec
CONSTANTS
  Settings = {"maxgain", "gain"}
  Monitor = FALSE
  MayHaveMd380 = {FALSE}
  IniLimit = 2
  RestLimit = 1
  MaxStarts = 2
  MaxChanges = 2
  MaxSaves = 1
  Absent = Absent
  Torn = Torn
PROPERTY FileInForce
CHECK_DEADLOCK FALSE
