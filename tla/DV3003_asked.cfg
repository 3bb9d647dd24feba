SPECIFICATION Spec
CONSTANTS
  Packets = {p1}
  SetUps = {"onemodule", "dstar", "dmrsf"}
  CodecsIn = {"dstar","dmr","usrp"}
  Unmapped = Unmapped
  None = None
INVARIANT ServedAsAsked
CHECK_DEADLOCK FALSE
