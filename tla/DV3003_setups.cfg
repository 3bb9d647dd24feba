SPECIFICATION Spec
CONSTANTS
  Packets = {p1, p2, p3}
  SetUps = {"mixed", "onemodule", "dstar", "dmrsf"}
  CodecsIn = {"dstar","dmr","usrp"}
  Unmapped = Unmapped
  None = None
INVARIANTS FedOncePerChannel ServedInMixedMode
CHECK_DEADLOCK FALSE
