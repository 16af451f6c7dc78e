CONSTANTS
  None = None
  Absent = Absent
  Torn = Torn
  Foreign = Foreign
  Proc = {p1, p2, p3}
  Signal = {"a"}
  SignalParts <- MCSignalParts
  Expected <- MCExpected
  MaxEntries = 1
  StateDirProvisioned = TRUE
  MaxPowerLoss = 1
SYMMETRY Symmetry
SPECIFICATION Spec
CHECK_DEADLOCK FALSE
PROPERTIES
  AbandonedStaysPut
  KnownMonotone
