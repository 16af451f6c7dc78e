CONSTANTS
  None = None
  Absent = Absent
  Torn = Torn
  Foreign = Foreign
  Proc = {p1}
  Signal = {"a"}
  SignalParts <- MCSignalParts
  Expected <- MCExpected
  MaxEntries = 1
  StateDirProvisioned = TRUE
  MaxPowerLoss = 0
SPECIFICATION Spec
CHECK_DEADLOCK FALSE
INVARIANTS
  ReleaseWeakensToUnknown
