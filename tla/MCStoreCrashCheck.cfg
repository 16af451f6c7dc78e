CONSTANTS
  None = None
  Absent = Absent
  Torn = Torn
  Foreign = Foreign
  Proc <- MCProc
  Signal = {"evt-same", "evt-next"}
  SignalParts <- MCSignalParts
  Expected <- MCExpected
  MaxEntries = 3
  StateDirProvisioned = FALSE
  MaxPowerLoss = 0
  RecordBytes = 9
SPECIFICATION CheckSpec
CHECK_DEADLOCK FALSE
INVARIANTS
  MatrixHolds
  InspectedImageIsClaimed
  NoVainWait
  CheckIsEvidence
PROPERTIES
  PassIsEvidence
  CheckEnds
