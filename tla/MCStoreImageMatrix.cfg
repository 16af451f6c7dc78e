SPECIFICATION Spec
CONSTANTS
  None = None
  MaxEntries = 3
  MaxCells = 2
  Absent = Absent
  Torn = Torn
  Foreign = Foreign
  Pending = Pending
  ApplyError = ApplyError
  Cells <- MCCells
  Signals <- MCSignals
  Expected <- MCExpected
INVARIANTS
  KnownIsCleanAuthority
  WriterPermission
  AppendCutPointIsUnknown
  ReplayMatchesHistory
  DecideAgreesWithReconcile
CHECK_DEADLOCK FALSE
