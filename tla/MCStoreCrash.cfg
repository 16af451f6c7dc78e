CONSTANTS
  None = None
  Absent = Absent
  Torn = Torn
  Foreign = Foreign
  Proc = {p1, p2}
  Signal = {"a", "a2", "b", "m"}
  SignalParts <- MCSignalParts
  Expected <- MCExpected
  MaxEntries = 2
  StateDirProvisioned = TRUE
  MaxPowerLoss = 2
SYMMETRY Symmetry
SPECIFICATION Spec
CHECK_DEADLOCK FALSE
INVARIANTS
  TypeOK
  KnownSurvives
  CrashNeverContradicts
  SnapshotCurrent
  RefusedNeverApplied
  NoEventTwice
  AnswersHold
PROPERTIES
  ImplementsJournal
