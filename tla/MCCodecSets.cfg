SPECIFICATION Spec
CONSTANTS
  None = None
  Big = Big
  Missing = Missing
  Null = Null
  Scalar = Scalar
  Misshapen = Misshapen
  Versions = {1, 2}
  Payloads <- MCPayloads
  RequestFrames <- MCRequestFrames
  ResponseFrames <- MCResponseFrames
  Stages <- MCStages
INVARIANTS
  SameFramesAccepted
CHECK_DEADLOCK FALSE
