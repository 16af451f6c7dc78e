\* A handshake and two calls of the tool, in any order and concurrently.
SPECIFICATION AdapterSpec
CONSTANTS
  None = None
  Malformed = Malformed
  Negative = Negative
  Big = Big
  Missing = Missing
  Null = Null
  Scalar = Scalar
  Misshapen = Misshapen
  EventId = "event"
  Call = {c1, c2, c3}
  Signal <- MCSignal
  EventOf <- MCEventOf
  Args <- MCArgs
INVARIANTS
  OneResultPerBinding
  ToolErrorIsTrue
  ArgumentsDecide
CHECK_DEADLOCK FALSE
