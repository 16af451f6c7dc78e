\* Two calls, an original signal and a conflicting one with its event id;
\* without symmetry, which liveness does not admit.
SPECIFICATION FairSpec
CONSTANTS
  None = None
  a = a
  a2 = a2
  Call = {c1, c2}
  Signal = {a, a2}
  EventOf <- MCEventOf
INVARIANTS
  OutcomeIsTrue
  NoEffectAfterTimeout
  AbsentIsFinal
PROPERTIES
  EveryCallSettles
CHECK_DEADLOCK FALSE
