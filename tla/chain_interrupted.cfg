CONSTANTS
  N = 2
  PerReceiver = 1
  MaxGets = 1
  Ways <- NotYet
  Faults <- Interrupted
SPECIFICATION Spec
INVARIANT NoMessageLost
CHECK_DEADLOCK FALSE
