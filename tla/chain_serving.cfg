CONSTANTS
  N = 2
  PerReceiver = 3
  MaxGets = 2
  Ways <- NotYet
  Faults <- EveryFault
SPECIFICATION FairSpec
INVARIANTS BoundedOvertaking EachMessageInOnePlace
PROPERTIES LettingGoEnds ReadyIsServed
CHECK_DEADLOCK FALSE
