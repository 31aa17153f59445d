CONSTANTS
  N = 2
  PerReceiver = 2
  MaxGets = 3
  Ways <- EitherWay
  Faults <- Uninterrupted
SPECIFICATION Spec
INVARIANTS ReceiverOrderKept SettledAsAsked NoMessageLost
PROPERTY ActsAsOneReceiver
CHECK_DEADLOCK FALSE
