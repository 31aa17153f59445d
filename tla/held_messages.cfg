CONSTANT MaxMessages = 5
SPECIFICATION FairSpec
INVARIANTS NeverEarly InOrder NothingStranded ResultTellsFates
PROPERTY HeldIsDecided
CHECK_DEADLOCK FALSE
