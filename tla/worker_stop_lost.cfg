CONSTANTS
  MaxMessages = 1
  MaxRuns = 2
  MaxCancels = 0
SPECIFICATION Spec
INVARIANT NoStopIsLost
