CONSTANTS
  MaxMessages = 3
  MaxRuns = 2
  MaxCancels = 2
SPECIFICATION FairSpec
INVARIANTS SettledOnce LossIsRaised ResetBetweenMessages AtRestWhenClosed StopsCollecting StopIsKept
PROPERTIES StoppedRunReturns InHandIsLetGo
