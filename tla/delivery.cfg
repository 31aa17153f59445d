CONSTANT Messages = {1}
CONSTANT MaxAttempts = 2
CONSTANT MaxDeliveries = 5
CONSTANT MaxCrashes = 1
SPECIFICATION FairSpec
INVARIANTS NothingDropped RetryAsAnnounced HeardAsSent
PROPERTY DeliveriesEnd
CHECK_DEADLOCK FALSE
