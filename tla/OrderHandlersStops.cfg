CONSTANTS
    Resolution = 1
    Requests <- StopRequests
    Cancels = {1}
    Shards = 2
    ShardOf <- TwoShards
    MaxFailures = 1
    MaxRestarts = 1
SPECIFICATION Spec
ACTION_CONSTRAINT OneDisturbance
\* When every request has ended nothing is left to do.
CHECK_DEADLOCK FALSE
INVARIANTS
    TypeOK
    EntersOnce
    TradesReachTopic
    CancelledIsGone
    TakerCancelsLink
