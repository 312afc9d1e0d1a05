CONSTANTS
    Resolution = 1
    Requests <- ScanRequests
    Cancels = {}
    Shards = 2
    ShardOf <- NilBesideSecond
    MaxFailures = 0
    MaxRestarts = 0
SPECIFICATION Spec
\* When every request has ended, or a circle has formed, nothing is left to do.
CHECK_DEADLOCK FALSE
PROPERTY
    RequestsEnd
