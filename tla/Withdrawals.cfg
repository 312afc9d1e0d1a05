CONSTANTS
    Withdrawals <- MCWithdrawals
    Amount <- MCAmount
    ColdLimit = 10000
    MaxFailures = 1
    MaxRestarts = 1
    MaxRedeliveries = 1
SPECIFICATION Spec
\* With every withdrawal decided nothing is left to do.
CHECK_DEADLOCK FALSE
INVARIANTS
    TypeOK
    NothingForgotten
    OncePerMessage
PROPERTIES
    Forward
    ExecutorGetsThere
