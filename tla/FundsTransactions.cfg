CONSTANTS
    Users <- MCUsers
    Initial <- MCInitial
    FeeFree = {"bob"}
    Schedule <- MCSchedule
    TradeOf <- MCBothTrades
    WithdrawalOf <- MCWithdrawalOf
    DepositOf <- MCDeposit
    Connections = 2
    MaxFailures = 1
    MaxRestarts = 1
    MaxRedeliveries = 1
SPECIFICATION Spec
\* With every trade, withdrawal and deposit done nothing is left to do.
CHECK_DEADLOCK FALSE
INVARIANTS
    TypeOK
    FeesFollowMoney
PROPERTIES
    KeepsLedger
