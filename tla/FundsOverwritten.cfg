CONSTANTS
    Users <- MCUsers
    Initial <- MCInitial
    FeeFree = {"bob"}
    Schedule <- MCSchedule
    TradeOf <- MCTradeOf
    WithdrawalOf <- MCWithdrawalOf
    DepositOf <- MCDepositOf
    Connections = 2
    MaxFailures = 1
    MaxRestarts = 0
    MaxRedeliveries = 0
SPECIFICATION Spec
\* With every trade, withdrawal and deposit done nothing is left to do.
CHECK_DEADLOCK FALSE
PROPERTIES
    CreditAdds
