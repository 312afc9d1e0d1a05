CONSTANTS
    Users <- MCUsers
    Initial <- MCInitial
    FeeFree = {"bob"}
    Schedule <- MCSchedule
    TradeOf <- MCTradeOf
    WithdrawalOf <- MCWithdrawalOf
    DepositOf <- MCDepositOf
    Connections = 2
    MaxFailures = 0
    MaxRestarts = 0
    MaxRedeliveries = 0
SPECIFICATION Spec
\* With every trade, withdrawal and deposit done nothing is left to do.
CHECK_DEADLOCK FALSE
INVARIANTS
    NoDeadlock
PROPERTIES
    KeepsLedger
    TransactionsEnd
    AddressesConfirmed
