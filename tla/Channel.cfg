CONSTANTS
    Books = {book}
    Tapes = {tape}
    ClientKdf = "crate"
    Capacity = 1
    MaxSent = 4
    MaxTrades = 3
SPECIFICATION Spec
\* The messages of the gateway are bounded.
CHECK_DEADLOCK FALSE
INVARIANTS
    TypeOK
    OpenedInOrder
    NothingLostInOrder
    TradesFollow
PROPERTY
    SubscriptionServed
