CONSTANTS
    Books = {book}
    Tapes = {tape}
    ClientKdf = "page"
    Capacity = 1
    MaxSent = 4
    MaxTrades = 3
SPECIFICATION Spec
\* The messages of the gateway are bounded.
CHECK_DEADLOCK FALSE
PROPERTY
    SubscriptionServed
