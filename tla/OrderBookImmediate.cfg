CONSTANTS
    Resolution = 2
    Menu <- ImmediateMenu
    MaxOrders = 4
SPECIFICATION Spec
\* The bound on the number of orders stops the instance when the book is empty.
CHECK_DEADLOCK FALSE
INVARIANTS
    RestingSound
    NeverOverfilled
    FillOrKill
    FilledIsFilled
PROPERTIES
    PriceTimePriority
    KeepsContract
