CONSTANTS
    Resolution = 2
    Menu <- RestingMenu
    MaxOrders = 4
SPECIFICATION Spec
\* The bound on the number of orders stops the instance when the book is empty.
CHECK_DEADLOCK FALSE
INVARIANTS
    TypeOK
    NotCrossed
PROPERTY
    MatchingEnds
