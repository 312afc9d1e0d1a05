CONSTANTS
    Users = {alice, bob}
    Tabs = {left, right}
    NoUser = nobody
    MaxSessions = 3
    MaxFailures = 1
    MaxRestarts = 1
SPECIFICATION Spec
SYMMETRY Symmetry
INVARIANTS
    TypeOK
    SessionHasUser
    NeverRevived
    TabActsForItsUser
