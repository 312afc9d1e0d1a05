CONSTANTS
    Consoles = {office, home}
    Modes = {login}
    NoMode = nomode
    Large = {w1}
    NoOne = noone
    MaxSecrets = 2
    MaxChallenges = 2
    MaxDecisions = 2
    MaxFailures = 1
SPECIFICATION Spec
SYMMETRY Symmetry
\* Administrators may have nothing more to ask for.
CHECK_DEADLOCK FALSE
INVARIANTS
    TypeOK
    AnsweredOnce
    ApprovedOnce
