\* Two callers of any kind, two users.
SPECIFICATION Spec
CONSTANTS
    Callers = {p1, p2}
    Users = {u1, u2}
    MinNew = 1
    MaxSubmits = 1
    NoState = NoState
    NoUser = NoUser
SYMMETRY Symmetry
CHECK_DEADLOCK FALSE
INVARIANTS
    TypeOK
    LogTellsTheTruth
    CountsRefreshes
    BatchGoesOn
PROPERTIES
    NeverOlder
    CallPaysOff
