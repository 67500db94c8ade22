SPECIFICATION Spec
CONSTANTS
    c1 = c1
    c2 = c2
    u1 = u1
    u2 = u2
    d1 = d1
    d2 = d2
    d3 = d3
SYMMETRY Symmetry
INVARIANTS
    TypeOK
    AccountsDistinct
PROPERTIES
    AnswersAreTrue
    OnlyProvided
    LastByStale
CHECK_DEADLOCK FALSE
