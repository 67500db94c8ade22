SPECIFICATION Spec
CONSTANTS
    File = {"f1"}
    Backend = {"local", "cos"}
    MaxRestarts = 1
    MaxFaults = 1
INVARIANTS
    MissingIsExplicit
CHECK_DEADLOCK FALSE
