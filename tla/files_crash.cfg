SPECIFICATION Spec
CONSTANTS
    Uploads = {u1}
    PublicUploads = {u1}
    Deletes = {d1, d2}
    Downloads = {}
    NoKey = NoKey
    Faults = {"crash", "storage", "database"}
    MaxCancels = 0
    Sqlite = FALSE
    MaxAccounts = 2
    MaxFiles = 1
INVARIANTS
    AckedSurvives
    RemovedIsGone
PROPERTIES
    ImplementsLifecycle
CHECK_DEADLOCK FALSE
