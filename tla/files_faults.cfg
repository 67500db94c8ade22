SPECIFICATION Spec
CONSTANTS
    Uploads = {u1}
    PublicUploads = {}
    Deletes = {d1}
    Downloads = {l1}
    NoKey = NoKey
    Faults = {"storage", "database"}
    MaxCancels = 1
    Sqlite = TRUE
    MaxAccounts = 2
    MaxFiles = 1
INVARIANTS
    AckedSurvives
    OrphanHasCause
    NeverServesPartial
    StreamOpenWhileRead
PROPERTIES
    ImplementsLifecycle
CHECK_DEADLOCK FALSE
