SPECIFICATION Spec
CONSTANTS
    Uploads = {u1, u2}
    PublicUploads = {}
    Deletes = {d1, d2}
    Downloads = {}
    NoKey = NoKey
    Faults = {}
    MaxCancels = 0
    Sqlite = TRUE
    MaxAccounts = 2
    MaxFiles = 2
INVARIANTS
    AckedSurvives
    DeletesAuthorizedRow
CHECK_DEADLOCK FALSE
