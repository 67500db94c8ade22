SPECIFICATION Spec
CONSTANTS
    Uploads = {u1}
    PublicUploads = {}
    Deletes = {}
    Downloads = {}
    NoKey = NoKey
    Faults = {}
    MaxCancels = 2
    Sqlite = TRUE
    MaxAccounts = 2
    MaxFiles = 1
INVARIANTS
    StreamOpenWhileRead
CHECK_DEADLOCK FALSE
