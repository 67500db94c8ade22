SPECIFICATION Spec
CONSTANTS
    Uploads = {u1}
    PublicUploads = {}
    Deletes = {d1}
    Downloads = {}
    NoKey = NoKey
    Faults = {}
    MaxCancels = 1
    Sqlite = TRUE
    MaxAccounts = 2
    MaxFiles = 1
INVARIANTS
    DanglingDeleteLogged
CHECK_DEADLOCK FALSE
