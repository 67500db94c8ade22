SPECIFICATION Spec
CONSTANTS
    Uploads = {u1, u2}
    PublicUploads = {u2}
    Deletes = {}
    Downloads = {l1}
    NoKey = NoKey
    Faults = {}
    MaxCancels = 0
    Sqlite = FALSE
    MaxAccounts = 3
    MaxFiles = 2
INVARIANTS
    TypeOK
    OwnerIsUploader
    OnlyForOwner
CHECK_DEADLOCK FALSE
