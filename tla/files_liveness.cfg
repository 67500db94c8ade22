SPECIFICATION FairSpec
CONSTANTS
    Uploads = {u1}
    PublicUploads = {}
    Deletes = {d1, d2}
    Downloads = {}
    NoKey = NoKey
    Faults = {"storage"}
    MaxCancels = 1
    MaxAccounts = 2
    MaxFiles = 1
PROPERTIES
    RequestsEnd
CHECK_DEADLOCK FALSE
