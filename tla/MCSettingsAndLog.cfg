SPECIFICATION KeptSpec
CONSTANTS
    Capacity = 2
    Producers = {p1, p2}
    MaxPush = 2
    MaxReads = 2
INVARIANTS PartsTypeOK FilesComplete SettingsKept FilterExact
PROPERTIES ErrorsKept StoreIsBoundedLog
CHECK_DEADLOCK FALSE
