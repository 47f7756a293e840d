SPECIFICATION WaitingSpec
CONSTANTS
    t1 = t1
    t2 = t2
    Torrents = {t1, t2}
    None = None
    MaxCalls = 2
INVARIANT PartsTypeOK
PROPERTIES SaveAnswered MagnetOwned SeedingStopped 
CHECK_DEADLOCK FALSE
