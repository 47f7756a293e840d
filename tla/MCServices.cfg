SPECIFICATION ServicesSpec
CONSTANTS
    f1 = f1
    f2 = f2
    Items = {1, 2}
    Feeds = {f1, f2}
    FeedOf <- TwoFeeds
    Loadable = {1, 2}
    MaxConcurrent = 1
    Batch = 1
    BacklogCap = 1
    UserOps = {"AddFeed", "RemoveFeed", "ClearItems", "ReloadAll", "DownloadItem", "SaveSettings"}
    MaxOps = 2
    MaxFails = 1
    MaxNested = 2
    MaxRequests = 2
INVARIANTS
    QueuedHasRequest IndexExact NoOrphans
    PartsTypeOK TasksFollow
PROPERTIES LockHolds 
CHECK_DEADLOCK FALSE
