SPECIFICATION Spec
CONSTANTS
    f1 = f1
    f2 = f2
    Items = {1, 2}
    Feeds = {f1}
    FeedOf <- OneFeed
    Loadable = {1, 2}
    MaxConcurrent = 1
    Batch = 1
    BacklogCap = 2
    UserOps = {"ChangeRules"}
    MaxOps = 1
    MaxFails = 0
    MaxNested = 1
    MaxRequests = 1
PROPERTIES ThreeSwitches
CHECK_DEADLOCK FALSE
