SPECIFICATION ProgressSpec
CONSTANTS
    i1 = i1
    i2 = i2
    i3 = i3
    ui = ui
    t1 = t1
    Items = {i1, i2, i3}
    Threads = {ui, t1}
    UI = ui
    DefaultLimit = 1
    Limits <- AskedLimits
INVARIANTS TypeOK NoLostWakeup InFlightExact
PROPERTIES EverySettled ImplementsDownloadQueue EligibleTried MetadataDelivered
CHECK_DEADLOCK FALSE
