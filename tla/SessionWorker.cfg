SPECIFICATION Spec
CONSTANTS
    k1 = k1
    c1 = c1
    c2 = c2
    None = None
    Keys = {k1}
    Callers = {c1}
    KeyOf <- OneKey
    ClientOps = {"AddMagnet", "AddTorrentFile", "AddFromResumeData", "Remove"}
    Faults = {"addFails", "badMetadata"}
    MaxCmds = 2
INVARIANTS TypeOK HandlesTracked CancelCleansUp
