SPECIFICATION Spec
CONSTANTS
    k1 = k1
    c1 = c1
    c2 = c2
    None = None
    Keys = {k1}
    Callers = {c1}
    KeyOf <- OneKey
    ClientOps = {"AddTorrentFile"}
    Faults = {}
    MaxCmds = 1
INVARIANT OptionsApplied
