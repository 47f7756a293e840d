SPECIFICATION Spec
CONSTANTS
    k1 = k1
    c1 = c1
    c2 = c2
    None = None
    Keys = {k1}
    Callers = {c1, c2}
    KeyOf <- OneKey
    ClientOps = {"AddMagnet", "Pause", "Resume"}
    Faults = {"metadataFails", "badMetadata"}
    MaxCmds = 1
SYMMETRY Symmetry
INVARIANTS AnsweredOnce NoPendingLeak
