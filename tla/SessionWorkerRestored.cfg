SPECIFICATION Spec
CONSTANTS
    k1 = k1
    c1 = c1
    c2 = c2
    None = None
    Keys = {k1}
    Callers = {}
    KeyOf <- OneKey
    ClientOps = {"AddFromResumeData"}
    Faults = {}
    MaxCmds = 1
INVARIANT RestoredStaysPaused
