SPECIFICATION FairSpec
CONSTANTS
    Tasks = {t1, t2}
    NoFile = NoFile
    Faults = {"writeFails", "corruption"}
    MaxOps = 2
    MaxFaults = 1
INVARIANTS TypeOK LastSavedIsRead 
PROPERTIES NoResurrection EventuallySaved
