SPECIFICATION Spec
CONSTANTS
    Tasks = {t1}
    NoFile = NoFile
    Faults = {}
    MaxOps = 1
    MaxFaults = 1
PROPERTY EveryTaskRestored
