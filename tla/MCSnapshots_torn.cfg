CONSTANTS
    NULL = NULL
    ThreadWriters = {t1, t2}
    LoopWriters = {}
    Deletes = {}
    Retention = 1
    MaxDay = 1
    MaxSaves = 2
SPECIFICATION Spec
INVARIANTS FilesWhole
