CONSTANTS
    NULL = NULL
    ThreadWriters = {}
    LoopWriters = {l1, l2}
    Deletes = {q1}
    Retention = 1
    MaxDay = 3
    MaxSaves = 4
SPECIFICATION Spec
INVARIANTS TypeOK FilesWhole RestoresNewest
PROPERTIES ImplementsStore
