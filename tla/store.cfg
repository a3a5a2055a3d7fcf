SPECIFICATION Spec
CONSTANTS
    Procs = {p1}
    MaxVersion = 3
    Size <- Sizes
    Inodes = {i1, i2, i3, i4}
    None = None
    DiskMayFill = TRUE
CHECK_DEADLOCK FALSE
INVARIANTS
    TypeOK
    FileIsComplete
PROPERTIES
    SaveIsAtomic
